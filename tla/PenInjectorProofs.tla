------------------------- MODULE PenInjectorProofs -------------------------
(* Proofs for PenInjector, for every set of profiles and touch ids.         *)
EXTENDS PenInjector, TLAPS

-----------------------------------------------------------------------------
(* Sequences of calls.                                                      *)

(* k will be released by c.                                                 *)
Releases(c, k) == \E i \in DOMAIN c : c[i] = [op |-> "up", key |-> k]

(* Every key that c presses is one of T or is released later in c.          *)
EndsIn(c, T) ==
    \A i \in DOMAIN c : c[i].op = "down" =>
        \/ c[i].key \in T
        \/ \E j \in DOMAIN c : i < j /\ c[j] = [op |-> "up", key |-> c[i].key]

(* Putting two such sequences one after the other keeps both facts.         *)
LEMMA Concatenation ==
    ASSUME NEW T, NEW c \in Seq(Call), NEW d \in Seq(Call)
    PROVE  /\ c \o d \in Seq(Call)
           /\ EndsIn(c, T) /\ EndsIn(d, T) => EndsIn(c \o d, T)
           /\ \A k : Releases(c, k) \/ Releases(d, k) => Releases(c \o d, k)
<1>1. c \o d \in Seq(Call) /\ Len(c \o d) = Len(c) + Len(d)
  OBVIOUS
<1>2. /\ \A i \in DOMAIN c : i \in DOMAIN (c \o d) /\ (c \o d)[i] = c[i]
      /\ \A i \in DOMAIN d : /\ Len(c) + i \in DOMAIN (c \o d)
                             /\ (c \o d)[Len(c) + i] = d[i]
  OBVIOUS
<1>3. \A i \in DOMAIN (c \o d) :
          i \in DOMAIN c \/ (i - Len(c) \in DOMAIN d /\ i = Len(c) + (i - Len(c)))
  OBVIOUS
<1>4. ASSUME EndsIn(c, T), EndsIn(d, T) PROVE EndsIn(c \o d, T)
  <2> SUFFICES ASSUME NEW i \in DOMAIN (c \o d), (c \o d)[i].op = "down"
               PROVE  \/ (c \o d)[i].key \in T
                      \/ \E j \in DOMAIN (c \o d) :
                             i < j /\ (c \o d)[j] = [op |-> "up", key |-> (c \o d)[i].key]
    BY DEF EndsIn
  <2>1. CASE i \in DOMAIN c
    <3>1. \/ c[i].key \in T
          \/ \E j \in DOMAIN c : i < j /\ c[j] = [op |-> "up", key |-> c[i].key]
      BY <1>2, <1>4, <2>1 DEF EndsIn
    <3>2. QED
      BY <1>2, <2>1, <3>1
  <2>2. CASE i - Len(c) \in DOMAIN d /\ i = Len(c) + (i - Len(c))
    <3> DEFINE m == i - Len(c)
    <3>1. (c \o d)[i] = d[m] /\ m \in DOMAIN d
      BY <1>2, <2>2
    <3>2. \/ d[m].key \in T
          \/ \E j \in DOMAIN d : m < j /\ d[j] = [op |-> "up", key |-> d[m].key]
      BY <1>4, <3>1 DEF EndsIn
    <3>3. CASE d[m].key \in T
      BY <3>1, <3>3
    <3>4. CASE \E j \in DOMAIN d : m < j /\ d[j] = [op |-> "up", key |-> d[m].key]
      <4>1. PICK j \in DOMAIN d : m < j /\ d[j] = [op |-> "up", key |-> d[m].key]
        BY <3>4
      <4>2. /\ Len(c) + j \in DOMAIN (c \o d) /\ i < Len(c) + j
            /\ (c \o d)[Len(c) + j] = [op |-> "up", key |-> (c \o d)[i].key]
        BY <1>2, <2>2, <3>1, <4>1
      <4>3. QED
        BY <4>2
    <3>5. QED
      BY <3>2, <3>3, <3>4
  <2>3. QED
    BY <1>3, <2>1, <2>2
<1>5. \A k : Releases(c, k) \/ Releases(d, k) => Releases(c \o d, k)
  BY <1>2 DEF Releases
<1>6. QED
  BY <1>1, <1>4, <1>5

(* What the calls of one binding do to its keys.                            *)
LEMMA KeyCalls ==
    ASSUME NEW T, NEW keys \in Seq(Keys)
    PROVE  /\ Downs(keys) \in Seq(Call) /\ Ups(keys) \in Seq(Call)
           /\ (\A i \in DOMAIN keys : keys[i] \in T) => EndsIn(Downs(keys), T)
           /\ EndsIn(Ups(keys), T)
           /\ \A i \in DOMAIN keys : Releases(Ups(keys), keys[i])
           /\ EndsIn(Downs(keys) \o Ups(keys), T)
<1> DEFINE n == Len(keys)
<1>1. /\ n \in Nat /\ DOMAIN keys = 1 .. n
      /\ \A i \in 1 .. n : keys[i] \in Keys /\ (n - i) + 1 \in 1 .. n
      /\ \A i \in 1 .. n : (n - ((n - i) + 1)) + 1 = i
  OBVIOUS
<1>2. \A i \in 1 .. n : Reverse(keys)[i] = keys[(n - i) + 1]
  BY <1>1 DEF Reverse
<1>3. /\ DOMAIN Downs(keys) = 1 .. n /\ DOMAIN Ups(keys) = 1 .. n
      /\ \A i \in 1 .. n : /\ Downs(keys)[i] = [op |-> "down", key |-> keys[i]]
                           /\ Ups(keys)[i] = [op |-> "up", key |-> keys[(n - i) + 1]]
  BY <1>1, <1>2 DEF Downs, Ups
<1>4. \A i \in 1 .. n : Downs(keys)[i] \in Call /\ Ups(keys)[i] \in Call
  BY <1>1, <1>3 DEF Call
<1>5. Downs(keys) \in Seq(Call) /\ Len(Downs(keys)) = n
  <2>1. Downs(keys) \in [1 .. n -> Call]
    BY <1>1, <1>3, <1>4 DEF Downs
  <2>2. QED
    BY <1>1, <2>1
<1>6. Ups(keys) \in Seq(Call) /\ Len(Ups(keys)) = n
  <2>1. Ups(keys) \in [1 .. n -> Call]
    BY <1>1, <1>3, <1>4 DEF Ups
  <2>2. QED
    BY <1>1, <2>1
<1>7. (\A i \in DOMAIN keys : keys[i] \in T) => EndsIn(Downs(keys), T)
  BY <1>1, <1>3 DEF EndsIn
<1>8. EndsIn(Ups(keys), T)
  BY <1>3 DEF EndsIn
<1>9. \A i \in 1 .. n : Ups(keys)[(n - i) + 1] = [op |-> "up", key |-> keys[i]]
  BY <1>1, <1>3
<1>10. \A i \in DOMAIN keys : Releases(Ups(keys), keys[i])
  BY <1>1, <1>3, <1>9 DEF Releases
<1>11. EndsIn(Downs(keys) \o Ups(keys), T)
  <2> DEFINE c == Downs(keys) \o Ups(keys)
  <2>1. /\ DOMAIN c = 1 .. n + n
        /\ \A i \in 1 .. n : c[i] = Downs(keys)[i] /\ c[n + i] = Ups(keys)[i]
        /\ \A i \in n + 1 .. n + n : c[i] = Ups(keys)[i - n]
    BY <1>1, <1>5, <1>6
  <2> SUFFICES ASSUME NEW i \in 1 .. n + n, c[i].op = "down"
               PROVE  \E j \in 1 .. n + n : i < j /\ c[j] = [op |-> "up", key |-> c[i].key]
    BY <2>1 DEF EndsIn
  <2>2. CASE i \in 1 .. n
    <3> DEFINE j == n + ((n - i) + 1)
    <3>1. j \in 1 .. n + n /\ i < j
      BY <1>1, <2>2
    <3>2. c[j] = [op |-> "up", key |-> c[i].key]
      <4>1. c[j] = Ups(keys)[(n - i) + 1]
        BY <1>1, <2>1, <2>2
      <4>2. c[i].key = keys[i]
        BY <1>3, <2>1, <2>2
      <4>3. QED
        BY <1>9, <2>2, <4>1, <4>2
    <3>3. QED
      BY <3>1, <3>2
  <2>3. CASE i \in n + 1 .. n + n
    <3>1. c[i] = Ups(keys)[i - n] /\ i - n \in 1 .. n
      BY <1>1, <2>1, <2>3
    <3>2. c[i].op = "up"
      BY <1>3, <3>1
    <3>3. QED
      BY <3>2
  <2>4. i \in 1 .. n \/ i \in n + 1 .. n + n
    BY <1>1
  <2> HIDE DEF c, n
  <2>5. QED
    BY <2>2, <2>3, <2>4
<1>12. QED
  BY <1>5, <1>6, <1>7, <1>8, <1>10, <1>11

(* The bindings of a profile have keys of Keys and a known kind.            *)
LEMMA Bindings ==
    ASSUME NEW p \in Profiles, NEW s \in Slots
    PROVE  p[s].kind \in Kinds /\ p[s].keys \in Seq(Keys)
<1>1. p[s].kind \in Kinds /\ p[s].keys \in Seq(KeysOf(p))
  BY ProfilesAssumption
<1>2. KeysOf(p) \subseteq Keys
  BY DEF Keys
<1> DEFINE q == p[s].keys
<1>3. Len(q) \in Nat /\ q \in [1 .. Len(q) -> KeysOf(p)]
  BY <1>1
<1> HIDE DEF q
<1>4. q \in [1 .. Len(q) -> Keys]
  BY <1>2, <1>3
<1>5. q \in Seq(Keys)
  BY <1>3, <1>4
<1>6. QED
  BY <1>1, <1>5 DEF q

(* What a slot does when the buttons become `now' presses nothing that is   *)
(* not held by `now' or released, and releases what it held.                *)
LEMMA OneSlot ==
    ASSUME pen_profile \in Profiles, NEW now \in SUBSET Slots, NEW s \in Slots
    PROVE  /\ SlotCalls(s, now) \in Seq(Call)
           /\ EndsIn(SlotCalls(s, now), Held(pen_profile, now))
           /\ \A i \in DOMAIN pen_profile[s].keys :
                  s \in last_pen_buttons /\ pen_profile[s].kind \in Holding =>
                      \/ pen_profile[s].keys[i] \in Held(pen_profile, now)
                      \/ Releases(SlotCalls(s, now), pen_profile[s].keys[i])
<1> DEFINE b == pen_profile[s]
           H == Held(pen_profile, now)
<1>1. b.kind \in Kinds /\ b.keys \in Seq(Keys)
  BY Bindings
<1>2. s \in now /\ b.kind \in Holding => \A i \in DOMAIN b.keys : b.keys[i] \in H
  BY DEF Held
<1>3. << >> \in Seq(Call) /\ EndsIn(<< >>, H)
  BY DEF EndsIn
<1>4. << [op |-> "toggle"] >> \in Seq(Call) /\ EndsIn(<< [op |-> "toggle"] >>, H)
  <2>1. [op |-> "toggle"] \in Call
    BY DEF Call
  <2>2. << [op |-> "toggle"] >> \in Seq(Call)
    BY <2>1
  <2>3. \A i \in DOMAIN << [op |-> "toggle"] >> : << [op |-> "toggle"] >>[i].op # "down"
    OBVIOUS
  <2>4. QED
    BY <2>2, <2>3 DEF EndsIn
<1> HIDE DEF b, H
<1>5. /\ Downs(b.keys) \in Seq(Call) /\ Ups(b.keys) \in Seq(Call)
      /\ (\A i \in DOMAIN b.keys : b.keys[i] \in H) => EndsIn(Downs(b.keys), H)
      /\ EndsIn(Ups(b.keys), H)
      /\ \A i \in DOMAIN b.keys : Releases(Ups(b.keys), b.keys[i])
      /\ EndsIn(Downs(b.keys) \o Ups(b.keys), H)
  BY <1>1, KeyCalls
<1>6. Downs(b.keys) \o Ups(b.keys) \in Seq(Call)
  BY <1>5, Concatenation
<1>7. s \in now => Press(b) \in Seq(Call) /\ EndsIn(Press(b), H)
  <2>1. CASE b.kind \in Holding
    <3>1. b.kind \notin {"KeyTap", "KeyChord"} /\ b.kind # "EraserToggle" /\ b.kind # "None"
      BY <2>1 DEF Holding
    <3>2. Press(b) = Downs(b.keys)
      BY <2>1, <3>1 DEF Press
    <3>3. QED
      BY <1>2, <1>5, <2>1, <3>2
  <2>2. CASE b.kind \in {"KeyTap", "KeyChord"}
    <3>1. b.kind \notin Holding /\ b.kind # "EraserToggle" /\ b.kind # "None"
      BY <2>2 DEF Holding
    <3>2. Press(b) = Downs(b.keys) \o Ups(b.keys)
      BY <2>2, <3>1 DEF Press
    <3>3. QED
      BY <1>5, <1>6, <3>2
  <2>3. CASE b.kind = "EraserToggle"
    BY <1>4, <2>3 DEF Press, Holding
  <2>4. CASE b.kind = "None"
    BY <1>3, <2>4 DEF Press, Holding
  <2>5. QED
    BY <1>1, <2>1, <2>2, <2>3, <2>4 DEF Kinds
<1>8. /\ Release(b) \in Seq(Call) /\ EndsIn(Release(b), H)
      /\ b.kind \in Holding => \A i \in DOMAIN b.keys : Releases(Release(b), b.keys[i])
  BY <1>3, <1>5 DEF Release
<1>9. SlotCalls(s, now) = IF s \in now \ last_pen_buttons THEN Press(b)
                          ELSE IF s \in last_pen_buttons \ now THEN Release(b) ELSE << >>
  BY DEF SlotCalls, b
<1>10. SlotCalls(s, now) \in Seq(Call) /\ EndsIn(SlotCalls(s, now), H)
  BY <1>3, <1>7, <1>8, <1>9
<1>11. ASSUME NEW i \in DOMAIN b.keys, s \in last_pen_buttons, b.kind \in Holding
       PROVE  b.keys[i] \in H \/ Releases(SlotCalls(s, now), b.keys[i])
  BY <1>2, <1>8, <1>9, <1>11
<1>12. QED
  BY <1>10, <1>11 DEF b, H

(* The same of the whole of dispatch_pen_buttons.                           *)
LEMMA WholeDispatch ==
    ASSUME pen_profile \in Profiles, last_pen_buttons \subseteq Slots,
           NEW now \in SUBSET Slots
    PROVE  /\ DispatchCalls(now) \in Seq(Call)
           /\ EndsIn(DispatchCalls(now), Held(pen_profile, now))
           /\ \A k \in Held(pen_profile, last_pen_buttons) :
                  k \in Held(pen_profile, now) \/ Releases(DispatchCalls(now), k)
<1> DEFINE H == Held(pen_profile, now)
           m == IF \E s \in now \cup last_pen_buttons : pen_profile[s].kind = "MouseButton"
                THEN << [op |-> "move"] >> ELSE << >>
           a == SlotCalls(0, now)
           b == SlotCalls(1, now)
           c == SlotCalls(2, now)
<1>1. m \in Seq(Call) /\ EndsIn(m, H)
  <2>1. [op |-> "move"] \in Call
    BY DEF Call
  <2>2. << [op |-> "move"] >> \in Seq(Call) /\ << >> \in Seq(Call)
    BY <2>1
  <2>3. \A i \in DOMAIN << [op |-> "move"] >> : << [op |-> "move"] >>[i].op # "down"
    OBVIOUS
  <2>4. EndsIn(<< [op |-> "move"] >>, H) /\ EndsIn(<< >>, H)
    BY <2>3 DEF EndsIn
  <2>5. QED
    BY <2>2, <2>4
<1>2. /\ a \in Seq(Call) /\ b \in Seq(Call) /\ c \in Seq(Call)
      /\ EndsIn(a, H) /\ EndsIn(b, H) /\ EndsIn(c, H)
  BY OneSlot DEF Slots
<1>3. DispatchCalls(now) = ((m \o a) \o b) \o c
  BY DEF DispatchCalls
<1>4. ASSUME NEW k \in Held(pen_profile, last_pen_buttons)
      PROVE  k \in H \/ Releases(a, k) \/ Releases(b, k) \/ Releases(c, k)
  <2>1. PICK s \in last_pen_buttons : /\ pen_profile[s].kind \in Holding
                                      /\ \E i \in DOMAIN pen_profile[s].keys :
                                             k = pen_profile[s].keys[i]
    BY DEF Held
  <2>2. PICK i \in DOMAIN pen_profile[s].keys : k = pen_profile[s].keys[i]
    BY <2>1
  <2>3. s \in Slots
    OBVIOUS
  <2>4. k \in H \/ Releases(SlotCalls(s, now), k)
    BY <2>1, <2>2, <2>3, OneSlot
  <2>5. s = 0 \/ s = 1 \/ s = 2
    BY <2>3 DEF Slots
  <2>6. QED
    BY <2>4, <2>5
<1> HIDE DEF H, m, a, b, c
<1>5. /\ m \o a \in Seq(Call) /\ EndsIn(m \o a, H)
      /\ \A k : Releases(a, k) => Releases(m \o a, k)
  BY <1>1, <1>2, Concatenation
<1>6. /\ (m \o a) \o b \in Seq(Call) /\ EndsIn((m \o a) \o b, H)
      /\ \A k : Releases(m \o a, k) \/ Releases(b, k) => Releases((m \o a) \o b, k)
  BY <1>2, <1>5, Concatenation
<1>7. /\ DispatchCalls(now) \in Seq(Call) /\ EndsIn(DispatchCalls(now), H)
      /\ \A k : Releases((m \o a) \o b, k) \/ Releases(c, k)
                   => Releases(DispatchCalls(now), k)
  BY <1>2, <1>3, <1>6, Concatenation, ZenonT(30)
<1>8. QED
  BY <1>4, <1>5, <1>6, <1>7 DEF H

(* Doing the first of the calls.                                            *)
LEMMA FirstCall ==
    ASSUME NEW T, NEW c \in Seq(Call), c # << >>
    PROVE  /\ Head(c) \in Call /\ Tail(c) \in Seq(Call)
           /\ EndsIn(c, T) => EndsIn(Tail(c), T)
           /\ EndsIn(c, T) /\ Head(c).op = "down"
                  => Head(c).key \in T \/ Releases(Tail(c), Head(c).key)
           /\ \A k : Releases(c, k)
                  => Head(c) = [op |-> "up", key |-> k] \/ Releases(Tail(c), k)
<1>1. /\ Head(c) \in Call /\ Tail(c) \in Seq(Call) /\ Head(c) = c[1]
      /\ Len(c) \in Nat \ {0} /\ DOMAIN c = 1 .. Len(c)
      /\ DOMAIN Tail(c) = 1 .. Len(c) - 1
  OBVIOUS
<1>2. /\ \A i \in DOMAIN Tail(c) : i + 1 \in DOMAIN c /\ Tail(c)[i] = c[i + 1] /\ i \in Nat
      /\ \A i \in DOMAIN c : /\ i \in Nat
                             /\ i = 1 \/ (i - 1 \in DOMAIN Tail(c) /\ Tail(c)[i - 1] = c[i])
  OBVIOUS
<1>3. ASSUME EndsIn(c, T) PROVE EndsIn(Tail(c), T)
  <2> SUFFICES ASSUME NEW i \in DOMAIN Tail(c), Tail(c)[i].op = "down"
               PROVE  \/ Tail(c)[i].key \in T
                      \/ \E j \in DOMAIN Tail(c) :
                             i < j /\ Tail(c)[j] = [op |-> "up", key |-> Tail(c)[i].key]
    BY DEF EndsIn
  <2>1. \/ c[i + 1].key \in T
        \/ \E j \in DOMAIN c : i + 1 < j /\ c[j] = [op |-> "up", key |-> c[i + 1].key]
    BY <1>2, <1>3 DEF EndsIn
  <2>2. CASE \E j \in DOMAIN c : i + 1 < j /\ c[j] = [op |-> "up", key |-> c[i + 1].key]
    <3>1. PICK j \in DOMAIN c : i + 1 < j /\ c[j] = [op |-> "up", key |-> c[i + 1].key]
      BY <2>2
    <3>2. j - 1 \in DOMAIN Tail(c) /\ i < j - 1 /\ Tail(c)[j - 1] = c[j]
      BY <1>2, <3>1
    <3>3. QED
      BY <1>2, <3>1, <3>2
  <2>3. QED
    BY <1>2, <2>1, <2>2
<1>4. ASSUME EndsIn(c, T), Head(c).op = "down"
      PROVE  Head(c).key \in T \/ Releases(Tail(c), Head(c).key)
  <2>1. \/ c[1].key \in T
        \/ \E j \in DOMAIN c : 1 < j /\ c[j] = [op |-> "up", key |-> c[1].key]
    BY <1>1, <1>4 DEF EndsIn
  <2>2. ASSUME NEW j \in DOMAIN c, 1 < j, c[j] = [op |-> "up", key |-> c[1].key]
        PROVE  Releases(Tail(c), Head(c).key)
    <3>1. j - 1 \in DOMAIN Tail(c) /\ Tail(c)[j - 1] = [op |-> "up", key |-> Head(c).key]
      BY <1>1, <1>2, <2>2
    <3>2. QED
      BY <3>1 DEF Releases
  <2>3. QED
    BY <1>1, <2>1, <2>2
<1>5. ASSUME NEW k, Releases(c, k)
      PROVE  Head(c) = [op |-> "up", key |-> k] \/ Releases(Tail(c), k)
  BY <1>1, <1>2, <1>5 DEF Releases
<1>6. QED
  BY <1>1, <1>3, <1>4, <1>5

-----------------------------------------------------------------------------
(* The same calls from the other side: what they leave down.                *)

(* k will be pressed by c.                                                  *)
Presses(c, k) == \E i \in DOMAIN c : c[i] = [op |-> "down", key |-> k]

(* What a concatenation presses and releases.                               *)
LEMMA Joined ==
    ASSUME NEW c \in Seq(Call), NEW d \in Seq(Call), NEW k
    PROVE  /\ Releases(c \o d, k) => Releases(c, k) \/ Releases(d, k)
           /\ Presses(c, k) \/ Presses(d, k) => Presses(c \o d, k)
<1>1. /\ \A i \in DOMAIN c : i \in DOMAIN (c \o d) /\ (c \o d)[i] = c[i]
      /\ \A i \in DOMAIN d : /\ Len(c) + i \in DOMAIN (c \o d)
                             /\ (c \o d)[Len(c) + i] = d[i]
  OBVIOUS
<1>2. \A i \in DOMAIN (c \o d) :
          i \in DOMAIN c \/ (i - Len(c) \in DOMAIN d /\ i = Len(c) + (i - Len(c)))
  OBVIOUS
<1>3. Releases(c \o d, k) => Releases(c, k) \/ Releases(d, k)
  BY <1>1, <1>2 DEF Releases
<1>4. QED
  BY <1>1, <1>3 DEF Presses

(* The calls of a slot release its own keys only, and none while its button *)
(* is down; a button that holds keys presses all of them.                   *)
LEMMA SlotKeys ==
    ASSUME pen_profile \in Profiles, NEW now \in SUBSET Slots, NEW s \in Slots, NEW k
    PROVE  LET b == pen_profile[s] IN
           /\ Releases(SlotCalls(s, now), k) => \E i \in DOMAIN b.keys : k = b.keys[i]
           /\ s \in now /\ b.kind \in Holding => ~Releases(SlotCalls(s, now), k)
           /\ s \in now \ last_pen_buttons /\ b.kind \in Holding =>
                  \A i \in DOMAIN b.keys : Presses(SlotCalls(s, now), b.keys[i])
<1> DEFINE b == pen_profile[s]
<1>1. b.kind \in Kinds /\ b.keys \in Seq(Keys)
  BY Bindings
<1>2. SlotCalls(s, now) = IF s \in now \ last_pen_buttons THEN Press(b)
                          ELSE IF s \in last_pen_buttons \ now THEN Release(b) ELSE << >>
  BY DEF SlotCalls
<1> HIDE DEF b
<1> DEFINE n == Len(b.keys)
<1>3. n \in Nat /\ DOMAIN b.keys = 1 .. n /\ \A i \in 1 .. n : (n - i) + 1 \in 1 .. n
  BY <1>1
<1>4. /\ DOMAIN Downs(b.keys) = 1 .. n /\ DOMAIN Ups(b.keys) = 1 .. n
      /\ \A i \in 1 .. n : /\ Downs(b.keys)[i] = [op |-> "down", key |-> b.keys[i]]
                           /\ Ups(b.keys)[i] = [op |-> "up", key |-> b.keys[(n - i) + 1]]
  BY <1>3 DEF Downs, Ups, Reverse
<1>5. ~Releases(Downs(b.keys), k) /\ ~Releases(<< >>, k)
  <2>1. ASSUME NEW i \in 1 .. n PROVE Downs(b.keys)[i].op = "down"
    <3>1. Downs(b.keys)[i] = [op |-> "down", key |-> b.keys[i]]
      BY <1>4
    <3>2. QED
      BY <3>1
  <2>2. \A i \in 1 .. n : Downs(b.keys)[i] # [op |-> "up", key |-> k]
    BY <2>1
  <2>3. ~Releases(Downs(b.keys), k)
    BY <1>4, <2>2 DEF Releases
  <2>4. ~Releases(<< >>, k)
    BY DEF Releases
  <2>5. QED
    BY <2>3, <2>4
<1>6. ~Releases(<< [op |-> "toggle"] >>, k)
  <2>1. \A i \in DOMAIN << [op |-> "toggle"] >> : << [op |-> "toggle"] >>[i].op # "up"
    OBVIOUS
  <2>2. QED
    BY <2>1 DEF Releases
<1>7. Releases(Ups(b.keys), k) => \E i \in DOMAIN b.keys : k = b.keys[i]
  <2> SUFFICES ASSUME NEW i \in 1 .. n, Ups(b.keys)[i] = [op |-> "up", key |-> k]
               PROVE  \E j \in 1 .. n : k = b.keys[j]
    BY <1>3, <1>4 DEF Releases
  <2>1. [op |-> "up", key |-> k] = [op |-> "up", key |-> b.keys[(n - i) + 1]]
    BY <1>4
  <2>2. k = b.keys[(n - i) + 1]
    BY <2>1
  <2>3. QED
    BY <1>3, <2>2
<1>8. \A i \in DOMAIN b.keys : Presses(Downs(b.keys), b.keys[i])
  BY <1>3, <1>4 DEF Presses
<1>9. Releases(Downs(b.keys) \o Ups(b.keys), k) => \E i \in DOMAIN b.keys : k = b.keys[i]
  BY <1>1, <1>5, <1>7, KeyCalls, Joined
<1> HIDE DEF n
<1>10. b.kind \in Holding => Press(b) = Downs(b.keys)
  BY DEF Press, Holding
<1>11. Releases(Press(b), k) => \E i \in DOMAIN b.keys : k = b.keys[i]
  <2>1. CASE b.kind \in Holding
    BY <1>5, <1>10, <2>1
  <2>2. CASE b.kind \in {"KeyTap", "KeyChord"}
    <3>1. Press(b) = Downs(b.keys) \o Ups(b.keys)
      BY <2>2 DEF Press, Holding
    <3>2. QED
      BY <1>9, <3>1
  <2>3. CASE b.kind = "EraserToggle"
    <3>1. Press(b) = << [op |-> "toggle"] >>
      BY <2>3 DEF Press, Holding
    <3>2. QED
      BY <1>6, <3>1
  <2>4. CASE b.kind = "None"
    <3>1. Press(b) = << >>
      BY <2>4 DEF Press, Holding
    <3>2. QED
      BY <1>5, <3>1
  <2>5. QED
    BY <1>1, <2>1, <2>2, <2>3, <2>4 DEF Kinds
<1>12. Releases(Release(b), k) => \E i \in DOMAIN b.keys : k = b.keys[i]
  BY <1>5, <1>7 DEF Release
<1>13. Releases(SlotCalls(s, now), k) => \E i \in DOMAIN b.keys : k = b.keys[i]
  BY <1>2, <1>5, <1>11, <1>12
<1>14. s \in now /\ b.kind \in Holding => ~Releases(SlotCalls(s, now), k)
  BY <1>2, <1>5, <1>10
<1>15. s \in now \ last_pen_buttons /\ b.kind \in Holding =>
           \A i \in DOMAIN b.keys : Presses(SlotCalls(s, now), b.keys[i])
  BY <1>2, <1>8, <1>10
<1>16. QED
  BY <1>13, <1>14, <1>15 DEF b

(* When no two buttons share a key, dispatch_pen_buttons releases no key    *)
(* that is to be held, and presses each one that was not held before.       *)
LEMMA DispatchHolds ==
    ASSUME pen_profile \in Profiles, last_pen_buttons \subseteq Slots,
           NEW now \in SUBSET Slots, ~SharesKey(pen_profile),
           NEW k \in Held(pen_profile, now)
    PROVE  /\ ~Releases(DispatchCalls(now), k)
           /\ k \in Held(pen_profile, last_pen_buttons) \/ Presses(DispatchCalls(now), k)
<1> DEFINE m == IF \E s \in now \cup last_pen_buttons : pen_profile[s].kind = "MouseButton"
                THEN << [op |-> "move"] >> ELSE << >>
           a == SlotCalls(0, now)
           b == SlotCalls(1, now)
           c == SlotCalls(2, now)
<1>1. m \in Seq(Call) /\ ~Releases(m, k)
  <2>1. [op |-> "move"] \in Call
    BY DEF Call
  <2>2. << [op |-> "move"] >> \in Seq(Call) /\ << >> \in Seq(Call)
    BY <2>1
  <2>3. \A i \in DOMAIN << [op |-> "move"] >> : << [op |-> "move"] >>[i].op # "up"
    OBVIOUS
  <2>4. ~Releases(<< [op |-> "move"] >>, k) /\ ~Releases(<< >>, k)
    BY <2>3 DEF Releases
  <2>5. QED
    BY <2>2, <2>4
<1>2. a \in Seq(Call) /\ b \in Seq(Call) /\ c \in Seq(Call)
  BY OneSlot DEF Slots
<1>3. DispatchCalls(now) = ((m \o a) \o b) \o c
  BY DEF DispatchCalls
<1>4. PICK s \in now : /\ pen_profile[s].kind \in Holding
                       /\ \E i \in DOMAIN pen_profile[s].keys : k = pen_profile[s].keys[i]
  BY DEF Held
<1>5. PICK i \in DOMAIN pen_profile[s].keys : k = pen_profile[s].keys[i]
  BY <1>4
<1>6. s \in Slots
  OBVIOUS
<1>7. \A t \in Slots : ~Releases(SlotCalls(t, now), k)
  <2> SUFFICES ASSUME NEW t \in Slots, Releases(SlotCalls(t, now), k) PROVE FALSE
    OBVIOUS
  <2>1. PICK j \in DOMAIN pen_profile[t].keys : k = pen_profile[t].keys[j]
    BY SlotKeys
  <2>2. t = s
    BY <1>5, <1>6, <2>1 DEF SharesKey
  <2>3. QED
    BY <1>4, <1>6, <2>2, SlotKeys
<1>8. s \in last_pen_buttons => k \in Held(pen_profile, last_pen_buttons)
  BY <1>4, <1>5 DEF Held
<1>9. s \notin last_pen_buttons => Presses(SlotCalls(s, now), k)
  BY <1>4, <1>5, <1>6, SlotKeys
<1>10. ~Releases(a, k) /\ ~Releases(b, k) /\ ~Releases(c, k)
         /\ (s \notin last_pen_buttons => Presses(a, k) \/ Presses(b, k) \/ Presses(c, k))
  BY <1>6, <1>7, <1>9 DEF Slots
<1> HIDE DEF m, a, b, c
<1>11. m \o a \in Seq(Call) /\ ~Releases(m \o a, k) /\ (Presses(a, k) => Presses(m \o a, k))
  BY <1>1, <1>2, <1>10, Joined
<1>12. /\ (m \o a) \o b \in Seq(Call) /\ ~Releases((m \o a) \o b, k)
       /\ Presses(a, k) \/ Presses(b, k) => Presses((m \o a) \o b, k)
  <2> DEFINE d == m \o a
  <2>1. d \in Seq(Call) /\ b \in Seq(Call) /\ ~Releases(d, k) /\ ~Releases(b, k)
    BY <1>2, <1>10, <1>11
  <2>2. Presses(a, k) => Presses(d, k)
    BY <1>11
  <2> HIDE DEF d
  <2>3. d \o b \in Seq(Call)
    BY <2>1
  <2>4. /\ Releases(d \o b, k) => Releases(d, k) \/ Releases(b, k)
        /\ Presses(d, k) \/ Presses(b, k) => Presses(d \o b, k)
    BY <2>1, Joined
  <2>5. QED
    BY <2>1, <2>2, <2>3, <2>4 DEF d
<1>13. /\ ~Releases(DispatchCalls(now), k)
       /\ Presses(a, k) \/ Presses(b, k) \/ Presses(c, k) => Presses(DispatchCalls(now), k)
  <2> DEFINE d == (m \o a) \o b
  <2>1. d \in Seq(Call) /\ c \in Seq(Call) /\ ~Releases(d, k) /\ ~Releases(c, k)
    BY <1>2, <1>10, <1>12
  <2>2. Presses(a, k) \/ Presses(b, k) => Presses(d, k)
    BY <1>12
  <2> HIDE DEF d
  <2>3. /\ Releases(d \o c, k) => Releases(d, k) \/ Releases(c, k)
        /\ Presses(d, k) \/ Presses(c, k) => Presses(d \o c, k)
    BY <2>1, Joined
  <2>4. DispatchCalls(now) = d \o c
    BY <1>3 DEF d
  <2>5. QED
    BY <2>1, <2>2, <2>3, <2>4
<1>14. QED
  BY <1>8, <1>10, <1>13

(* Doing the first of the calls.                                            *)
LEMMA FirstPress ==
    ASSUME NEW c \in Seq(Call), c # << >>, NEW k
    PROVE  /\ Releases(Tail(c), k) \/ Head(c) = [op |-> "up", key |-> k] => Releases(c, k)
           /\ Presses(c, k) => Head(c) = [op |-> "down", key |-> k] \/ Presses(Tail(c), k)
<1>1. Head(c) = c[1] /\ 1 \in DOMAIN c
  OBVIOUS
<1>2. /\ \A i \in DOMAIN Tail(c) : i + 1 \in DOMAIN c /\ Tail(c)[i] = c[i + 1]
      /\ \A i \in DOMAIN c : i = 1 \/ (i - 1 \in DOMAIN Tail(c) /\ Tail(c)[i - 1] = c[i])
  OBVIOUS
<1>3. QED
  BY <1>1, <1>2 DEF Releases, Presses

-----------------------------------------------------------------------------
(* The inductive invariant.                                                 *)

(* A pen that touches is in range, for the sample, the injector and Windows. *)
ContactInv ==
    /\ sample.contact => sample.range
    /\ last_pen.contact => last_pen.range
    /\ os_pen.contact => os_pen.range

InStep == os_pen.range = last_pen.range /\ os_pen.contact = last_pen.contact

(* Windows never believes more of the pen than the injector remembers; both *)
(* are in step until a flush; and a frame that is about to be written in    *)
(* range has the tool Windows knows.                                        *)
PenInv ==
    /\ os_pen.range => last_pen.range /\ os_pen.eraser = last_pen.eraser
    /\ pc = "write" /\ ~vmulti /\ os_pen.range => Eraser = last_pen.eraser
    /\ pc \in {"idle", "dispatch", "flush"} /\ ~pen_failed => InStep
    /\ pc = "write" /\ ~pen_failed /\ ~flushed => InStep
    /\ pc = "flush" => last_pen.range
    /\ pen_failed => failures > 0

(* Every key that is down is held by a button or about to be released.      *)
KeyInv ==
    /\ pc \in {"idle", "flush", "write"} /\ ~key_failed =>
           keys_down \subseteq Held(pen_profile, last_pen_buttons)
    /\ pc = "dispatch" /\ ~key_failed =>
           /\ EndsIn(calls, Held(pen_profile, sample.buttons))
           /\ \A k \in keys_down : \/ k \in Held(pen_profile, sample.buttons)
                                   \/ Releases(calls, k)

(* Unless two buttons share one, every key that a button holds is down, or  *)
(* about to be pressed and not to be released.                              *)
HeldInv ==
    ~key_failed /\ ~SharesKey(pen_profile) =>
        /\ pc \in {"idle", "flush", "write"} =>
               Held(pen_profile, last_pen_buttons) \subseteq keys_down
        /\ pc = "dispatch" =>
               \A k \in Held(pen_profile, sample.buttons) :
                   ~Releases(calls, k) /\ (k \in keys_down \/ Presses(calls, k))

Inv == TypeOK /\ ContactInv /\ PenInv /\ KeyInv /\ HeldInv /\ FramesFit /\ TouchAgrees

(* The part of TypeOK that no step disturbs in an interesting way, step by  *)
(* step.                                                                    *)
LEMMA TypeStep ==
    ASSUME TypeOK, [Next]_vars
    PROVE  TypeOK'
<1> USE DEF TypeOK
<1>1. ASSUME NEW phase \in 0 .. 4, NEW eraser \in BOOLEAN, NEW buttons \in SUBSET Slots,
             ReadPen(phase, eraser, buttons)
      PROVE  TypeOK'
  <2>1. DispatchCalls(buttons) \in Seq(Call)
    BY WholeDispatch
  <2>2. sample' \in Sample
    BY <1>1 DEF ReadPen, Sample
  <2>3. QED
    BY <1>1, <2>1, <2>2 DEF ReadPen, buttonVars, windowsVars, historyVars
<1>2. ASSUME SendCall PROVE TypeOK'
  <2>1. Head(calls) \in Call /\ Tail(calls) \in Seq(Call)
    BY <1>2, FirstCall DEF SendCall
  <2>2. keys_down' \subseteq Keys
    BY <1>2, <2>1 DEF SendCall, Call
  <2>3. pen_eraser_sticky' \in BOOLEAN
    BY <1>2 DEF SendCall
  <2>4. QED
    BY <1>2, <2>1, <2>2, <2>3 DEF SendCall, historyVars
<1>3. ASSUME SendFails PROVE TypeOK'
  BY <1>3 DEF SendFails, NoSample, Sample, buttonVars, windowsVars
<1>4. ASSUME Dispatched PROVE TypeOK'
  BY <1>4 DEF Dispatched, Sample, windowsVars, historyVars
<1>5. ASSUME FlushOldTool PROVE TypeOK'
  BY <1>5 DEF FlushOldTool, PenFrame, Away, Pen, buttonVars
<1>6. ASSUME WritePen PROVE TypeOK'
  <2>1. NewPen \in Pen
    BY DEF NewPen, Eraser, Pen, Sample
  <2>2. QED
    BY <1>6, <2>1 DEF WritePen, PenFrame, NoSample, Sample, buttonVars
<1>7. ASSUME WriteFails PROVE TypeOK'
  BY <1>7 DEF WriteFails, NoSample, Sample, buttonVars, windowsVars
<1>8. ASSUME NEW snapshot \in SUBSET TouchIds, NEW ok \in BOOLEAN, InjectTouch(snapshot, ok)
      PROVE  TypeOK'
  <2>1. AfterTouch(TouchFrame(snapshot)) \subseteq TouchIds
    BY DEF AfterTouch, TouchFrame
  <2>2. QED
    BY <1>8, <2>1 DEF InjectTouch, handVars, buttonVars
<1>9. ASSUME NEW p \in Profiles, NEW stuck \in SUBSET Keys, SetPenProfile(p, stuck)
      PROVE  TypeOK'
  BY <1>9 DEF SetPenProfile, handVars
<1>10. ASSUME DropInjector PROVE TypeOK'
  BY <1>10 DEF DropInjector, Away, Pen, buttonVars, historyVars
<1>11. ASSUME UNCHANGED vars PROVE TypeOK'
  BY <1>11 DEF vars, handVars, buttonVars, windowsVars, historyVars
<1>12. QED
  BY <1>1, <1>2, <1>3, <1>4, <1>5, <1>6, <1>7, <1>8, <1>9, <1>10, <1>11
     DEF Next, Dropped

(* What Windows believes of the pen.                                        *)
LEMMA PenStep ==
    ASSUME TypeOK, ContactInv, PenInv, [Next]_vars
    PROVE  ContactInv' /\ PenInv'
<1> USE DEF ContactInv, PenInv, InStep
<1>0. /\ failures \in Nat /\ sample \in Sample /\ last_pen \in Pen /\ os_pen \in Pen
      /\ pen_failed \in BOOLEAN /\ pen_eraser_sticky \in BOOLEAN /\ vmulti \in BOOLEAN
  BY DEF TypeOK
<1>1. ASSUME NEW phase \in 0 .. 4, NEW eraser \in BOOLEAN, NEW buttons \in SUBSET Slots,
             ReadPen(phase, eraser, buttons)
      PROVE  ContactInv' /\ PenInv'
  BY <1>1 DEF ReadPen, buttonVars, windowsVars, historyVars
<1>2. ASSUME SendCall PROVE ContactInv' /\ PenInv'
  BY <1>2 DEF SendCall, historyVars
<1>3. ASSUME SendFails PROVE ContactInv' /\ PenInv'
  BY <1>0, <1>3 DEF SendFails, NoSample, buttonVars, windowsVars
<1>4. ASSUME Dispatched PROVE ContactInv' /\ PenInv'
  BY <1>0, <1>4 DEF Dispatched, Eraser, Pen, Sample, windowsVars, historyVars
<1>5. ASSUME FlushOldTool PROVE ContactInv' /\ PenInv'
  BY <1>0, <1>5 DEF FlushOldTool, PenFrame, Away, buttonVars
<1>6. ASSUME WritePen PROVE ContactInv' /\ PenInv'
  <2>1. pc' = "idle" /\ ~pen_failed' /\ last_pen' = NewPen /\ ~sample'.contact
    BY <1>6 DEF WritePen, NoSample
  <2>2. /\ NewPen.range = sample.range /\ NewPen.contact = sample.contact
        /\ NewPen.eraser = Eraser
    BY DEF NewPen
  <2>3. \/ os_pen' = NewPen
        \/ ~last_pen.range /\ ~sample.range /\ os_pen' = os_pen
    BY <1>6 DEF WritePen, PenFrame
  <2>4. QED
    BY <1>0, <2>1, <2>2, <2>3 DEF Pen, Sample
<1>7. ASSUME WriteFails PROVE ContactInv' /\ PenInv'
  BY <1>0, <1>7 DEF WriteFails, NoSample, buttonVars, windowsVars
<1>8. ASSUME NEW snapshot \in SUBSET TouchIds, NEW ok \in BOOLEAN, InjectTouch(snapshot, ok)
      PROVE  ContactInv' /\ PenInv'
  BY <1>0, <1>8 DEF InjectTouch, handVars, buttonVars, Eraser
<1>9. ASSUME NEW p \in Profiles, NEW stuck \in SUBSET Keys, SetPenProfile(p, stuck)
      PROVE  ContactInv' /\ PenInv'
  BY <1>0, <1>9 DEF SetPenProfile, handVars, Eraser
<1>10. ASSUME DropInjector PROVE ContactInv' /\ PenInv'
  BY <1>10 DEF DropInjector, Away, buttonVars, historyVars
<1>11. ASSUME UNCHANGED vars PROVE ContactInv' /\ PenInv'
  BY <1>11 DEF vars, handVars, buttonVars, windowsVars, historyVars, Eraser
<1>12. QED
  BY <1>1, <1>2, <1>3, <1>4, <1>5, <1>6, <1>7, <1>8, <1>9, <1>10, <1>11
     DEF Next, Dropped

(* The keys.                                                                *)
LEMMA KeyStep ==
    ASSUME TypeOK, KeyInv, [Next]_vars
    PROVE  KeyInv'
<1>1. ASSUME NEW phase \in 0 .. 4, NEW eraser \in BOOLEAN, NEW buttons \in SUBSET Slots,
             ReadPen(phase, eraser, buttons)
      PROVE  KeyInv'
  <2>1. /\ EndsIn(DispatchCalls(buttons), Held(pen_profile, buttons))
        /\ \A k \in Held(pen_profile, last_pen_buttons) :
               k \in Held(pen_profile, buttons) \/ Releases(DispatchCalls(buttons), k)
    BY WholeDispatch DEF TypeOK
  <2>2. /\ pc = "idle" /\ pc' = "dispatch" /\ sample'.buttons = buttons
        /\ calls' = DispatchCalls(buttons)
        /\ pen_profile' = pen_profile /\ keys_down' = keys_down /\ key_failed' = key_failed
    BY <1>1 DEF ReadPen, buttonVars, windowsVars, historyVars
  <2>3. QED
    BY <2>1, <2>2 DEF KeyInv
<1>2. ASSUME SendCall PROVE KeyInv'
  <2> DEFINE T == Held(pen_profile, sample.buttons)
             h == Head(calls)
             rest == Tail(calls)
  <2>1. /\ pc = "dispatch" /\ calls # << >> /\ calls \in Seq(Call)
        /\ pc' = pc /\ calls' = rest /\ sample' = sample
        /\ pen_profile' = pen_profile /\ key_failed' = key_failed
        /\ keys_down' = IF h.op = "down" THEN keys_down \cup {h.key}
                        ELSE IF h.op = "up" THEN keys_down \ {h.key} ELSE keys_down
    BY <1>2 DEF SendCall, historyVars, TypeOK
  <2>2. /\ EndsIn(calls, T) => EndsIn(rest, T)
        /\ EndsIn(calls, T) /\ h.op = "down" => h.key \in T \/ Releases(rest, h.key)
        /\ \A k : Releases(calls, k) => h = [op |-> "up", key |-> k] \/ Releases(rest, k)
    BY <2>1, FirstCall
  <2> HIDE DEF T, h, rest
  <2>3. ASSUME ~key_failed, NEW k \in keys_down' PROVE k \in T \/ Releases(rest, k)
    <3>1. EndsIn(calls, T) /\ \A l \in keys_down : l \in T \/ Releases(calls, l)
      BY <2>1, <2>3 DEF KeyInv, T
    <3>2. k \in keys_down \/ (h.op = "down" /\ k = h.key)
      BY <2>1, <2>3
    <3>3. h # [op |-> "up", key |-> k]
      BY <2>1, <2>3
    <3>4. QED
      BY <2>2, <3>1, <3>2, <3>3
  <2>4. ~key_failed => EndsIn(rest, T)
    BY <2>1, <2>2 DEF KeyInv, T
  <2>5. T' = T /\ rest = calls'
    BY <2>1 DEF T, Held
  <2>6. QED
    BY <2>1, <2>3, <2>4, <2>5 DEF KeyInv, T
<1>3. ASSUME SendFails PROVE KeyInv'
  BY <1>3 DEF SendFails, KeyInv
<1>4. ASSUME Dispatched PROVE KeyInv'
  <2>1. \A k : ~Releases(<< >>, k)
    BY DEF Releases
  <2>2. /\ pc = "dispatch" /\ calls = << >> /\ last_pen_buttons' = sample.buttons
        /\ pc' \in {"flush", "write"}
        /\ pen_profile' = pen_profile /\ keys_down' = keys_down /\ key_failed' = key_failed
    BY <1>4 DEF Dispatched, windowsVars, historyVars
  <2>3. QED
    BY <2>1, <2>2 DEF KeyInv
<1>5. ASSUME FlushOldTool PROVE KeyInv'
  BY <1>5 DEF FlushOldTool, KeyInv, buttonVars
<1>6. ASSUME WritePen PROVE KeyInv'
  BY <1>6 DEF WritePen, KeyInv, buttonVars
<1>7. ASSUME WriteFails PROVE KeyInv'
  BY <1>7 DEF WriteFails, KeyInv, buttonVars, windowsVars
<1>8. ASSUME NEW snapshot \in SUBSET TouchIds, NEW ok \in BOOLEAN, InjectTouch(snapshot, ok)
      PROVE  KeyInv'
  BY <1>8 DEF InjectTouch, KeyInv, handVars, buttonVars
<1>9. ASSUME NEW p \in Profiles, NEW stuck \in SUBSET Keys, SetPenProfile(p, stuck)
      PROVE  KeyInv'
  <2>1. /\ pc = "idle" /\ pc' = "idle"
        /\ key_failed' = (key_failed \/ stuck # {})
        /\ keys_down' = keys_down \ (Held(pen_profile, last_pen_buttons) \ stuck)
    BY <1>9 DEF SetPenProfile, handVars
  <2>2. ~key_failed' => keys_down' = {}
    BY <2>1 DEF KeyInv
  <2>3. QED
    BY <2>1, <2>2 DEF KeyInv
<1>10. ASSUME DropInjector PROVE KeyInv'
  BY <1>10 DEF DropInjector, KeyInv
<1>11. ASSUME UNCHANGED vars PROVE KeyInv'
  BY <1>11 DEF vars, handVars, buttonVars, windowsVars, historyVars, KeyInv
<1>12. QED
  BY <1>1, <1>2, <1>3, <1>4, <1>5, <1>6, <1>7, <1>8, <1>9, <1>10, <1>11
     DEF Next, Dropped

(* The keys of the buttons that are down stay down.                         *)
LEMMA HeldStep ==
    ASSUME TypeOK, HeldInv, [Next]_vars
    PROVE  HeldInv'
<1>1. ASSUME NEW phase \in 0 .. 4, NEW eraser \in BOOLEAN, NEW buttons \in SUBSET Slots,
             ReadPen(phase, eraser, buttons)
      PROVE  HeldInv'
  <2>1. /\ pc = "idle" /\ pc' = "dispatch" /\ sample'.buttons = buttons
        /\ calls' = DispatchCalls(buttons)
        /\ pen_profile' = pen_profile /\ keys_down' = keys_down /\ key_failed' = key_failed
    BY <1>1 DEF ReadPen, buttonVars, windowsVars, historyVars
  <2>2. ASSUME ~key_failed, ~SharesKey(pen_profile), NEW k \in Held(pen_profile, buttons)
        PROVE  /\ ~Releases(DispatchCalls(buttons), k)
               /\ k \in keys_down \/ Presses(DispatchCalls(buttons), k)
    BY <2>1, <2>2, DispatchHolds DEF HeldInv, TypeOK
  <2>3. QED
    BY <2>1, <2>2 DEF HeldInv
<1>2. ASSUME SendCall PROVE HeldInv'
  <2> DEFINE T == Held(pen_profile, sample.buttons)
             h == Head(calls)
             rest == Tail(calls)
  <2>1. /\ pc = "dispatch" /\ calls # << >> /\ calls \in Seq(Call)
        /\ pc' = pc /\ calls' = rest /\ sample' = sample
        /\ pen_profile' = pen_profile /\ key_failed' = key_failed
        /\ keys_down' = IF h.op = "down" THEN keys_down \cup {h.key}
                        ELSE IF h.op = "up" THEN keys_down \ {h.key} ELSE keys_down
    BY <1>2 DEF SendCall, historyVars, TypeOK
  <2>2. ASSUME NEW k
        PROVE  /\ Releases(rest, k) => Releases(calls, k)
               /\ h = [op |-> "up", key |-> k] => Releases(calls, k)
               /\ Presses(calls, k) => h = [op |-> "down", key |-> k] \/ Presses(rest, k)
    BY <2>1, FirstPress
  <2>3. h \in Call
    BY <2>1, FirstCall
  <2> HIDE DEF T, h, rest
  <2>4. ASSUME ~key_failed, ~SharesKey(pen_profile), NEW k \in T
        PROVE  ~Releases(rest, k) /\ (k \in keys_down' \/ Presses(rest, k))
    <3>1. ~Releases(calls, k) /\ (k \in keys_down \/ Presses(calls, k))
      BY <2>1, <2>4 DEF HeldInv, T
    <3>2. h.op = "up" => h.key # k
      <4>1. h.op = "up" /\ h.key = k => h = [op |-> "up", key |-> k]
        BY <2>3 DEF Call
      <4>2. h # [op |-> "up", key |-> k]
        BY <2>2, <3>1
      <4>3. QED
        BY <4>1, <4>2
    <3>3. ~Releases(rest, k)
      BY <2>2, <3>1
    <3>4. CASE k \in keys_down
      BY <2>1, <3>2, <3>3, <3>4
    <3>5. CASE Presses(calls, k)
      <4>1. h = [op |-> "down", key |-> k] \/ Presses(rest, k)
        BY <2>2, <3>5
      <4>2. CASE h = [op |-> "down", key |-> k]
        <5>1. h.op = "down" /\ h.key = k
          BY <4>2
        <5>2. QED
          BY <2>1, <3>3, <5>1
      <4>3. QED
        BY <3>3, <4>1, <4>2
    <3>6. QED
      BY <3>1, <3>3, <3>4, <3>5
  <2>5. T' = T /\ rest = calls'
    BY <2>1 DEF T, Held
  <2>6. QED
    BY <2>1, <2>4, <2>5 DEF HeldInv, T
<1>3. ASSUME SendFails PROVE HeldInv'
  BY <1>3 DEF SendFails, HeldInv
<1>4. ASSUME Dispatched PROVE HeldInv'
  <2>1. \A k : ~Presses(<< >>, k)
    BY DEF Presses
  <2>2. /\ pc = "dispatch" /\ calls = << >> /\ last_pen_buttons' = sample.buttons
        /\ pc' \in {"flush", "write"}
        /\ pen_profile' = pen_profile /\ keys_down' = keys_down /\ key_failed' = key_failed
    BY <1>4 DEF Dispatched, windowsVars, historyVars
  <2>3. QED
    BY <2>1, <2>2 DEF HeldInv
<1>5. ASSUME FlushOldTool PROVE HeldInv'
  BY <1>5 DEF FlushOldTool, HeldInv, buttonVars
<1>6. ASSUME WritePen PROVE HeldInv'
  BY <1>6 DEF WritePen, HeldInv, buttonVars
<1>7. ASSUME WriteFails PROVE HeldInv'
  BY <1>7 DEF WriteFails, HeldInv, buttonVars, windowsVars
<1>8. ASSUME NEW snapshot \in SUBSET TouchIds, NEW ok \in BOOLEAN, InjectTouch(snapshot, ok)
      PROVE  HeldInv'
  BY <1>8 DEF InjectTouch, HeldInv, handVars, buttonVars
<1>9. ASSUME NEW p \in Profiles, NEW stuck \in SUBSET Keys, SetPenProfile(p, stuck)
      PROVE  HeldInv'
  <2>1. pc' = "idle" /\ last_pen_buttons' = {}
    BY <1>9 DEF SetPenProfile, handVars
  <2>2. Held(pen_profile', {}) = {}
    BY DEF Held
  <2>3. QED
    BY <2>1, <2>2 DEF HeldInv
<1>10. ASSUME DropInjector PROVE HeldInv'
  BY <1>10 DEF DropInjector, HeldInv
<1>11. ASSUME UNCHANGED vars PROVE HeldInv'
  BY <1>11 DEF vars, handVars, buttonVars, windowsVars, historyVars, HeldInv
<1>12. QED
  BY <1>1, <1>2, <1>3, <1>4, <1>5, <1>6, <1>7, <1>8, <1>9, <1>10, <1>11
     DEF Next, Dropped

(* A snapshot puts Windows in step with it, and its bits fit.               *)
LEMMA TouchDiff ==
    ASSUME NEW snapshot \in SUBSET TouchIds, os_touch = last_touch_pos
    PROVE  AfterTouch(TouchFrame(snapshot)) = snapshot /\ TouchFits(TouchFrame(snapshot))
<1> DEFINE F == TouchFrame(snapshot)
<1>1. \A c \in F : \/ c.id \in snapshot /\ c.op # "UP"
                       /\ (c.op = "DOWN") = (c.id \notin last_touch_pos)
                   \/ c.id \in last_touch_pos \ snapshot /\ c.op = "UP"
  BY DEF TouchFrame
<1>2. /\ \A i \in snapshot : \E c \in F : c.id = i /\ c.op # "UP"
      /\ \A i \in last_touch_pos \ snapshot : \E c \in F : c.id = i /\ c.op = "UP"
  <2>1. ASSUME NEW i \in snapshot PROVE \E c \in F : c.id = i /\ c.op # "UP"
    <3> DEFINE d == [id |-> i, op |-> IF i \in last_touch_pos THEN "UPDATE" ELSE "DOWN"]
    <3>1. d \in F /\ d.id = i /\ d.op # "UP"
      BY DEF TouchFrame
    <3>2. QED
      BY <3>1
  <2>2. ASSUME NEW i \in last_touch_pos \ snapshot PROVE \E c \in F : c.id = i /\ c.op = "UP"
    <3>1. [id |-> i, op |-> "UP"] \in F
      BY DEF TouchFrame
    <3>2. QED
      BY <3>1
  <2>3. QED
    BY <2>1, <2>2
<1> HIDE DEF F
<1>3. TouchFits(F)
  BY <1>1 DEF TouchFits
<1>4. AfterTouch(F) = snapshot
  <2>1. \A i \in AfterTouch(F) : i \in snapshot
    BY <1>1, <1>2 DEF AfterTouch
  <2>2. \A i \in snapshot : i \in AfterTouch(F)
    BY <1>1, <1>2 DEF AfterTouch
  <2>3. QED
    BY <2>1, <2>2
<1>5. QED
  BY <1>3, <1>4 DEF F

(* The touch contacts.                                                      *)
LEMMA TouchStep ==
    ASSUME TouchAgrees, [Next]_vars
    PROVE  TouchAgrees'
<1> USE DEF TouchAgrees
<1>1. ASSUME NEW snapshot \in SUBSET TouchIds, NEW ok \in BOOLEAN, InjectTouch(snapshot, ok)
      PROVE  TouchAgrees'
  BY <1>1, TouchDiff DEF InjectTouch, handVars
<1>2. ASSUME DropInjector PROVE TouchAgrees'
  BY <1>2 DEF DropInjector
<1>3. ASSUME UNCHANGED << os_touch, last_touch_pos >>, pc # "dropped" \/ pc' = pc
      PROVE  TouchAgrees'
  BY <1>3
<1>4. QED
  BY <1>1, <1>2, <1>3
     DEF Next, Dropped, ReadPen, SendCall, SendFails, Dispatched, FlushOldTool,
         WritePen, WriteFails, SetPenProfile, vars, handVars, windowsVars

(* The transition bits of a sample's frame fit when Windows and the injector *)
(* are in step.                                                             *)
LEMMA BitsFit ==
    ASSUME NEW was \in Pen, NEW os \in Pen, NEW now \in Pen,
           os.range = was.range, os.contact = was.contact,
           was.contact => was.range, now.contact => now.range, was.range \/ now.range
    PROVE  Fits(pen_pointer_flags(was, now), os, now)
<1> USE DEF Pen
<1>1. CASE ~now.range
  BY <1>1 DEF Fits, Expected, pen_pointer_flags
<1>2. CASE now.range /\ now.contact
  BY <1>2 DEF Fits, Expected, pen_pointer_flags
<1>3. CASE now.range /\ ~now.contact
  BY <1>3 DEF Fits, Expected, pen_pointer_flags
<1>4. QED
  BY <1>1, <1>2, <1>3

(* The frames.                                                              *)
LEMMA FrameStep ==
    ASSUME TypeOK, ContactInv, PenInv, TouchAgrees, FramesFit, [Next]_vars
    PROVE  FramesFit'
<1> USE DEF FramesFit
<1>0. failures \in Nat
  BY DEF TypeOK
<1>1. ASSUME FlushOldTool PROVE FramesFit'
  BY <1>1 DEF FlushOldTool
<1>2. ASSUME WritePen PROVE FramesFit'
  <2>1. pc = "write" /\ flushed' = flushed /\ failures' = failures
    BY <1>2 DEF WritePen
  <2>2. CASE flushed \/ failures > 0
    BY <2>1, <2>2
  <2>3. CASE ~flushed /\ ~(failures > 0)
    <3>1. InStep /\ ~misfit
      BY <2>1, <2>3 DEF PenInv
    <3>2. NewPen \in Pen /\ NewPen.range = sample.range /\ NewPen.contact = sample.contact
      BY DEF TypeOK, NewPen, Eraser, Pen, Sample
    <3>3. last_pen.range \/ sample.range => Fits(pen_pointer_flags(last_pen, NewPen), os_pen, NewPen)
      BY <3>1, <3>2, BitsFit DEF TypeOK, ContactInv, InStep
    <3>4. ~misfit'
      BY <1>2, <3>1, <3>3 DEF WritePen, PenFrame
    <3>5. QED
      BY <3>4
  <2>4. QED
    BY <2>2, <2>3
<1>3. ASSUME NEW snapshot \in SUBSET TouchIds, NEW ok \in BOOLEAN, InjectTouch(snapshot, ok)
      PROVE  FramesFit'
  <2>1. pc = "idle" /\ flushed' = flushed
    BY <1>3 DEF InjectTouch
  <2>2. TouchFits(TouchFrame(snapshot))
    BY <2>1, TouchDiff DEF TouchAgrees
  <2>3. misfit' => misfit
    <3>1. CASE ok
      BY <1>3, <2>2, <3>1, Zenon DEF InjectTouch
    <3>2. CASE ~ok
      BY <1>3, <3>2 DEF InjectTouch
    <3>3. QED
      BY <3>1, <3>2
  <2>4. failures' = failures \/ failures' = failures + 1
    BY <1>3 DEF InjectTouch
  <2>5. QED
    BY <1>0, <2>1, <2>3, <2>4
<1>4. ASSUME misfit' = misfit, flushed' = flushed, failures' = failures \/ failures' = failures + 1
      PROVE  FramesFit'
  BY <1>0, <1>4
<1>5. QED
  BY <1>1, <1>2, <1>3, <1>4
     DEF Next, Dropped, ReadPen, SendCall, SendFails, Dispatched, WriteFails,
         SetPenProfile, DropInjector, vars, historyVars

-----------------------------------------------------------------------------
(* Theorems.                                                                *)

(* The invariant holds in every state of the injector, for every set of     *)
(* button profiles, every set of fingers and any number of failing calls.   *)
THEOREM Invariance == Spec => []Inv
<1>1. Init => Inv
  <2> SUFFICES ASSUME Init PROVE Inv
    OBVIOUS
  <2>1. TypeOK
    <3>1. << >> \in Seq(Call)
      OBVIOUS
    <3>2. QED
      BY <3>1 DEF Init, TypeOK, NoSample, Sample, Away, Pen
  <2>2. ContactInv /\ PenInv /\ KeyInv /\ FramesFit /\ TouchAgrees
    BY DEF Init, NoSample, Away, ContactInv, PenInv, InStep, KeyInv, FramesFit, TouchAgrees
  <2>3. HeldInv
    <3>1. Held(pen_profile, {}) = {}
      BY DEF Held
    <3>2. QED
      BY <3>1 DEF Init, HeldInv
  <2>4. QED
    BY <2>1, <2>2, <2>3 DEF Inv
<1>2. Inv /\ [Next]_vars => Inv'
  BY TypeStep, PenStep, KeyStep, HeldStep, FrameStep, TouchStep DEF Inv
<1>3. QED
  BY <1>1, <1>2, PTL DEF Spec

(* The variables of the injector and of Windows keep their types.           *)
THEOREM TypeCorrect == Spec => []TypeOK
<1>1. Inv => TypeOK
  BY DEF Inv
<1>2. QED
  BY <1>1, Invariance, PTL

(* dispatch_pen_buttons and set_pen_profile leave no key down that no held  *)
(* button accounts for, for any bindings, also ones that share keys.        *)
THEOREM NoKeyLeftDown == Spec => []NoStrayKey
<1>1. Inv => NoStrayKey
  BY DEF Inv, KeyInv, NoStrayKey
<1>2. QED
  BY <1>1, Invariance, PTL

(* dispatch_pen_buttons keeps the keys of a held button down for as long as *)
(* it is held: when no two buttons use a common key, what is down between   *)
(* samples is exactly what the held buttons hold.                           *)
THEOREM ButtonsHoldKeys == Spec => []KeysFollowButtons
<1>1. Inv => KeysFollowButtons
  BY DEF Inv, KeyInv, HeldInv, KeysFollowButtons
<1>2. QED
  BY <1>1, Invariance, PTL

(* inject_pen and Windows agree on the pen between samples.                 *)
THEOREM PenInStep == Spec => []PenAgrees
<1>1. Inv => PenAgrees
  BY DEF Inv, PenInv, InStep, PenAgrees
<1>2. QED
  BY <1>1, Invariance, PTL

(* pen_pointer_flags and inject_touch give every frame the bits Windows     *)
(* expects until an eraser flush or a failure.                              *)
THEOREM FramesAlwaysFit == Spec => []FramesFit
<1>1. Inv => FramesFit
  BY DEF Inv
<1>2. QED
  BY <1>1, Invariance, PTL

(* inject_touch leaves no finger down in Windows that is not in the last    *)
(* snapshot it injected.                                                    *)
THEOREM TouchInStep == Spec => []TouchAgrees
<1>1. Inv => TouchAgrees
  BY DEF Inv
<1>2. QED
  BY <1>1, Invariance, PTL

(* The flush of inject_pen: the synthetic pen never turns while in range.   *)
THEOREM PenTurnsAway == Spec => EraserFlipsOutOfRange
<1> DEFINE Same == ~vmulti /\ os_pen.range /\ os_pen'.range => os_pen'.eraser = os_pen.eraser
<1>1. Inv /\ [Next]_vars => [Same]_vars
  <2> SUFFICES ASSUME Inv, Next PROVE Same
    OBVIOUS
  <2>1. CASE WritePen
    <3>1. os_pen' = os_pen \/ (os_pen' = NewPen /\ pc = "write")
      BY <2>1 DEF WritePen, PenFrame
    <3>2. QED
      BY <3>1 DEF Inv, PenInv, NewPen
  <2>2. CASE FlushOldTool
    BY <2>2 DEF FlushOldTool, PenFrame, Away
  <2>3. CASE os_pen' = os_pen \/ os_pen' = Away
    BY <2>3 DEF Away
  <2>4. QED
    BY <2>1, <2>2, <2>3
       DEF Next, Dropped, ReadPen, SendCall, SendFails, Dispatched, WriteFails,
           InjectTouch, SetPenProfile, DropInjector, vars, windowsVars
<1>2. QED
  BY <1>1, Invariance, PTL DEF Spec, EraserFlipsOutOfRange

=============================================================================
