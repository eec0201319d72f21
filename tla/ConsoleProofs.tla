---------------------------- MODULE ConsoleProofs ----------------------------
(***************************************************************************)
(* Proofs about the console's input, for any set of readers, any keyboard, *)
(* any size of the ring and any width of its indices that is a multiple of *)
(* that size.                                                              *)
(***************************************************************************)
EXTENDS Console, NatLemmas, SequenceTheorems, TLAPS

----------------------------------------------------------------------------
(***************************************************************************)
(* The keyboard.                                                           *)
(***************************************************************************)

\* The second byte of a two-byte code, on the wire.
Pending(k, u) == k[1] = "e0" /\ wire = <<[key |-> k[2], up |-> u]>>

\* Between the two bytes of a code the driver remembers the E0, and it may not
\* have seen yet that a control key has gone up; one whose press is pending is
\* held.
KbdSound ==
    /\ wire = <<>> \/ \E k \in Keys, u \in BOOLEAN : Pending(k, u)
    /\ "E0ESC" \in shift <=> wire # <<>>
    /\ "SHIFT" \in shift <=> <<"", "lshift">> \in held
    /\ "CTL" \in shift => \/ \E k \in held : k[2] = "ctl"
                          \/ wire = <<[key |-> "ctl", up |-> TRUE]>>
    /\ wire = <<[key |-> "ctl", up |-> FALSE]>> => <<"e0", "ctl">> \in held

\* What the keys are.
LEMMA KeysOK ==
  \A k \in Keys : k = <<k[1], k[2]>> /\ k[1] \in {"", "e0"} /\ k[2] # "E0"
  BY ConsoleAssumption

\* The parts of the codes of the shift and control keys.
LEMMA PartsOf ==
  ASSUME NEW k
  PROVE  /\ k \in {<<"", "lshift">>, <<"", "rshift">>} => k[1] = "" /\ k[2] # "ctl"
         /\ k = <<"", "ctl">> => k[1] = "" /\ k[2] = "ctl"
         /\ k = <<"e0", "ctl">> => k[1] = "e0" /\ k[2] = "ctl"
<1>1. ASSUME k = <<"", "lshift">> PROVE k[1] = "" /\ k[2] # "ctl"
  BY <1>1
<1>2. ASSUME k = <<"", "rshift">> PROVE k[1] = "" /\ k[2] # "ctl"
  BY <1>2
<1>3. ASSUME k = <<"", "ctl">> PROVE k[1] = "" /\ k[2] = "ctl"
  BY <1>3
<1>4. ASSUME k = <<"e0", "ctl">> PROVE k[1] = "e0" /\ k[2] = "ctl"
  BY <1>4
<1> QED
  BY <1>1, <1>2, <1>3, <1>4

\* shiftcode[] and togglecode[].
LEMMA CodesAre ==
  ASSUME NEW d
  PROVE  /\ "SHIFT" \in shiftcode(d) <=> d \in {<<"", "lshift">>, <<"", "rshift">>}
         /\ "CTL" \in shiftcode(d) <=> d \in {<<"", "ctl">>, <<"e0", "ctl">>}
         /\ "E0ESC" \notin shiftcode(d)
         /\ shiftcode(d) = {} <=> d \notin {<<"", "lshift">>, <<"", "rshift">>,
                                            <<"", "ctl">>, <<"e0", "ctl">>}
         /\ togglecode(d) \subseteq {"CAPSLOCK"}
<1>1. <<"", "lshift">> # <<"", "ctl">> /\ <<"", "lshift">> # <<"e0", "ctl">>
  OBVIOUS
<1>2. <<"", "rshift">> # <<"", "ctl">> /\ <<"", "rshift">> # <<"e0", "ctl">>
  OBVIOUS
<1>3. CASE d \in {<<"", "lshift">>, <<"", "rshift">>}
  BY <1>1, <1>2, <1>3 DEF shiftcode, togglecode
<1>4. CASE d \in {<<"", "ctl">>, <<"e0", "ctl">>}
  BY <1>1, <1>2, <1>4 DEF shiftcode, togglecode
<1>5. CASE d \notin {<<"", "lshift">>, <<"", "rshift">>, <<"", "ctl">>, <<"e0", "ctl">>}
  BY <1>5 DEF shiftcode, togglecode
<1> QED
  BY <1>3, <1>4, <1>5

\* A key that goes down: its shift bit is set, the E0 is forgotten.
LEMMA PressIs ==
  ASSUME NEW s, NEW d
  PROVE  /\ \A x \in {"SHIFT", "CTL"} : x \in Press(s, d) <=> x \in s \/ x \in shiftcode(d)
         /\ "E0ESC" \notin Press(s, d)
  BY CodesAre DEF Press

\* kbdgetc() on the E0 byte, on a key that goes up and on one that goes down.
LEMMA GetcIs ==
  ASSUME NEW s, NEW b
  PROVE  kbdgetc(s, b)[1] = IF b = E0 THEN s \cup {"E0ESC"}
                            ELSE IF b.up THEN Release(s, Code(s, b))
                            ELSE Press(s, Code(s, b))
<1>1. ~E0.up
  BY DEF E0
<1>2. CASE b = E0
  BY <1>1, <1>2 DEF kbdgetc
<1>3. CASE b # E0
  BY <1>3 DEF kbdgetc
<1> QED
  BY <1>2, <1>3

\* The bytes of a key.
LEMMA SendsIs ==
  ASSUME NEW k \in Keys, NEW u \in BOOLEAN
  PROVE  /\ k[1] = "e0" => /\ Head(Sends(k, u)) = E0
                           /\ Tail(Sends(k, u)) = <<[key |-> k[2], up |-> u]>>
         /\ k[1] = "" => /\ Head(Sends(k, u)) = [key |-> k[2], up |-> u]
                         /\ Tail(Sends(k, u)) = <<>>
<1> DEFINE b == [key |-> k[2], up |-> u]
<1>1. CASE k[1] = "e0"
  <2>1. Sends(k, u) = <<E0, b>>
    BY <1>1 DEF Sends
  <2> HIDE DEF b
  <2> QED
    BY <1>1, <2>1 DEF b
<1>2. CASE k[1] = ""
  <2>1. Sends(k, u) = <<b>> /\ k[1] # "e0"
    BY <1>2 DEF Sends
  <2> HIDE DEF b
  <2>2. Head(Sends(k, u)) = b
    BY <2>1
  <2>3. Tail(Sends(k, u)) = <<>>
    BY <2>1
  <2> QED
    BY <2>1, <2>2, <2>3 DEF b
<1> QED
  BY <1>1, <1>2

\* The byte of a key is not the E0.
LEMMA KeyByte ==
  ASSUME NEW k \in Keys, NEW u
  PROVE  [key |-> k[2], up |-> u] # E0
<1>1. k[2] # "E0"
  BY KeysOK
<1>2. E0.key = "E0" /\ [key |-> k[2], up |-> u].key = k[2]
  BY DEF E0
<1> QED
  BY <1>1, <1>2

\* Equal bytes on the wire are of the same key and the same move.
LEMMA SameByte ==
  ASSUME NEW x, NEW y, NEW a, NEW b,
         <<[key |-> x, up |-> a]>> = <<[key |-> y, up |-> b]>>
  PROVE  x = y /\ a = b
<1>1. <<[key |-> x, up |-> a]>>[1] = [key |-> x, up |-> a]
  OBVIOUS
<1>2. <<[key |-> y, up |-> b]>>[1] = [key |-> y, up |-> b]
  OBVIOUS
<1>3. [key |-> x, up |-> a] = [key |-> y, up |-> b]
  BY <1>1, <1>2
<1> QED
  BY <1>3

\* Initially no key is down.
LEMMA InitKbd == Init => KbdSound
  BY DEF Init, KbdSound

\* A key moves.
LEMMA KeyMovesKbd ==
  ASSUME KbdSound, <<"", "rshift">> \notin Keys,
         NEW k \in Keys, NEW u \in BOOLEAN, KeyMoves(k, u)
  PROVE  KbdSound'
<1>1. /\ wire = <<>>
      /\ shift' = kbdgetc(shift, Head(Sends(k, u)))[1]
      /\ wire' = Tail(Sends(k, u))
  BY DEF KeyMoves, kbdintr
<1>2. /\ shiftcode(k) = {} => held' = held
      /\ shiftcode(k) # {} => /\ u => k \in held
                              /\ held' = IF u THEN held \ {k} ELSE held \cup {k}
  BY DEF KeyMoves
<1>3. k = <<k[1], k[2]>> /\ k[1] \in {"", "e0"}
  BY KeysOK
<1>4. "E0ESC" \notin shift
  BY <1>1 DEF KbdSound
<1>5. CASE k[1] = "e0"
  <2>1. wire' = <<[key |-> k[2], up |-> u]>> /\ shift' = shift \cup {"E0ESC"}
    BY <1>1, <1>5, SendsIs, GetcIs
  <2>2. wire' # <<>>
    BY <2>1
  <2>3. <<"", "lshift">> \in held' <=> <<"", "lshift">> \in held
    <3>1. k # <<"", "lshift">>
      BY <1>5, PartsOf
    <3> QED
      BY <1>2, <3>1
  <2>4. "CTL" \in shift' => \/ \E j \in held' : j[2] = "ctl"
                            \/ wire' = <<[key |-> "ctl", up |-> TRUE]>>
    <3> SUFFICES ASSUME "CTL" \in shift', wire' # <<[key |-> "ctl", up |-> TRUE]>>
                 PROVE  \E j \in held' : j[2] = "ctl"
      OBVIOUS
    <3>1. PICK j \in held : j[2] = "ctl"
      BY <1>1, <2>1 DEF KbdSound
    <3>2. ~(u /\ k[2] = "ctl")
      BY <2>1
    <3>3. CASE shiftcode(k) = {}
      BY <1>2, <3>1, <3>3
    <3>4. CASE shiftcode(k) # {}
      <4>1. k[2] = "ctl"
        <5>1. k \in {<<"", "lshift">>, <<"", "rshift">>, <<"", "ctl">>, <<"e0", "ctl">>}
          BY <3>4, CodesAre
        <5> QED
          BY <5>1, <1>5, PartsOf
      <4> QED
        BY <1>2, <3>2, <3>4, <4>1
    <3> QED
      BY <3>3, <3>4
  <2>5. wire' = <<[key |-> "ctl", up |-> FALSE]>> => <<"e0", "ctl">> \in held'
    <3> SUFFICES ASSUME wire' = <<[key |-> "ctl", up |-> FALSE]>>
                 PROVE  <<"e0", "ctl">> \in held'
      OBVIOUS
    <3>1. k[2] = "ctl" /\ ~u
      <4>1. <<[key |-> k[2], up |-> u]>> = <<[key |-> "ctl", up |-> FALSE]>>
        BY <2>1
      <4> QED
        BY <4>1, SameByte
    <3>2. k = <<"e0", "ctl">>
      BY <1>3, <1>5, <3>1
    <3>3. shiftcode(k) # {}
      BY <3>2, CodesAre
    <3> QED
      BY <1>2, <3>1, <3>2, <3>3
  <2>6. \E j \in Keys, v \in BOOLEAN : j[1] = "e0" /\ wire' = <<[key |-> j[2], up |-> v]>>
    BY <1>5, <2>1
  <2>7. /\ "E0ESC" \in shift'
        /\ "SHIFT" \in shift' <=> "SHIFT" \in shift
    BY <2>1
  <2> QED
    BY <2>2, <2>3, <2>4, <2>5, <2>6, <2>7 DEF KbdSound, Pending
<1>6. CASE k[1] = ""
  <2> DEFINE b == [key |-> k[2], up |-> u]
  <2>1. wire' = <<>> /\ shift' = kbdgetc(shift, b)[1]
    BY <1>1, <1>6, SendsIs
  <2>2. Code(shift, b) = k
    BY <1>3, <1>4, <1>6 DEF Code
  <2>3. b # E0 /\ b.up = u
    BY KeyByte
  <2>4. shift' = IF u THEN Release(shift, k) ELSE Press(shift, k)
    <3> HIDE DEF b
    <3> QED
      BY <2>1, <2>2, <2>3, GetcIs
  <2>5. "E0ESC" \notin shift'
    BY <2>4, PressIs DEF Release
  <2>6. "SHIFT" \in shift' <=> <<"", "lshift">> \in held'
    <3>1. "SHIFT" \in shiftcode(k) <=> k = <<"", "lshift">>
      BY CodesAre
    <3>2. "SHIFT" \in shift <=> <<"", "lshift">> \in held
      BY DEF KbdSound
    <3>3. k = <<"", "lshift">> => shiftcode(k) # {}
      BY CodesAre
    <3>4. "SHIFT" \in shift' <=> IF u THEN "SHIFT" \in shift /\ "SHIFT" \notin shiftcode(k)
                                 ELSE "SHIFT" \in shift \/ "SHIFT" \in shiftcode(k)
      BY <2>4, PressIs DEF Release
    <3> QED
      BY <1>2, <3>1, <3>2, <3>3, <3>4
  <2>7. "CTL" \in shift' => \E j \in held' : j[2] = "ctl"
    <3> SUFFICES ASSUME "CTL" \in shift' PROVE \E j \in held' : j[2] = "ctl"
      OBVIOUS
    <3>1. "CTL" \in shift' <=> IF u THEN "CTL" \in shift /\ "CTL" \notin shiftcode(k)
                               ELSE "CTL" \in shift \/ "CTL" \in shiftcode(k)
      BY <2>4, PressIs DEF Release
    <3>2. "CTL" \in shiftcode(k) <=> k = <<"", "ctl">>
      <4>1. k # <<"e0", "ctl">>
        BY <1>6, PartsOf
      <4> QED
        BY <4>1, CodesAre
    <3>3. CASE "CTL" \in shiftcode(k)
      <4>1. shiftcode(k) # {} /\ ~u /\ k[2] = "ctl"
        BY <3>1, <3>2, <3>3, PartsOf
      <4> QED
        BY <1>2, <4>1
    <3>4. CASE "CTL" \notin shiftcode(k)
      <4>1. PICK j \in held : j[2] = "ctl"
        BY <1>1, <3>1, <3>4 DEF KbdSound
      <4>2. shiftcode(k) # {} => k[2] # "ctl"
        <5>1. shiftcode(k) # {} => k \in {<<"", "lshift">>, <<"", "rshift">>,
                                         <<"", "ctl">>, <<"e0", "ctl">>}
          BY CodesAre
        <5> QED
          BY <5>1, <3>2, <3>4, <1>6, PartsOf
      <4> QED
        BY <1>2, <4>1, <4>2
    <3> QED
      BY <3>3, <3>4
  <2> QED
    BY <2>1, <2>5, <2>6, <2>7 DEF KbdSound
<1> QED
  BY <1>3, <1>5, <1>6

\* The byte that follows an E0 arrives.
LEMMA SecondByteKbd ==
  ASSUME KbdSound, SecondByte
  PROVE  KbdSound'
<1>1. /\ wire # <<>> /\ held' = held
      /\ shift' = kbdgetc(shift, Head(wire))[1]
      /\ wire' = Tail(wire)
  BY DEF SecondByte, kbdintr
<1>2. PICK k \in Keys, u \in BOOLEAN : k[1] = "e0" /\ wire = <<[key |-> k[2], up |-> u]>>
  BY <1>1 DEF KbdSound, Pending
<1> DEFINE b == [key |-> k[2], up |-> u]
           d == <<"e0", k[2]>>
<1>3. Head(wire) = b /\ wire' = <<>>
  BY <1>1, <1>2
<1>4. Code(shift, b) = d
  BY <1>1 DEF KbdSound, Code
<1>5. b # E0 /\ b.up = u
  BY KeyByte
<1>6. shift' = IF u THEN Release(shift, d) ELSE Press(shift, d)
  <2> HIDE DEF b, d
  <2> QED
    BY <1>1, <1>3, <1>4, <1>5, GetcIs
<1>7. "SHIFT" \notin shiftcode(d) /\ ("CTL" \in shiftcode(d) <=> k[2] = "ctl")
  <2>1. d # <<"", "lshift">> /\ d # <<"", "rshift">> /\ d # <<"", "ctl">>
    OBVIOUS
  <2>2. d = <<"e0", "ctl">> <=> k[2] = "ctl"
    OBVIOUS
  <2> HIDE DEF d
  <2> QED
    BY <2>1, <2>2, CodesAre
<1>8. /\ "E0ESC" \notin shift'
      /\ "SHIFT" \in shift' <=> "SHIFT" \in shift
      /\ "CTL" \in shift' <=> IF u THEN "CTL" \in shift /\ "CTL" \notin shiftcode(d)
                              ELSE "CTL" \in shift \/ "CTL" \in shiftcode(d)
  <2> HIDE DEF d
  <2> QED
    BY <1>6, <1>7, PressIs DEF Release
<1>9. ASSUME "CTL" \in shift' PROVE \E j \in held' : j[2] = "ctl"
  <2>1. k[2] = "ctl" => ~u
    BY <1>7, <1>8, <1>9
  <2>2. "CTL" \in shift => \E j \in held : j[2] = "ctl"
    <3>1. wire # <<[key |-> "ctl", up |-> TRUE]>>
      BY <1>2, <2>1, SameByte
    <3> QED
      BY <3>1 DEF KbdSound
  <2>3. CASE k[2] = "ctl"
    <3>1. wire = <<[key |-> "ctl", up |-> FALSE]>>
      BY <1>2, <2>1, <2>3
    <3>2. <<"e0", "ctl">> \in held
      BY <3>1 DEF KbdSound
    <3>3. <<"e0", "ctl">>[2] = "ctl"
      OBVIOUS
    <3> QED
      BY <1>1, <3>2, <3>3
  <2>4. CASE k[2] # "ctl"
    <3>1. "CTL" \in shift
      <4> HIDE DEF d
      <4> QED
        BY <1>7, <1>8, <1>9, <2>4
    <3> QED
      BY <1>1, <2>2, <3>1
  <2> QED
    BY <2>3, <2>4
<1>10. wire' # <<[key |-> "ctl", up |-> FALSE]>>
  BY <1>3
<1> HIDE DEF b, d
<1> QED
  BY <1>1, <1>3, <1>8, <1>9, <1>10 DEF KbdSound

\* The other steps do not touch the keyboard.
LEMMA OtherKbd == KbdSound /\ UNCHANGED kbd => KbdSound'
  BY DEF kbd, KbdSound, Pending

\* SHIFT, CTL and the E0 flag of the driver follow the keys that are held,
\* whatever the order in which keys move and bytes arrive, on a keyboard with
\* one shift key (with two, the release of one clears the flag of both).
\* kernel/kbd.c: kbdgetc().
THEOREM ModifiersFollow ==
  ASSUME <<"", "rshift">> \notin Keys
  PROVE  Spec => []ModifiersMatch
<1>1. KbdSound /\ [Next]_vars => KbdSound'
  <2> SUFFICES ASSUME KbdSound, [Next]_vars PROVE KbdSound'
    OBVIOUS
  <2>1. ASSUME NEW k \in Keys, NEW up \in BOOLEAN, KeyMoves(k, up) PROVE KbdSound'
    BY <2>1, KeyMovesKbd
  <2>2. ASSUME SecondByte PROVE KbdSound'
    BY <2>2, SecondByteKbd
  <2>3. ASSUME NEW c \in Serial, uartintr(c) PROVE KbdSound'
    BY <2>3, OtherKbd DEF uartintr
  <2>4. ASSUME NEW p \in Procs, ReadStep(p) PROVE KbdSound'
    BY <2>4, OtherKbd DEF ReadStep, Acquire, TakeChar, TestKilled, Sleep
  <2>5. ASSUME NEW p \in Procs, NEW n \in ReadSizes, Call(p, n) PROVE KbdSound'
    BY <2>5, OtherKbd DEF Call
  <2>6. ASSUME NEW p \in Victims, Kill(p) PROVE KbdSound'
    BY <2>6, OtherKbd DEF Kill
  <2>7. ASSUME UNCHANGED vars PROVE KbdSound'
    BY <2>7, OtherKbd DEF vars
  <2> QED
    BY <2>1, <2>2, <2>3, <2>4, <2>5, <2>6, <2>7 DEF Next
<1>2. KbdSound => ModifiersMatch
  <2> SUFFICES ASSUME KbdSound, wire = <<>> PROVE ModifiersMatch
    BY DEF ModifiersMatch
  <2>1. wire # <<[key |-> "ctl", up |-> TRUE]>>
    OBVIOUS
  <2> QED
    BY <2>1 DEF KbdSound, ModifiersMatch
<1> QED
  BY InitKbd, <1>1, <1>2, PTL DEF Spec

----------------------------------------------------------------------------
(***************************************************************************)
(* The ring.                                                               *)
(***************************************************************************)

\* What is final and what is still edited, in characters.
NReady == Minus(w, r)
NLine  == Minus(e, w)

\* The indices and the contents are in range, and the three indices are in
\* order round the ring; a full ring has something to read.
RingOK ==
    /\ r \in 0..(CountMod - 1) /\ w \in 0..(CountMod - 1) /\ e \in 0..(CountMod - 1)
    /\ buf \in [0..(INPUT_BUF - 1) -> Kept \cup {"nul"}]
    /\ NReady + NLine <= INPUT_BUF
    /\ NReady + NLine = INPUT_BUF => NReady # 0

\* The line that is edited has no end.
LineOK == \A k \in 1..NLine : buf[(w + k - 1) % INPUT_BUF] # "nl"

\* The lock is held exactly in the loop of consoleread(), and who sleeps or is
\* about to has nothing to read.
ReadersOK ==
    /\ pc \in [Procs -> {"user", "acquire", "loop", "sleep", "asleep"}]
    /\ lock \in Procs \cup {Nobody}
    /\ dst \in [Procs -> Seq(Kept \cup {"nul"})]
    /\ \A p \in Procs : pc[p] \in {"loop", "sleep"} <=> lock = p
    /\ \A p \in Procs : pc[p] \in {"sleep", "asleep"} => r = w

Sound == RingOK /\ LineOK /\ ReadersOK

\* The size of the ring and the width of the indices.
LEMMA Widths ==
  /\ INPUT_BUF \in Nat \ {0} /\ CountMod \in Nat \ {0}
  /\ CountMod > INPUT_BUF /\ CountMod > 1
  /\ 1 \in 0..CountMod /\ 1 \in 0..(CountMod - 1)
<1>1. INPUT_BUF \in Nat \ {0} /\ CountMod \in Nat /\ CountMod > INPUT_BUF
  BY ConsoleAssumption
<1> QED
  BY <1>1

\* The distance from one index to another, and the neighbours of an index.
LEMMA Wraps ==
  ASSUME NEW i \in 0..(CountMod - 1), NEW j \in 0..(CountMod - 1)
  PROVE  /\ Minus(i, j) \in 0..(CountMod - 1)
         /\ Minus(i, j) = IF i >= j THEN i - j ELSE i + CountMod - j
         /\ Next1(i) = IF i + 1 < CountMod THEN i + 1 ELSE 0
         /\ Before(i) = IF i # 0 THEN i - 1 ELSE CountMod - 1
<1>1. CountMod \in Nat \ {0} /\ CountMod > 1 /\ 1 \in 0..CountMod /\ 1 \in 0..(CountMod - 1)
  BY Widths
<1>2. /\ (i + CountMod - j) % CountMod \in 0..(CountMod - 1)
      /\ (i + CountMod - j) % CountMod = IF i >= j THEN i - j ELSE i + CountMod - j
  BY <1>1, DiffWraps
<1>3. (i + 1) % CountMod = IF i + 1 < CountMod THEN i + 1 ELSE i + 1 - CountMod
  BY <1>1, AddWraps
<1>4. (i + CountMod - 1) % CountMod = IF i >= 1 THEN i - 1 ELSE i + CountMod - 1
  BY <1>1, DiffWraps
<1>5. Next1(i) = IF i + 1 < CountMod THEN i + 1 ELSE 0
  <2>1. ~(i + 1 < CountMod) => i + 1 - CountMod = 0
    BY <1>1
  <2> QED
    BY <1>3, <2>1, Zenon DEF Next1
<1>6. Before(i) = IF i # 0 THEN i - 1 ELSE CountMod - 1
  <2>1. i >= 1 <=> i # 0
    BY <1>1
  <2>2. i = 0 => i + CountMod - 1 = CountMod - 1
    BY <1>1
  <2> QED
    BY <1>4, <2>1, <2>2, Zenon DEF Before
<1> QED
  BY <1>2, <1>5, <1>6 DEF Minus

\* The characters in the ring.
LEMMA Lengths ==
  ASSUME RingOK
  PROVE  /\ NReady \in Nat /\ NLine \in Nat
         /\ Minus(e, r) = NReady + NLine
         /\ NReady = 0 <=> r = w
         /\ NLine = 0 <=> e = w
<1>1. /\ NReady \in 0..(CountMod - 1) /\ NReady = IF w >= r THEN w - r ELSE w + CountMod - r
      /\ NLine \in 0..(CountMod - 1) /\ NLine = IF e >= w THEN e - w ELSE e + CountMod - w
      /\ Minus(e, r) = IF e >= r THEN e - r ELSE e + CountMod - r
  BY Wraps DEF RingOK, NReady, NLine
<1>2. /\ NReady + NLine <= INPUT_BUF /\ r \in 0..(CountMod - 1)
      /\ w \in 0..(CountMod - 1) /\ e \in 0..(CountMod - 1)
  BY DEF RingOK
<1> DEFINE a == NReady
           b == NLine
           c == Minus(e, r)
<1> HIDE DEF a, b, c
<1>3. /\ a \in 0..(CountMod - 1) /\ a = IF w >= r THEN w - r ELSE w + CountMod - r
      /\ b \in 0..(CountMod - 1) /\ b = IF e >= w THEN e - w ELSE e + CountMod - w
      /\ c = IF e >= r THEN e - r ELSE e + CountMod - r
      /\ a + b <= INPUT_BUF
  BY <1>1, <1>2 DEF a, b, c
<1>4. a + b < CountMod
  BY <1>3, Widths
<1>5. /\ a \in Nat /\ b \in Nat /\ c = a + b
      /\ a = 0 <=> r = w
      /\ b = 0 <=> e = w
  BY <1>2, <1>3, <1>4, Widths
<1> QED
  BY <1>5 DEF a, b, c

\* The characters of the letters.
LEMMA LettersAre ==
  /\ Letters = {"a", "d", "u", "h", "p"}
  /\ \A l \in Letters : Upper[l] \in Kept /\ l \in Kept /\ Control[l] \in Kept \cup Edits
  /\ {"nl", "eof", "soh"} \subseteq Kept
<1>1. Letters = {"a", "d", "u", "h", "p"}
  BY DEF Letters, Upper
<1>2. \A l \in Letters : Control[l] \in {"soh", "eof", "kill", "erase", "list"}
  BY <1>1 DEF Control
<1> QED
  BY <1>1, <1>2 DEF Kept, Edits

\* kbdgetc() returns a character that is kept or one that edits.
LEMMA GetcChar ==
  ASSUME NEW s, NEW b
  PROVE  kbdgetc(s, b)[2] \in Kept \cup Edits
<1>1. ASSUME NEW t, NEW d PROVE charcode(t, d) \in Kept \cup Edits
  <2>1. {"cr", "nul"} \subseteq Edits /\ "nl" \in Kept
    BY DEF Edits, Kept
  <2>2. d[2] \in Letters => /\ Control[d[2]] \in Kept \cup Edits
                            /\ Upper[d[2]] \in Kept /\ d[2] \in Kept
    BY LettersAre
  <2> QED
    BY <2>1, <2>2, Zenon DEF charcode
<1>2. ASSUME NEW c \in Kept \cup Edits PROVE Swap(c) \in Kept \cup Edits
  <2>1. CASE c \in Letters
    BY <2>1, LettersAre DEF Swap
  <2>2. CASE c \notin Letters /\ \E l \in Letters : Upper[l] = c
    <3>1. Swap(c) = CHOOSE l \in Letters : Upper[l] = c
      BY <2>2 DEF Swap
    <3>2. Swap(c) \in Letters
      BY <2>2, <3>1
    <3> QED
      BY <3>2, LettersAre
  <2>3. CASE c \notin Letters /\ ~\E l \in Letters : Upper[l] = c
    BY <2>3 DEF Swap
  <2> QED
    BY <2>1, <2>2, <2>3
<1> DEFINE d == Code(s, b)
           t == Press(s, d)
<1>3. "nul" \in Kept \cup Edits
  BY DEF Edits
<1>4. CASE b = E0
  BY <1>3, <1>4 DEF kbdgetc
<1>5. CASE b # E0 /\ b.up
  BY <1>3, <1>5 DEF kbdgetc
<1>6. CASE b # E0 /\ ~b.up
  <2>1. kbdgetc(s, b)[2] = IF "CAPSLOCK" \in t THEN Swap(charcode(t, d)) ELSE charcode(t, d)
    BY <1>6 DEF kbdgetc
  <2> HIDE DEF d, t
  <2> QED
    BY <2>1, <1>1, <1>2
<1> QED
  BY <1>4, <1>5, <1>6

\* The k-th character of the line, counted back from its end.
LEMMA LineSlot ==
  ASSUME RingOK, NEW k \in 0..(NLine - 1)
  PROVE  Minus(e, k + 1) % INPUT_BUF = (w + (NLine - k) - 1) % INPUT_BUF
<1>1. /\ NLine \in Nat /\ NLine <= INPUT_BUF
      /\ NLine = IF e >= w THEN e - w ELSE e + CountMod - w
      /\ w \in 0..(CountMod - 1) /\ e \in 0..(CountMod - 1)
  <2>1. NLine \in Nat /\ NReady \in Nat /\ NReady + NLine <= INPUT_BUF
    BY Lengths DEF RingOK
  <2>2. w \in 0..(CountMod - 1) /\ e \in 0..(CountMod - 1)
    BY DEF RingOK
  <2>3. NLine = IF e >= w THEN e - w ELSE e + CountMod - w
    BY <2>2, Wraps DEF NLine
  <2> DEFINE a == NReady
             b == NLine
  <2> HIDE DEF a, b
  <2>4. b <= INPUT_BUF
    BY <2>1, Widths DEF a, b
  <2> QED
    BY <2>1, <2>2, <2>3, <2>4 DEF b
<1> DEFINE b == NLine
           x == w + (b - k) - 1
           y == Minus(e, k + 1)
<1>2. k + 1 \in 0..(CountMod - 1)
  <2> HIDE DEF b
  <2>1. k \in 0..(b - 1) /\ b \in Nat /\ b <= INPUT_BUF
    BY <1>1 DEF b
  <2> QED
    BY <2>1, Widths
<1>3. y = IF e >= k + 1 THEN e - (k + 1) ELSE e + CountMod - (k + 1)
  BY <1>1, <1>2, Wraps
<1>4. x \in Int /\ (y = x \/ y = x - CountMod)
  <2>1. k \in 0..(b - 1)
    OBVIOUS
  <2> HIDE DEF y
  <2>2. /\ b \in Nat /\ b <= INPUT_BUF
        /\ b = IF e >= w THEN e - w ELSE e + CountMod - w
    BY <1>1
  <2> HIDE DEF b
  <2> QED
    BY <1>1, <1>3, <2>1, <2>2, Widths
<1>5. CountMod % INPUT_BUF = 0 /\ INPUT_BUF \in Nat \ {0} /\ CountMod \in Nat
  BY ConsoleAssumption
<1> HIDE DEF x, y
<1>6. (x - CountMod) % INPUT_BUF = x % INPUT_BUF
  BY <1>4, <1>5, ModWidth
<1>7. y % INPUT_BUF = x % INPUT_BUF
  BY <1>4, <1>6
<1> QED
  BY <1>7 DEF x, y, b

\* The kill character takes the whole line back.
LEMMA KillIs ==
  ASSUME RingOK, LineOK
  PROVE  KillTo = w
<1>1. NLine \in Nat /\ Minus(e, NLine) = w
  <2>1. /\ NLine \in 0..(CountMod - 1)
        /\ NLine = IF e >= w THEN e - w ELSE e + CountMod - w
        /\ w \in 0..(CountMod - 1) /\ e \in 0..(CountMod - 1)
    BY Wraps DEF RingOK, NLine
  <2>2. Minus(e, NLine) = IF e >= NLine THEN e - NLine ELSE e + CountMod - NLine
    BY <2>1, Wraps
  <2> DEFINE b == NLine
             y == Minus(e, b)
  <2> HIDE DEF b, y
  <2>3. b \in Nat /\ y = w
    BY <2>1, <2>2, Widths DEF b, y
  <2> QED
    BY <2>3 DEF b, y
<1> DEFINE kept == {n \in 0..NLine :
                      \A k \in 0..(n - 1) : buf[Minus(e, k + 1) % INPUT_BUF] # "nl"}
<1>2. ASSUME NEW k \in 0..(NLine - 1) PROVE buf[Minus(e, k + 1) % INPUT_BUF] # "nl"
  <2>1. NLine - k \in 1..NLine
    BY <1>1
  <2>2. buf[(w + (NLine - k) - 1) % INPUT_BUF] # "nl"
    BY <2>1 DEF LineOK
  <2> QED
    BY <2>2, LineSlot
<1>3. kept = 0..NLine
  <2> HIDE DEF NLine
  <2>1. \A n \in 0..NLine : 0..(n - 1) \subseteq 0..(NLine - 1)
    BY <1>1
  <2> QED
    BY <1>2, <2>1
<1>4. KillTo = Minus(e, CHOOSE n \in kept : \A k \in kept : k <= n)
  BY DEF KillTo, NLine
<1>5. (CHOOSE n \in 0..NLine : \A k \in 0..NLine : k <= n) = NLine
  <2> HIDE DEF NLine
  <2>1. NLine \in 0..NLine /\ \A k \in 0..NLine : k <= NLine
    BY <1>1
  <2>2. \A n \in 0..NLine : (\A k \in 0..NLine : k <= n) => n = NLine
    BY <1>1
  <2> QED
    BY <2>1, <2>2
<1> QED
  BY <1>1, <1>3, <1>4, <1>5

\* The character x is stored, and the line is committed at its end or when the
\* ring is full.
Stored(x) ==
    /\ NReady + NLine < INPUT_BUF
    /\ buf' = [buf EXCEPT ![e % INPUT_BUF] = x]
    /\ e' = Next1(e)
    /\ IF x \in {"nl", "eof"} \/ NReady + NLine + 1 = INPUT_BUF
       THEN w' = e' /\ pc' = Woken
       ELSE UNCHANGED <<w, pc>>

\* Characters of the line are taken back.
Erased ==
    /\ NLine # 0
    /\ e' = w \/ e' = Before(e)
    /\ UNCHANGED <<w, buf, pc>>

\* The ring is full when the next index is a whole ring ahead of r.
LEMMA FullIs ==
  ASSUME RingOK, NReady + NLine < INPUT_BUF
  PROVE  Next1(e) = (r + INPUT_BUF) % CountMod <=> NReady + NLine + 1 = INPUT_BUF
<1>1. /\ r \in 0..(CountMod - 1) /\ e \in 0..(CountMod - 1)
      /\ INPUT_BUF \in 0..CountMod
  BY Widths DEF RingOK
<1>2. (r + INPUT_BUF) % CountMod = IF r + INPUT_BUF < CountMod THEN r + INPUT_BUF
                                   ELSE r + INPUT_BUF - CountMod
  BY <1>1, Widths, AddWraps
<1>3. Next1(e) = IF e + 1 < CountMod THEN e + 1 ELSE 0
  BY <1>1, Wraps
<1>4. /\ Minus(e, r) = NReady + NLine
      /\ Minus(e, r) = IF e >= r THEN e - r ELSE e + CountMod - r
  BY <1>1, Wraps, Lengths
<1> DEFINE c == NReady + NLine
           f == (r + INPUT_BUF) % CountMod
           g == Next1(e)
<1>5. c = IF e >= r THEN e - r ELSE e + CountMod - r
  BY <1>4
<1> HIDE DEF c, f, g
<1>6. c < INPUT_BUF
  BY DEF c
<1>7. f = IF r + INPUT_BUF < CountMod THEN r + INPUT_BUF ELSE r + INPUT_BUF - CountMod
  BY <1>2 DEF f
<1>8. g = IF e + 1 < CountMod THEN e + 1 ELSE 0
  BY <1>3 DEF g
<1>9. g = f <=> c + 1 = INPUT_BUF
  BY <1>1, <1>5, <1>6, <1>7, <1>8, Widths
<1> QED
  BY <1>9 DEF c, f, g

\* What a character does to the ring.
LEMMA ConsoleIs ==
  ASSUME RingOK, LineOK, NEW c \in Kept \cup Edits, consoleintr(c)
  PROVE  /\ lock = Nobody /\ UNCHANGED <<r, lock, killed, left, dst>>
         /\ \/ UNCHANGED <<w, e, buf, pc>>
            \/ Erased
            \/ \E x \in Kept : Stored(x)
<1>1. lock = Nobody /\ UNCHANGED <<r, lock, killed, left, dst>>
  BY DEF consoleintr
<1>2. NLine = 0 <=> e = w
  BY Lengths
<1>3. CASE c = "list"
  BY <1>1, <1>3 DEF consoleintr
<1>4. CASE c = "kill"
  <2>1. e' = w /\ UNCHANGED <<w, buf, pc>>
    BY <1>4, KillIs DEF consoleintr
  <2> QED
    BY <1>1, <1>2, <2>1 DEF Erased
<1>5. CASE c = "erase"
  <2>1. e' = (IF e # w THEN Before(e) ELSE e) /\ UNCHANGED <<w, buf, pc>>
    BY <1>5 DEF consoleintr
  <2> QED
    BY <1>1, <1>2, <2>1 DEF Erased
<1>6. CASE c \notin {"list", "kill", "erase"}
  <2>1. Store(c)
    BY <1>6 DEF consoleintr
  <2>2. CASE c = "nul" \/ ~Fits
    BY <1>1, <2>1, <2>2 DEF Store
  <2>3. CASE c # "nul" /\ Fits
    <3> DEFINE x == IF c = "cr" THEN "nl" ELSE c
    <3>1. x \in Kept
      <4>1. Edits = {"nul", "cr", "kill", "erase", "list"} /\ "nl" \in Kept
        BY LettersAre DEF Edits
      <4> QED
        BY <1>6, <2>3, <4>1
    <3>2. /\ buf' = [buf EXCEPT ![e % INPUT_BUF] = x]
          /\ e' = Next1(e)
          /\ IF Commits(x, e') THEN w' = e' /\ pc' = Woken ELSE UNCHANGED <<w, pc>>
      BY <2>1, <2>3 DEF Store
    <3>3. NReady + NLine < INPUT_BUF
      BY <2>3, Lengths DEF Fits
    <3>4. Commits(x, e') <=> x \in {"nl", "eof"} \/ NReady + NLine + 1 = INPUT_BUF
      BY <3>2, <3>3, FullIs DEF Commits
    <3> HIDE DEF x
    <3>5. Stored(x)
      BY <3>2, <3>3, <3>4 DEF Stored
    <3> QED
      BY <1>1, <3>1, <3>5
  <2> QED
    BY <2>2, <2>3
<1> QED
  BY <1>3, <1>4, <1>5, <1>6

\* The ring after a character is stored.
LEMMA StoredRing ==
  ASSUME RingOK, LineOK, NEW x \in Kept, Stored(x), r' = r
  PROVE  /\ RingOK' /\ LineOK'
         /\ IF x \in {"nl", "eof"} \/ NReady + NLine + 1 = INPUT_BUF
            THEN NReady' = NReady + NLine + 1 /\ NLine' = 0
            ELSE NReady' = NReady /\ NLine' = NLine + 1
<1> DEFINE a == NReady
           b == NLine
           a2 == NReady'
           b2 == NLine'
           commit == x \in {"nl", "eof"} \/ NReady + NLine + 1 = INPUT_BUF
<1>1. /\ r \in 0..(CountMod - 1) /\ w \in 0..(CountMod - 1) /\ e \in 0..(CountMod - 1)
      /\ e' = IF e + 1 < CountMod THEN e + 1 ELSE 0
  BY Wraps DEF RingOK, Stored
<1>2. e' \in 0..(CountMod - 1) /\ w' = (IF commit THEN e' ELSE w)
  <2>1. e' \in 0..(CountMod - 1)
    BY <1>1, Widths
  <2> QED
    BY <2>1 DEF Stored
<1>3. w' \in 0..(CountMod - 1) /\ r' = r
  BY <1>1, <1>2
<1>4. /\ a = IF w >= r THEN w - r ELSE w + CountMod - r
      /\ b = IF e >= w THEN e - w ELSE e + CountMod - w
      /\ a2 = IF w' >= r THEN w' - r ELSE w' + CountMod - r
      /\ b2 = IF e' >= w' THEN e' - w' ELSE e' + CountMod - w'
  <2>1. a = Minus(w, r) /\ b = Minus(e, w) /\ a2 = Minus(w', r) /\ b2 = Minus(e', w')
    BY <1>3 DEF NReady, NLine, Minus
  <2> QED
    BY <1>1, <1>2, <1>3, <2>1, Wraps
<1>5. a \in Nat /\ b \in Nat /\ a + b < INPUT_BUF
  BY Lengths DEF Stored
<1> HIDE DEF a, b, a2, b2, commit
<1>6. IF commit THEN a2 = a + b + 1 /\ b2 = 0 ELSE a2 = a /\ b2 = b + 1
  BY <1>1, <1>2, <1>3, <1>4, <1>5, Widths
<1>7. a2 + b2 <= INPUT_BUF /\ (a2 + b2 = INPUT_BUF => a2 # 0)
  <2>1. ~commit => a + b + 1 # INPUT_BUF
    BY DEF commit, a, b
  <2> QED
    BY <1>5, <1>6, <2>1, Widths
<1>8. buf' \in [0..(INPUT_BUF - 1) -> Kept \cup {"nul"}]
  BY DEF RingOK, Stored
<1>9. RingOK'
  BY <1>2, <1>3, <1>1, <1>7, <1>8 DEF RingOK, a2, b2
<1>10. LineOK'
  <2> SUFFICES ASSUME NEW k \in 1..b2 PROVE buf'[(w' + k - 1) % INPUT_BUF] # "nl"
    BY DEF LineOK, b2
  <2>1. ~commit /\ w' = w /\ k \in 1..(b + 1)
    BY <1>2, <1>6
  <2>2. CASE (w + k - 1) % INPUT_BUF = e % INPUT_BUF
    <3>1. x # "nl"
      BY <2>1 DEF commit
    <3>2. e % INPUT_BUF \in 0..(INPUT_BUF - 1)
      BY <1>1, Widths, ModRange
    <3>3. buf'[e % INPUT_BUF] = x
      BY <3>2 DEF RingOK, Stored
    <3> QED
      BY <2>1, <2>2, <3>1, <3>3
  <2>3. CASE (w + k - 1) % INPUT_BUF # e % INPUT_BUF
    <3>1. buf'[(w + k - 1) % INPUT_BUF] = buf[(w + k - 1) % INPUT_BUF]
      <4>1. (w + k - 1) % INPUT_BUF \in 0..(INPUT_BUF - 1)
        <5>1. w + k - 1 \in Int
          BY <1>1, <1>5, <2>1
        <5> QED
          BY <5>1, Widths, ModRange
      <4> QED
        BY <2>3, <4>1 DEF RingOK, Stored
    <3>2. k # b + 1
      <4> SUFFICES ASSUME k = b + 1 PROVE FALSE
        OBVIOUS
      <4> DEFINE y == w + k - 1
      <4>1. y \in Int /\ (y = e \/ y - CountMod = e)
        BY <1>1, <1>4, <1>5, Widths
      <4>2. CountMod % INPUT_BUF = 0 /\ INPUT_BUF \in Nat \ {0} /\ CountMod \in Nat
        BY ConsoleAssumption
      <4> HIDE DEF y
      <4>3. (y - CountMod) % INPUT_BUF = y % INPUT_BUF
        BY <4>1, <4>2, ModWidth
      <4>4. y % INPUT_BUF = e % INPUT_BUF
        BY <4>1, <4>3
      <4> QED
        BY <2>3, <4>4 DEF y
    <3>3. k \in 1..b
      BY <1>5, <2>1, <3>2
    <3> QED
      BY <2>1, <3>1, <3>3 DEF LineOK, b
  <2> QED
    BY <2>2, <2>3
<1> QED
  BY <1>6, <1>9, <1>10 DEF a, b, a2, b2, commit

\* The ring after characters of the line are taken back.
LEMMA ErasedRing ==
  ASSUME RingOK, LineOK, Erased, r' = r
  PROVE  /\ RingOK' /\ LineOK'
         /\ NReady' = NReady /\ NLine' = IF e' = w THEN 0 ELSE NLine - 1
<1> DEFINE a == NReady
           b == NLine
           a2 == NReady'
           b2 == NLine'
<1>1. /\ r \in 0..(CountMod - 1) /\ w \in 0..(CountMod - 1) /\ e \in 0..(CountMod - 1)
      /\ \/ e' = w
         \/ e' = IF e # 0 THEN e - 1 ELSE CountMod - 1
      /\ w' = w /\ r' = r /\ buf' = buf
  BY Wraps DEF RingOK, Erased
<1>2. e' \in 0..(CountMod - 1)
  BY <1>1, Widths
<1>3. /\ b = IF e >= w THEN e - w ELSE e + CountMod - w
      /\ b2 = IF e' >= w THEN e' - w ELSE e' + CountMod - w
      /\ a2 = a
  <2>1. b = Minus(e, w) /\ b2 = Minus(e', w) /\ a2 = a
    BY <1>1 DEF NReady, NLine, Minus
  <2> QED
    BY <1>1, <1>2, <2>1, Wraps
<1>4. a \in Nat /\ b \in Nat /\ b # 0 /\ a + b <= INPUT_BUF
  BY Lengths DEF Erased, RingOK
<1> HIDE DEF a, b, a2, b2
<1>5. b2 = IF e' = w THEN 0 ELSE b - 1
  BY <1>1, <1>3, <1>4, Widths
<1>6. b2 \in Nat /\ b2 < b /\ a2 + b2 < INPUT_BUF /\ a2 + b2 # INPUT_BUF
  BY <1>3, <1>4, <1>5, Widths
<1>7. RingOK'
  <2>1. buf' \in [0..(INPUT_BUF - 1) -> Kept \cup {"nul"}]
    BY <1>1 DEF RingOK
  <2>2. a2 + b2 <= INPUT_BUF /\ (a2 + b2 = INPUT_BUF => a2 # 0)
    BY <1>3, <1>4, <1>6, Widths
  <2> QED
    BY <1>1, <1>2, <2>1, <2>2 DEF RingOK, a2, b2
<1>8. LineOK'
  <2>1. 1..b2 \subseteq 1..b
    BY <1>4, <1>6
  <2> QED
    BY <1>1, <2>1 DEF LineOK, b, b2
<1> QED
  BY <1>3, <1>5, <1>7, <1>8 DEF a, b, a2, b2

\* The ring after a reader has taken a character.
LEMMA TakenRing ==
  ASSUME RingOK, LineOK, r # w, r' = Next1(r), UNCHANGED <<w, e, buf>>
  PROVE  /\ RingOK' /\ LineOK'
         /\ NReady # 0 /\ NReady' = NReady - 1 /\ NLine' = NLine
<1> DEFINE a == NReady
           b == NLine
           a2 == NReady'
           b2 == NLine'
<1>1. /\ r \in 0..(CountMod - 1) /\ w \in 0..(CountMod - 1) /\ e \in 0..(CountMod - 1)
      /\ r' = IF r + 1 < CountMod THEN r + 1 ELSE 0
      /\ w' = w /\ e' = e /\ buf' = buf
  BY Wraps DEF RingOK
<1>2. r' \in 0..(CountMod - 1)
  BY <1>1, Widths
<1>3. /\ a = IF w >= r THEN w - r ELSE w + CountMod - r
      /\ a2 = IF w >= r' THEN w - r' ELSE w + CountMod - r'
      /\ b2 = b
  <2>1. a = Minus(w, r) /\ a2 = Minus(w, r') /\ b2 = b
    BY <1>1 DEF NReady, NLine, Minus
  <2> QED
    BY <1>1, <1>2, <2>1, Wraps
<1>4. a \in Nat /\ b \in Nat /\ a + b <= INPUT_BUF
  BY Lengths DEF RingOK
<1> HIDE DEF a, b, a2, b2
<1>5. a # 0 /\ a2 = a - 1
  BY <1>1, <1>3, Widths
<1>6. RingOK'
  <2>1. buf' \in [0..(INPUT_BUF - 1) -> Kept \cup {"nul"}]
    BY <1>1 DEF RingOK
  <2>2. a2 + b2 <= INPUT_BUF /\ a2 + b2 # INPUT_BUF
    BY <1>3, <1>4, <1>5, Widths
  <2> QED
    BY <1>1, <1>2, <2>1, <2>2 DEF RingOK, a2, b2
<1>7. LineOK'
  BY <1>1, <1>3 DEF LineOK, b, b2
<1> QED
  BY <1>3, <1>5, <1>6, <1>7 DEF a, b, a2, b2

\* Where nothing changes, nothing changes.
LEMMA SameRing ==
  ASSUME RingOK, LineOK, UNCHANGED ring
  PROVE  RingOK' /\ LineOK' /\ NReady' = NReady /\ NLine' = NLine
  BY DEF ring, RingOK, LineOK, NReady, NLine, Minus

----------------------------------------------------------------------------
(***************************************************************************)
(* Input is never stuck.                                                   *)
(***************************************************************************)

\* Initially the ring is empty and nobody reads.
LEMMA InitSound == Init => Sound
<1> SUFFICES ASSUME Init PROVE Sound
  OBVIOUS
<1>1. r = 0 /\ w = 0 /\ e = 0 /\ 0 \in 0..(CountMod - 1)
  BY Widths DEF Init
<1>2. NReady = 0 /\ NLine = 0
  BY <1>1, Wraps, Widths DEF NReady, NLine
<1>3. RingOK
  <2>1. buf \in [0..(INPUT_BUF - 1) -> Kept \cup {"nul"}]
    BY DEF Init
  <2>2. 0 + 0 <= INPUT_BUF /\ 0 + 0 # INPUT_BUF
    BY Widths
  <2> QED
    BY <1>1, <1>2, <2>1, <2>2 DEF RingOK
<1>4. LineOK
  BY <1>2 DEF LineOK
<1>5. ReadersOK
  <2>1. /\ pc \in [Procs -> {"user", "acquire", "loop", "sleep", "asleep"}]
        /\ \A p \in Procs : pc[p] = "user"
        /\ lock = Nobody /\ Nobody \notin Procs
    BY ConsoleAssumption DEF Init
  <2>2. dst \in [Procs -> Seq(Kept \cup {"nul"})]
    <3>1. <<>> \in Seq(Kept \cup {"nul"})
      OBVIOUS
    <3> QED
      BY <3>1 DEF Init
  <2> QED
    BY <2>1, <2>2 DEF ReadersOK
<1> QED
  BY <1>3, <1>4, <1>5 DEF Sound

\* A character from the keyboard or the serial line.
LEMMA ConsoleSound ==
  ASSUME Sound, NEW c \in Kept \cup Edits, consoleintr(c)
  PROVE  Sound'
<1>1. /\ lock = Nobody /\ UNCHANGED <<r, lock, dst>>
      /\ \/ UNCHANGED <<w, e, buf, pc>>
         \/ Erased
         \/ \E x \in Kept : Stored(x)
  BY ConsoleIs DEF Sound
<1>2. \A p \in Procs : pc[p] \notin {"loop", "sleep"}
  BY <1>1, ConsoleAssumption DEF Sound, ReadersOK
<1>3. ASSUME UNCHANGED <<w, pc>> PROVE ReadersOK'
  BY <1>1, <1>3 DEF Sound, ReadersOK
<1>4. CASE UNCHANGED <<w, e, buf, pc>>
  BY <1>1, <1>3, <1>4, SameRing DEF Sound, ring
<1>5. CASE Erased
  <2>1. UNCHANGED <<w, pc>>
    BY <1>5 DEF Erased
  <2> QED
    BY <1>1, <1>3, <1>5, <2>1, ErasedRing DEF Sound
<1>6. CASE \E x \in Kept : Stored(x)
  <2>1. PICK x \in Kept : Stored(x)
    BY <1>6
  <2>2. RingOK' /\ LineOK'
    BY <1>1, <2>1, StoredRing DEF Sound
  <2>3. (w' = w /\ pc' = pc) \/ pc' = Woken
    BY <2>1 DEF Stored
  <2>4. ASSUME pc' = Woken PROVE ReadersOK'
    <3>1. \A p \in Procs : pc[p] \in {"user", "acquire", "asleep"}
      BY <1>2 DEF Sound, ReadersOK
    <3>2. pc' \in [Procs -> {"user", "acquire"}]
      BY <2>4, <3>1 DEF Woken
    <3>3. \A p \in Procs : pc'[p] \notin {"loop", "sleep", "asleep"}
      BY <3>2
    <3>4. pc' \in [Procs -> {"user", "acquire", "loop", "sleep", "asleep"}]
      BY <3>2
    <3>5. lock' = Nobody /\ Nobody \notin Procs /\ dst' = dst
      BY <1>1, ConsoleAssumption
    <3> QED
      BY <3>3, <3>4, <3>5 DEF Sound, ReadersOK
  <2> QED
    BY <1>3, <2>2, <2>3, <2>4 DEF Sound
<1> QED
  BY <1>1, <1>4, <1>5, <1>6

\* A reader that leaves the ring as it is.
LEMMA ReaderSound ==
  ASSUME Sound, UNCHANGED ring, ReadersOK'
  PROVE  Sound'
  BY SameRing DEF Sound

\* A read() is called.
LEMMA CallSound ==
  ASSUME Sound, NEW p \in Procs, NEW n, Call(p, n)
  PROVE  Sound'
<1>1. /\ UNCHANGED ring /\ r' = r /\ w' = w /\ lock' = lock
      /\ pc[p] = "user" /\ pc' = [pc EXCEPT ![p] = "acquire"]
      /\ dst' = [dst EXCEPT ![p] = <<>>]
  BY DEF Call, ring
<1>2. \A q \in Procs : pc'[q] = IF q = p THEN "acquire" ELSE pc[q]
  BY <1>1 DEF Sound, ReadersOK
<1>3. /\ pc' \in [Procs -> {"user", "acquire", "loop", "sleep", "asleep"}]
      /\ dst' \in [Procs -> Seq(Kept \cup {"nul"})]
  BY <1>1 DEF Sound, ReadersOK
<1>4. ReadersOK'
  BY <1>1, <1>2, <1>3 DEF Sound, ReadersOK
<1> QED
  BY <1>1, <1>4, ReaderSound

\* The lock is taken.
LEMMA AcquireSound ==
  ASSUME Sound, NEW p \in Procs, Acquire(p)
  PROVE  Sound'
<1>1. /\ UNCHANGED ring /\ r' = r /\ w' = w /\ dst' = dst
      /\ lock = Nobody /\ lock' = p /\ Nobody \notin Procs
      /\ pc[p] = "acquire" /\ pc' = [pc EXCEPT ![p] = "loop"]
  BY ConsoleAssumption DEF Acquire, ring
<1>2. \A q \in Procs : pc'[q] = IF q = p THEN "loop" ELSE pc[q]
  BY <1>1 DEF Sound, ReadersOK
<1>3. pc' \in [Procs -> {"user", "acquire", "loop", "sleep", "asleep"}]
  BY <1>1 DEF Sound, ReadersOK
<1>4. ReadersOK'
  BY <1>1, <1>2, <1>3 DEF Sound, ReadersOK
<1> QED
  BY <1>1, <1>4, ReaderSound

\* The lock is given up on the way into sleep().
LEMMA SleepSound ==
  ASSUME Sound, NEW p \in Procs, Sleep(p)
  PROVE  Sound'
<1>1. /\ UNCHANGED ring /\ r' = r /\ w' = w /\ dst' = dst
      /\ lock' = Nobody /\ Nobody \notin Procs
      /\ pc[p] = "sleep" /\ pc' = [pc EXCEPT ![p] = "asleep"]
  BY ConsoleAssumption DEF Sleep, ring
<1>2. \A q \in Procs : pc'[q] = IF q = p THEN "asleep" ELSE pc[q]
  BY <1>1 DEF Sound, ReadersOK
<1>3. pc' \in [Procs -> {"user", "acquire", "loop", "sleep", "asleep"}]
  BY <1>1 DEF Sound, ReadersOK
<1>4. ReadersOK'
  BY <1>1, <1>2, <1>3 DEF Sound, ReadersOK
<1> QED
  BY <1>1, <1>4, ReaderSound

\* A reader finds nothing.
LEMMA TestKilledSound ==
  ASSUME Sound, NEW p \in Procs, TestKilled(p)
  PROVE  Sound'
<1>1. /\ UNCHANGED ring /\ r' = r /\ w' = w /\ dst' = dst /\ r = w
      /\ pc[p] = "loop" /\ Nobody \notin Procs
      /\ \/ lock' = Nobody /\ pc' = [pc EXCEPT ![p] = "user"]
         \/ lock' = lock /\ pc' = [pc EXCEPT ![p] = "sleep"]
  BY ConsoleAssumption DEF TestKilled, Return, ring
<1>2. /\ pc' \in [Procs -> {"user", "acquire", "loop", "sleep", "asleep"}]
      /\ \A q \in Procs \ {p} : pc'[q] = pc[q]
  BY <1>1 DEF Sound, ReadersOK
<1>3. \/ lock' = Nobody /\ pc'[p] = "user"
      \/ lock' = lock /\ pc'[p] = "sleep"
  BY <1>1 DEF Sound, ReadersOK
<1>4. ReadersOK'
  BY <1>1, <1>2, <1>3 DEF Sound, ReadersOK
<1> QED
  BY <1>1, <1>4, ReaderSound

\* A process is killed.
LEMMA KillSound ==
  ASSUME Sound, NEW p \in Procs, Kill(p)
  PROVE  Sound'
<1>1. /\ UNCHANGED ring /\ r' = r /\ w' = w /\ dst' = dst /\ lock' = lock
      /\ pc' = [pc EXCEPT ![p] = IF @ = "asleep" THEN "acquire" ELSE @]
  BY DEF Kill, ring
<1>2. \A q \in Procs : pc'[q] = pc[q] \/ (pc[q] = "asleep" /\ pc'[q] = "acquire")
  BY <1>1 DEF Sound, ReadersOK
<1>3. pc' \in [Procs -> {"user", "acquire", "loop", "sleep", "asleep"}]
  BY <1>1 DEF Sound, ReadersOK
<1>4. ReadersOK'
  BY <1>1, <1>2, <1>3 DEF Sound, ReadersOK
<1> QED
  BY <1>1, <1>4, ReaderSound

\* A reader takes a character, or meets the mark.
LEMMA TakeCharSound ==
  ASSUME Sound, NEW p \in Procs, TakeChar(p)
  PROVE  Sound'
<1>1. /\ r # w /\ UNCHANGED <<w, e, buf>> /\ pc[p] = "loop" /\ Nobody \notin Procs
      /\ r' = r \/ r' = Next1(r)
      /\ \/ lock' = Nobody /\ pc' = [pc EXCEPT ![p] = "user"]
         \/ lock' = lock /\ pc' = pc
      /\ dst' = dst \/ dst' = [dst EXCEPT ![p] = Append(@, At(r))]
  BY ConsoleAssumption DEF TakeChar, Return, Eof
<1>2. RingOK' /\ LineOK'
  <2>1. CASE r' = r
    BY <1>1, <2>1, SameRing DEF Sound, ring
  <2>2. CASE r' = Next1(r)
    BY <1>1, <2>2, TakenRing DEF Sound
  <2> QED
    BY <1>1, <2>1, <2>2
<1>3. dst' \in [Procs -> Seq(Kept \cup {"nul"})]
  <2>1. At(r) \in Kept \cup {"nul"}
    <3>1. r \in Int
      BY DEF Sound, RingOK
    <3>2. r % INPUT_BUF \in 0..(INPUT_BUF - 1)
      BY <3>1, Widths, ModRange
    <3> QED
      BY <3>2 DEF Sound, RingOK, At
  <2> DEFINE D == Kept \cup {"nul"}
             x == At(r)
  <2>2. dst \in [Procs -> Seq(D)] /\ x \in D
    BY <2>1 DEF Sound, ReadersOK
  <2>3. dst' = dst \/ dst' = [dst EXCEPT ![p] = Append(dst[p], x)]
    BY <1>1
  <2> HIDE DEF D, x
  <2>4. dst[p] \in Seq(D)
    BY <2>2
  <2>5. Append(dst[p], x) \in Seq(D)
    BY <2>2, <2>4, AppendProperties
  <2>6. dst' \in [Procs -> Seq(D)]
    BY <2>2, <2>3, <2>5
  <2> QED
    BY <2>6 DEF D
<1>4. /\ pc' \in [Procs -> {"user", "acquire", "loop", "sleep", "asleep"}]
      /\ \A q \in Procs \ {p} : pc'[q] = pc[q]
  BY <1>1 DEF Sound, ReadersOK
<1>5. \/ lock' = Nobody /\ pc'[p] = "user"
      \/ lock' = lock /\ pc'[p] = pc[p]
  BY <1>1 DEF Sound, ReadersOK
<1>6. ReadersOK'
  <2>1. \A q \in Procs : pc'[q] \notin {"sleep", "asleep"}
    <3>1. \A q \in Procs : pc[q] \notin {"sleep", "asleep"}
      BY <1>1 DEF Sound, ReadersOK
    <3> QED
      BY <1>4, <1>5, <3>1
  <2> QED
    BY <1>1, <1>3, <1>4, <1>5, <2>1 DEF Sound, ReadersOK
<1> QED
  BY <1>2, <1>6 DEF Sound

\* The invariant is kept by every step.
LEMMA NextSound == Sound /\ [Next]_vars => Sound'
<1> SUFFICES ASSUME Sound, [Next]_vars PROVE Sound'
  OBVIOUS
<1>1. ASSUME NEW bytes, kbdintr(bytes) PROVE Sound'
  BY <1>1, GetcChar, ConsoleSound DEF kbdintr
<1>2. ASSUME NEW k \in Keys, NEW up \in BOOLEAN, KeyMoves(k, up) PROVE Sound'
  BY <1>1, <1>2 DEF KeyMoves
<1>3. ASSUME SecondByte PROVE Sound'
  BY <1>1, <1>3 DEF SecondByte
<1>4. ASSUME NEW c \in Serial, uartintr(c) PROVE Sound'
  BY <1>4, SerialAssumption, ConsoleSound DEF uartintr
<1>5. ASSUME NEW p \in Procs, ReadStep(p) PROVE Sound'
  BY <1>5, AcquireSound, TakeCharSound, TestKilledSound, SleepSound DEF ReadStep
<1>6. ASSUME NEW p \in Procs, NEW n \in ReadSizes, Call(p, n) PROVE Sound'
  BY <1>6, CallSound
<1>7. ASSUME NEW p \in Victims, Kill(p) PROVE Sound'
  BY <1>7, KillSound, ConsoleAssumption
<1>8. ASSUME UNCHANGED vars PROVE Sound'
  <2>1. UNCHANGED ring /\ UNCHANGED <<r, w, pc, lock, dst>>
    BY <1>8 DEF vars, ring, reader
  <2>2. ReadersOK'
    BY <2>1 DEF Sound, ReadersOK
  <2> QED
    BY <2>1, <2>2, ReaderSound
<1> QED
  BY <1>2, <1>3, <1>4, <1>5, <1>6, <1>7, <1>8 DEF Next

\* Console input keeps its ring, its line and its lock in order: r, w and e
\* are in that order round the ring, no more than INPUT_BUF characters apart,
\* the line that is edited holds no end of line, and the lock is held exactly
\* by a reader in its loop.  kernel/console.c.
THEOREM ConsoleSafe == Spec => []Sound
  BY InitSound, NextSound, PTL DEF Spec

\* No reader sleeps on text it could take, and a full ring can always be
\* read.  kernel/console.c: consoleintr(), consoleread().
THEOREM InputArrives == Spec => []InputReachable
<1>1. Sound => InputReachable
  <2> SUFFICES ASSUME Sound PROVE InputReachable
    OBVIOUS
  <2>1. Minus(e, r) = INPUT_BUF => r # w
    <3>1. Minus(e, r) = NReady + NLine /\ (NReady = 0 <=> r = w)
      BY Lengths DEF Sound
    <3> QED
      BY <3>1 DEF Sound, RingOK
  <2> QED
    BY <2>1 DEF Sound, ReadersOK, InputReachable
<1> QED
  BY ConsoleSafe, <1>1, PTL

----------------------------------------------------------------------------
(***************************************************************************)
(* The two texts of the ring.                                              *)
(***************************************************************************)
Final  == Text(r, w)
Edited == Text(w, e)

Chars == Kept \cup {"nul"}

\* The two texts lie one after the other in the ring, from r on.
TextShape ==
    /\ Final \in Seq(Chars) /\ Len(Final) = NReady
    /\ \A k \in 1..NReady : Final[k] = buf[(r + k - 1) % INPUT_BUF]
    /\ Edited \in Seq(Chars) /\ Len(Edited) = NLine
    /\ \A k \in 1..NLine : Edited[k] = buf[(r + NReady + k - 1) % INPUT_BUF]
    /\ e % INPUT_BUF = (r + NReady + NLine) % INPUT_BUF
    /\ NReady \in Nat /\ NLine \in Nat /\ r \in Nat

\* A number that is a whole width too large has the same place in the ring.
LEMMA PlaceWraps ==
  ASSUME NEW x \in Int, NEW y \in Int, y = x \/ y = x - CountMod
  PROVE  y % INPUT_BUF = x % INPUT_BUF
<1>1. CountMod % INPUT_BUF = 0 /\ INPUT_BUF \in Nat \ {0} /\ CountMod \in Nat
  BY ConsoleAssumption
<1>2. (x - CountMod) % INPUT_BUF = x % INPUT_BUF
  BY <1>1, ModWidth
<1> QED
  BY <1>2

\* The text from one index to another.
LEMMA TextIs ==
  ASSUME NEW i \in 0..(CountMod - 1), NEW j \in 0..(CountMod - 1),
         buf \in [0..(INPUT_BUF - 1) -> Chars], Minus(j, i) <= INPUT_BUF
  PROVE  /\ Text(i, j) \in Seq(Chars) /\ Len(Text(i, j)) = Minus(j, i)
         /\ \A k \in 1..Minus(j, i) : Text(i, j)[k] = buf[(i + k - 1) % INPUT_BUF]
<1> DEFINE n == Minus(j, i)
<1>1. n \in Nat
  BY Wraps
<1>2. n <= INPUT_BUF
  OBVIOUS
<1>3. Text(i, j) = [k \in 1..n |-> buf[((i + k - 1) % CountMod) % INPUT_BUF]]
  BY DEF Text
<1> HIDE DEF n
<1>4. ASSUME NEW k \in 1..n
      PROVE  /\ ((i + k - 1) % CountMod) % INPUT_BUF = (i + k - 1) % INPUT_BUF
             /\ (i + k - 1) % INPUT_BUF \in 0..(INPUT_BUF - 1)
  <2> DEFINE m == k - 1
             x == i + m
             y == x % CountMod
  <2>1. m \in 0..CountMod /\ x = i + k - 1 /\ x \in Int
    BY <1>1, <1>2, Widths
  <2> HIDE DEF m
  <2>2. y \in 0..(CountMod - 1) /\ y = IF i + m < CountMod THEN i + m ELSE i + m - CountMod
    BY <2>1, Widths, AddWraps
  <2> HIDE DEF y
  <2>3. y \in Int /\ (y = x \/ y = x - CountMod)
    BY <2>1, <2>2, Widths
  <2> HIDE DEF x
  <2>4. y % INPUT_BUF = x % INPUT_BUF
    BY <2>1, <2>3, PlaceWraps
  <2>5. x % INPUT_BUF \in 0..(INPUT_BUF - 1)
    BY <2>1, Widths, ModRange
  <2> QED
    BY <2>1, <2>4, <2>5 DEF y
<1>5. Text(i, j) = [k \in 1..n |-> buf[(i + k - 1) % INPUT_BUF]]
  BY <1>3, <1>4
<1>6. Text(i, j) \in [1..n -> Chars]
  BY <1>4, <1>5
<1>7. Text(i, j) \in Seq(Chars) /\ Len(Text(i, j)) = n
  BY <1>1, <1>6
<1>8. \A k \in 1..n : Text(i, j)[k] = buf[(i + k - 1) % INPUT_BUF]
  BY <1>5
<1> QED
  BY <1>7, <1>8 DEF n

\* Every ring in order holds such texts.
LEMMA TextsAre == RingOK => TextShape
<1> SUFFICES ASSUME RingOK PROVE TextShape
  OBVIOUS
<1>1. /\ r \in 0..(CountMod - 1) /\ w \in 0..(CountMod - 1) /\ e \in 0..(CountMod - 1)
      /\ buf \in [0..(INPUT_BUF - 1) -> Chars]
  BY DEF RingOK, Chars
<1> DEFINE a == NReady
           b == NLine
<1>2. a \in Nat /\ b \in Nat /\ a + b <= INPUT_BUF
  BY Lengths DEF RingOK
<1>3. /\ a = IF w >= r THEN w - r ELSE w + CountMod - r
      /\ b = IF e >= w THEN e - w ELSE e + CountMod - w
  BY <1>1, Wraps DEF NReady, NLine
<1>4. Minus(w, r) = a /\ Minus(e, w) = b
  BY DEF NReady, NLine
<1> HIDE DEF a, b
<1>5. a <= INPUT_BUF /\ b <= INPUT_BUF
  BY <1>2, Widths
<1>6. /\ Final \in Seq(Chars) /\ Len(Final) = a
      /\ \A k \in 1..a : Final[k] = buf[(r + k - 1) % INPUT_BUF]
  BY <1>1, <1>4, <1>5, TextIs DEF Final
<1>7. /\ Edited \in Seq(Chars) /\ Len(Edited) = b
      /\ \A k \in 1..b : Edited[k] = buf[(w + k - 1) % INPUT_BUF]
  BY <1>1, <1>4, <1>5, TextIs DEF Edited
<1>8. ASSUME NEW k \in 1..b
      PROVE  (w + k - 1) % INPUT_BUF = (r + a + k - 1) % INPUT_BUF
  <2> DEFINE x == r + a + k - 1
             y == w + k - 1
  <2>1. x \in Int /\ y \in Int /\ (y = x \/ y = x - CountMod)
    BY <1>1, <1>2, <1>3, Widths
  <2> HIDE DEF x, y
  <2>2. y % INPUT_BUF = x % INPUT_BUF
    BY <2>1, PlaceWraps
  <2> QED
    BY <2>2 DEF x, y
<1>9. e % INPUT_BUF = (r + a + b) % INPUT_BUF
  <2> DEFINE x == r + a + b
  <2>1. x \in Int /\ (e = x \/ e = x - CountMod)
    <3>1. a + b < CountMod
      BY <1>2, Widths
    <3> QED
      BY <1>1, <1>2, <1>3, <3>1, Widths
  <2> HIDE DEF x
  <2>2. e % INPUT_BUF = x % INPUT_BUF
    BY <1>1, <2>1, PlaceWraps
  <2> QED
    BY <2>2 DEF x
<1>10. r \in Nat
  BY <1>1
<1> QED
  BY <1>2, <1>6, <1>7, <1>8, <1>9, <1>10 DEF TextShape, a, b

\* So do the texts after a step.
LEMMA TextsNext == RingOK' => TextShape'
  BY TextsAre, PTL

\* A ring in which nothing changes holds the same texts.
LEMMA TextsSame == UNCHANGED ring => Final' = Final /\ Edited' = Edited
  BY DEF ring, Final, Edited, Text, Minus

\* Two different places in the ring.
LEMMA PlacesDiffer ==
  ASSUME NEW x \in Int, NEW i \in Nat, NEW j \in Nat, i < j, j - i < INPUT_BUF
  PROVE  (x + i) % INPUT_BUF # (x + j) % INPUT_BUF
<1> DEFINE u == x + i
           v == x + j
<1>1. u \in Int /\ v \in Int /\ v - u \in 0..(INPUT_BUF - 1) /\ u # v
  BY Widths
<1> HIDE DEF u, v
<1>2. u % INPUT_BUF # v % INPUT_BUF
  BY <1>1, Widths, ModApart
<1> QED
  BY <1>2 DEF u, v

\* Where a stored character and the ones before it are.
LEMMA StoredAt ==
  ASSUME RingOK, NEW x \in Kept, Stored(x)
  PROVE  /\ \A k \in 1..(NReady + NLine) :
               buf'[(r + k - 1) % INPUT_BUF] = buf[(r + k - 1) % INPUT_BUF]
         /\ buf'[(r + NReady + NLine) % INPUT_BUF] = x
<1> DEFINE n == NReady + NLine
           s == (r + n) % INPUT_BUF
<1>1. /\ NReady \in Nat /\ NLine \in Nat /\ r \in Nat
      /\ e % INPUT_BUF = (r + NReady + NLine) % INPUT_BUF
  BY TextsAre DEF TextShape
<1>2. r + NReady + NLine = r + n
  BY <1>1
<1>3. n \in Nat /\ n < INPUT_BUF
  BY <1>1 DEF Stored
<1>4. buf' = [buf EXCEPT ![s] = x] /\ buf \in [0..(INPUT_BUF - 1) -> Kept \cup {"nul"}]
  BY <1>1, <1>2 DEF Stored, RingOK
<1> HIDE DEF n
<1>5. s \in 0..(INPUT_BUF - 1)
  <2>1. r + n \in Int
    BY <1>1, <1>3
  <2> QED
    BY <2>1, Widths, ModRange
<1>6. ASSUME NEW k \in 1..n
      PROVE  buf'[(r + k - 1) % INPUT_BUF] = buf[(r + k - 1) % INPUT_BUF]
  <2>1. r + (k - 1) = r + k - 1
    BY <1>1, <1>3
  <2>2. n - (k - 1) < INPUT_BUF
    BY <1>3, Widths
  <2>3. k - 1 \in Nat /\ k - 1 < n
    BY <1>3
  <2>4. (r + (k - 1)) % INPUT_BUF # (r + n) % INPUT_BUF
    <3> DEFINE i == k - 1
    <3>1. i \in Nat /\ i < n /\ n - i < INPUT_BUF /\ r \in Int
      BY <1>1, <2>2, <2>3
    <3> HIDE DEF i
    <3>2. (r + i) % INPUT_BUF # (r + n) % INPUT_BUF
      BY <1>1, <1>3, <3>1, PlacesDiffer
    <3> QED
      BY <3>2 DEF i
  <2> DEFINE t == (r + k - 1) % INPUT_BUF
  <2>5. t # s
    BY <2>1, <2>4
  <2>6. t \in 0..(INPUT_BUF - 1)
    <3>1. r + k - 1 \in Int
      BY <1>1, <1>3
    <3> QED
      BY <3>1, Widths, ModRange
  <2> HIDE DEF s, t
  <2>7. buf'[t] = buf[t]
    BY <1>4, <2>5, <2>6
  <2> QED
    BY <2>7 DEF t
<1>7. buf'[s] = x
  <2> HIDE DEF s
  <2> QED
    BY <1>4, <1>5
<1> QED
  BY <1>2, <1>6, <1>7 DEF n

\* A stored character is typed: at the end of the line, or, if it is committed,
\* the line is moved to the final text with it.
LEMMA StoredText ==
  ASSUME RingOK, LineOK, NEW x \in Kept, Stored(x), r' = r
  PROVE  IF x \in {"nl", "eof"} \/ NReady + NLine + 1 = INPUT_BUF
         THEN Edited' = <<>> /\ Final' = Final \o Append(Edited, x)
         ELSE Edited' = Append(Edited, x) /\ Final' = Final
<1> DEFINE a == NReady
           b == NLine
           t == Append(Edited, x)
           slot(k) == (r + k - 1) % INPUT_BUF
           commit == x \in {"nl", "eof"} \/ NReady + NLine + 1 = INPUT_BUF
<1>1. /\ Final \in Seq(Chars) /\ Len(Final) = a
      /\ \A k \in 1..a : Final[k] = buf[slot(k)]
      /\ Edited \in Seq(Chars) /\ Len(Edited) = b
      /\ \A k \in 1..b : Edited[k] = buf[(r + a + k - 1) % INPUT_BUF]
      /\ a \in Nat /\ b \in Nat /\ r \in Nat /\ x \in Chars
  BY TextsAre DEF TextShape, Chars
<1>2. RingOK' /\ IF commit THEN NReady' = a + b + 1 /\ NLine' = 0
                 ELSE NReady' = a /\ NLine' = b + 1
  BY StoredRing
<1>3. /\ Final' \in Seq(Chars) /\ Len(Final') = NReady'
      /\ \A k \in 1..NReady' : Final'[k] = buf'[slot(k)]
      /\ Edited' \in Seq(Chars) /\ Len(Edited') = NLine'
      /\ \A k \in 1..NLine' : Edited'[k] = buf'[(r + NReady' + k - 1) % INPUT_BUF]
  BY <1>2, TextsNext DEF TextShape
<1>4. /\ \A k \in 1..(a + b) : buf'[slot(k)] = buf[slot(k)]
      /\ buf'[(r + a + b) % INPUT_BUF] = x
  BY StoredAt
<1> HIDE DEF a, b, t, commit
<1>5. /\ t \in Seq(Chars) /\ Len(t) = b + 1 /\ t[b + 1] = x
      /\ \A k \in 1..b : t[k] = Edited[k]
  BY <1>1, AppendProperties DEF t
<1>6. ASSUME NEW k \in 1..(b + 1)
      PROVE  buf'[(r + a + k - 1) % INPUT_BUF] = t[k]
  <2>1. CASE k = b + 1
    <3>1. r + a + k - 1 = r + a + b
      BY <1>1, <2>1
    <3> QED
      BY <1>4, <1>5, <2>1, <3>1
  <2>2. CASE k # b + 1
    <3>1. k \in 1..b /\ a + k \in 1..(a + b) /\ r + (a + k) - 1 = r + a + k - 1
      BY <1>1, <2>2
    <3>2. buf'[slot(a + k)] = buf[slot(a + k)]
      BY <1>4, <3>1
    <3> QED
      BY <1>1, <1>5, <3>1, <3>2
  <2> QED
    BY <2>1, <2>2
<1>7. CASE commit
  <2>1. NReady' = a + b + 1 /\ NLine' = 0
    BY <1>2, <1>7
  <2>2. Edited' = <<>>
    BY <1>3, <2>1, EmptySeq
  <2>3. /\ Final \o t \in Seq(Chars) /\ Len(Final \o t) = a + (b + 1)
        /\ \A k \in 1..(a + (b + 1)) :
              (Final \o t)[k] = IF k <= a THEN Final[k] ELSE t[k - a]
    <3>1. /\ Final \o t \in Seq(Chars) /\ Len(Final \o t) = Len(Final) + Len(t)
          /\ \A k \in 1..Len(Final) + Len(t) :
                (Final \o t)[k] = IF k <= Len(Final) THEN Final[k] ELSE t[k - Len(Final)]
      BY <1>1, <1>5, ConcatProperties
    <3>2. Len(Final) = a /\ Len(t) = b + 1
      BY <1>1, <1>5
    <3> QED
      BY <3>1, <3>2
  <2>4. ASSUME NEW k \in 1..(a + b + 1) PROVE Final'[k] = (Final \o t)[k]
    <3>1. Final'[k] = buf'[slot(k)] /\ k \in 1..(a + (b + 1))
      BY <1>1, <1>3, <2>1
    <3>2. CASE k <= a
      <4>1. k \in 1..a /\ k \in 1..(a + b)
        BY <1>1, <3>2
      <4> QED
        BY <1>1, <1>4, <2>3, <3>1, <3>2, <4>1
    <3>3. CASE ~(k <= a)
      <4>1. k - a \in 1..(b + 1) /\ r + a + (k - a) - 1 = r + k - 1
        BY <1>1, <3>3
      <4>2. buf'[slot(k)] = t[k - a]
        BY <1>6, <4>1
      <4> QED
        BY <2>3, <3>1, <3>3, <4>2
    <3> QED
      BY <3>2, <3>3
  <2>5. Len(Final') = Len(Final \o t) /\ \A k \in 1..Len(Final') : Final'[k] = (Final \o t)[k]
    BY <1>1, <1>3, <2>1, <2>3, <2>4
  <2>6. Final' = Final \o t
    BY <1>3, <2>3, <2>5, SeqEqual
  <2> QED
    BY <1>7, <2>2, <2>6 DEF t, commit
<1>8. CASE ~commit
  <2>1. NReady' = a /\ NLine' = b + 1
    BY <1>2, <1>8
  <2>2. ASSUME NEW k \in 1..a PROVE Final'[k] = Final[k]
    <3>1. k \in 1..(a + b)
      BY <1>1
    <3> QED
      BY <1>1, <1>3, <1>4, <2>1, <3>1
  <2>3. Final' = Final
    BY <1>1, <1>3, <2>1, <2>2, SeqEqual
  <2>4. ASSUME NEW k \in 1..(b + 1) PROVE Edited'[k] = t[k]
    BY <1>3, <1>6, <2>1
  <2>5. Edited' = t
    BY <1>3, <1>5, <2>1, <2>4, SeqEqual
  <2> QED
    BY <1>8, <2>3, <2>5 DEF t, commit
<1> QED
  BY <1>7, <1>8

\* What is taken back leaves the end of the line.
LEMMA ErasedText ==
  ASSUME RingOK, LineOK, Erased, r' = r
  PROVE  /\ Edited # <<>> /\ Final' = Final
         /\ Edited' \in {<<>>, SubSeq(Edited, 1, Len(Edited) - 1)}
<1> DEFINE a == NReady
           b == NLine
           t == SubSeq(Edited, 1, b - 1)
<1>1. /\ Final \in Seq(Chars) /\ Len(Final) = a
      /\ \A k \in 1..a : Final[k] = buf[(r + k - 1) % INPUT_BUF]
      /\ Edited \in Seq(Chars) /\ Len(Edited) = b
      /\ \A k \in 1..b : Edited[k] = buf[(r + a + k - 1) % INPUT_BUF]
      /\ a \in Nat /\ b \in Nat
  BY TextsAre DEF TextShape
<1>2. RingOK' /\ NReady' = a /\ NLine' = IF e' = w THEN 0 ELSE b - 1
  BY ErasedRing
<1>3. /\ Final' \in Seq(Chars) /\ Len(Final') = a
      /\ \A k \in 1..a : Final'[k] = buf'[(r + k - 1) % INPUT_BUF]
      /\ Edited' \in Seq(Chars) /\ Len(Edited') = NLine'
      /\ \A k \in 1..NLine' : Edited'[k] = buf'[(r + a + k - 1) % INPUT_BUF]
  BY <1>2, TextsNext DEF TextShape
<1>4. buf' = buf /\ b # 0
  BY DEF Erased
<1> HIDE DEF a, b
<1>5. Edited # <<>>
  BY <1>1, <1>4, EmptySeq
<1>6. Final' = Final
  <2>1. \A k \in 1..Len(Final') : Final'[k] = Final[k]
    BY <1>1, <1>3, <1>4
  <2> QED
    BY <1>1, <1>3, <2>1, SeqEqual
<1>7. CASE e' = w
  BY <1>2, <1>3, <1>5, <1>6, <1>7, EmptySeq
<1>8. CASE e' # w
  <2>1. NLine' = b - 1
    BY <1>2, <1>8
  <2>2. /\ b - 1 \in Int /\ 1 \in Int /\ \A k \in 1..(b - 1) : Edited[k] \in Chars
    BY <1>1
  <2>3. /\ t \in Seq(Chars)
        /\ Len(t) = IF 1 <= b - 1 THEN b - 1 - 1 + 1 ELSE 0
        /\ \A k \in 1..(b - 1 - 1 + 1) : t[k] = Edited[1 + k - 1]
    BY <2>2, SubSeqProperties
  <2> HIDE DEF t
  <2>4. Len(t) = b - 1 /\ \A k \in 1..(b - 1) : t[k] = Edited[k]
    BY <1>1, <1>4, <2>3
  <2>5. ASSUME NEW k \in 1..(b - 1) PROVE Edited'[k] = t[k]
    <3>1. k \in 1..b
      BY <1>1
    <3> QED
      BY <1>1, <1>3, <1>4, <2>1, <2>4, <3>1
  <2>6. Edited' = t
    BY <1>3, <2>1, <2>3, <2>4, <2>5, SeqEqual
  <2> QED
    BY <1>1, <1>5, <1>6, <2>6 DEF t
<1> QED
  BY <1>7, <1>8

\* What a reader takes is the head of the final text.
LEMMA HeadIs ==
  ASSUME RingOK, r # w
  PROVE  Final # <<>> /\ Head(Final) = At(r)
<1>1. /\ Final \in Seq(Chars) /\ Len(Final) = NReady /\ NReady \in Nat /\ r \in Nat
      /\ \A k \in 1..NReady : Final[k] = buf[(r + k - 1) % INPUT_BUF]
  BY TextsAre DEF TextShape
<1>2. NReady # 0
  BY Lengths
<1>3. Final # <<>> /\ Head(Final) = Final[1]
  BY <1>1, <1>2, EmptySeq
<1>4. 1 \in 1..NReady /\ r + 1 - 1 = r
  BY <1>1, <1>2
<1> QED
  BY <1>1, <1>3, <1>4 DEF At

\* And it leaves the rest.
LEMMA TakenText ==
  ASSUME RingOK, LineOK, r # w, r' = Next1(r), UNCHANGED <<w, e, buf>>
  PROVE  Final' = Tail(Final) /\ Edited' = Edited
<1> DEFINE a == NReady
           b == NLine
           t == Tail(Final)
<1>1. /\ Final \in Seq(Chars) /\ Len(Final) = a
      /\ \A k \in 1..a : Final[k] = buf[(r + k - 1) % INPUT_BUF]
      /\ a \in Nat /\ b \in Nat
  BY TextsAre DEF TextShape
<1>2. RingOK' /\ NReady' = a - 1
  BY TakenRing
<1>3. /\ Final' \in Seq(Chars) /\ Len(Final') = a - 1
      /\ \A k \in 1..(a - 1) : Final'[k] = buf[(r' + k - 1) % INPUT_BUF]
  BY <1>2, TextsNext DEF TextShape
<1>4. r \in 0..(CountMod - 1) /\ r' = IF r + 1 < CountMod THEN r + 1 ELSE 0
  BY Wraps DEF RingOK
<1>5. Edited' = Edited
  BY DEF Edited, Text, Minus
<1> HIDE DEF a, b
<1>6. t \in Seq(Chars) /\ Len(t) = a - 1 /\ \A k \in 1..(a - 1) : t[k] = Final[k + 1]
  <2>1. Final # <<>>
    BY HeadIs
  <2>2. t \in Seq(Chars) /\ Len(t) = Len(Final) - 1 /\ \A k \in 1..Len(t) : t[k] = Final[k + 1]
    BY <1>1, <2>1, HeadTailProperties
  <2> QED
    BY <1>1, <2>2
<1> HIDE DEF t
<1>7. ASSUME NEW k \in 1..(a - 1) PROVE Final'[k] = t[k]
  <2> DEFINE x == r + (k + 1) - 1
             y == r' + k - 1
  <2>1. x \in Int /\ y \in Int /\ (y = x \/ y = x - CountMod) /\ k + 1 \in 1..a
    BY <1>1, <1>4, Widths
  <2>2. Final[k + 1] = buf[x % INPUT_BUF] /\ Final'[k] = buf[y % INPUT_BUF]
    BY <1>1, <1>3, <2>1
  <2> HIDE DEF x, y
  <2>3. y % INPUT_BUF = x % INPUT_BUF
    BY <2>1, PlaceWraps
  <2> QED
    BY <1>6, <2>2, <2>3
<1>8. Final' = t
  BY <1>3, <1>6, <1>7, SeqEqual
<1> QED
  BY <1>5, <1>8 DEF t

----------------------------------------------------------------------------
(***************************************************************************)
(* Each step is one of the line queue, or none.                            *)
(***************************************************************************)

\* The processes in a read().
Readers == {p \in Procs : pc[p] # "user"}

\* Initially both texts are empty.
LEMMA InitLines == Init => Lines!LineInit
<1> SUFFICES ASSUME Init PROVE Lines!LineInit
  OBVIOUS
<1>1. RingOK
  BY InitSound DEF Sound
<1>2. NReady = 0 /\ NLine = 0
  <2>1. r = w /\ e = w
    BY DEF Init
  <2> QED
    BY <1>1, <2>1, Lengths
<1>3. Final = <<>> /\ Edited = <<>>
  BY <1>1, <1>2, TextsAre, EmptySeq DEF TextShape
<1>4. Readers = {} /\ dst = [p \in Procs |-> <<>>]
  BY DEF Init, Readers
<1> QED
  BY <1>3, <1>4 DEF Lines!LineInit, Final, Edited, Readers

\* A character is typed, takes characters back, or is dropped.
LEMMA ConsoleLines ==
  ASSUME Sound, NEW c \in Kept \cup Edits, consoleintr(c)
  PROVE  [Lines!LineNext]_Lines!lineVars
<1>1. /\ lock = Nobody /\ UNCHANGED <<r, lock, dst>>
      /\ \/ UNCHANGED <<w, e, buf, pc>>
         \/ Erased
         \/ \E x \in Kept : Stored(x)
  BY ConsoleIs DEF Sound
<1>2. ASSUME pc' = pc PROVE Readers' = Readers
  BY <1>2 DEF Readers
<1>3. CASE UNCHANGED <<w, e, buf, pc>>
  <2>1. Final' = Final /\ Edited' = Edited
    BY <1>1, <1>3, TextsSame DEF ring
  <2> QED
    BY <1>1, <1>2, <1>3, <2>1 DEF Lines!lineVars, Final, Edited, Readers
<1>4. CASE Erased
  <2>1. /\ Edited # <<>> /\ Final' = Final
        /\ Edited' \in {<<>>, SubSeq(Edited, 1, Len(Edited) - 1)}
    BY <1>1, <1>4, ErasedText DEF Sound
  <2>2. Readers' = Readers
    BY <1>2, <1>4 DEF Erased
  <2>3. Lines!LineErase
    BY <1>1, <2>1, <2>2 DEF Lines!LineErase, Final, Edited, Readers
  <2> QED
    BY <2>3 DEF Lines!LineNext
<1>5. CASE \E x \in Kept : Stored(x)
  <2>1. PICK x \in Kept : Stored(x)
    BY <1>5
  <2>2. IF x \in {"nl", "eof"} \/ NReady + NLine + 1 = INPUT_BUF
        THEN Edited' = <<>> /\ Final' = Final \o Append(Edited, x)
        ELSE Edited' = Append(Edited, x) /\ Final' = Final
    BY <1>1, <2>1, StoredText DEF Sound
  <2>3. /\ Len(Final) = NReady /\ Len(Edited) = NLine
        /\ NReady \in Nat /\ NLine \in Nat
        /\ Len(Append(Edited, x)) = NLine + 1
    <3>1. TextShape /\ x \in Chars
      BY TextsAre DEF Sound, Chars
    <3> QED
      BY <3>1, AppendProperties DEF TextShape
  <2>4. /\ Len(Final) + Len(Edited) < INPUT_BUF
        /\ Len(Final) + Len(Append(Edited, x)) = INPUT_BUF <=> NReady + NLine + 1 = INPUT_BUF
    BY <2>1, <2>3, Widths DEF Stored
  <2>5. Readers' = Readers
    <3>1. CASE pc' = pc
      BY <1>2, <3>1
    <3>2. CASE pc' = Woken
      BY <3>2 DEF Readers, Woken
    <3> QED
      BY <2>1, <3>1, <3>2 DEF Stored
  <2>6. Lines!LineType(x)
    BY <1>1, <2>2, <2>4, <2>5 DEF Lines!LineType, Final, Edited, Readers
  <2> QED
    BY <2>1, <2>6 DEF Lines!LineNext
<1> QED
  BY <1>1, <1>3, <1>4, <1>5

\* A step that moves no reader in or out of read() and leaves the ring alone.
LEMMA StutterLines ==
  ASSUME UNCHANGED ring, UNCHANGED dst, Readers' = Readers
  PROVE  [Lines!LineNext]_Lines!lineVars
  BY TextsSame DEF Lines!lineVars, Final, Edited, Readers

\* A read() is called.
LEMMA CallLines ==
  ASSUME Sound, NEW p \in Procs, NEW n, Call(p, n)
  PROVE  Lines!LineCall(p)
<1>1. /\ UNCHANGED ring /\ pc[p] = "user" /\ pc' = [pc EXCEPT ![p] = "acquire"]
      /\ dst' = [dst EXCEPT ![p] = <<>>]
  BY DEF Call
<1>2. p \notin Readers /\ Readers' = Readers \cup {p}
  BY <1>1 DEF Sound, ReadersOK, Readers
<1> QED
  BY <1>1, <1>2, TextsSame DEF Lines!LineCall, Final, Edited, Readers

\* The lock is taken, or given up on the way into sleep().
LEMMA LockLines ==
  ASSUME Sound, NEW p \in Procs, Acquire(p) \/ Sleep(p)
  PROVE  [Lines!LineNext]_Lines!lineVars
<1>1. /\ UNCHANGED ring /\ UNCHANGED dst /\ pc[p] # "user"
      /\ \E s \in {"loop", "asleep"} : pc' = [pc EXCEPT ![p] = s]
  BY DEF Acquire, Sleep
<1>2. Readers' = Readers
  BY <1>1 DEF Sound, ReadersOK, Readers
<1> QED
  BY <1>1, <1>2, StutterLines

\* A process is killed.
LEMMA KillLines ==
  ASSUME Sound, NEW p \in Procs, Kill(p)
  PROVE  [Lines!LineNext]_Lines!lineVars
<1>1. /\ UNCHANGED ring /\ UNCHANGED dst
      /\ pc' = [pc EXCEPT ![p] = IF @ = "asleep" THEN "acquire" ELSE @]
  BY DEF Kill
<1>2. Readers' = Readers
  BY <1>1 DEF Sound, ReadersOK, Readers
<1> QED
  BY <1>1, <1>2, StutterLines

\* A reader that finds nothing leaves, or goes to sleep.
LEMMA TestKilledLines ==
  ASSUME Sound, NEW p \in Procs, TestKilled(p)
  PROVE  [Lines!LineNext]_Lines!lineVars
<1>1. /\ UNCHANGED ring /\ UNCHANGED dst /\ r = w /\ pc[p] = "loop"
      /\ \/ pc' = [pc EXCEPT ![p] = "user"]
         \/ pc' = [pc EXCEPT ![p] = "sleep"]
  BY DEF TestKilled, Return
<1>2. CASE pc' = [pc EXCEPT ![p] = "sleep"]
  <2>1. Readers' = Readers
    BY <1>1, <1>2 DEF Sound, ReadersOK, Readers
  <2> QED
    BY <1>1, <2>1, StutterLines
<1>3. CASE pc' = [pc EXCEPT ![p] = "user"]
  <2>1. p \in Readers /\ Readers' = Readers \ {p}
    BY <1>1, <1>3 DEF Sound, ReadersOK, Readers
  <2>2. Final = <<>>
    <3>1. NReady = 0
      BY <1>1, Lengths DEF Sound
    <3> QED
      BY <3>1, TextsAre, EmptySeq DEF Sound, TextShape
  <2>3. Lines!LineLeave(p)
    BY <1>1, <2>1, <2>2, TextsSame DEF Lines!LineLeave, Final, Edited, Readers
  <2> QED
    BY <2>3 DEF Lines!LineNext
<1> QED
  BY <1>1, <1>2, <1>3

\* A reader takes a character, or meets the mark.
LEMMA TakeCharLines ==
  ASSUME Sound, NEW p \in Procs, TakeChar(p)
  PROVE  [Lines!LineNext]_Lines!lineVars
<1>1. pc[p] = "loop" /\ r # w /\ UNCHANGED <<w, e, buf>>
  BY DEF TakeChar
<1>2. Final # <<>> /\ Head(Final) = At(r)
  BY <1>1, HeadIs DEF Sound
<1>3. r' = Next1(r) => Final' = Tail(Final) /\ Edited' = Edited
  BY <1>1, TakenText DEF Sound
<1>4. r' = r => Final' = Final /\ Edited' = Edited
  BY <1>1, TextsSame DEF ring
<1>5. /\ p \in Readers
      /\ pc' = [pc EXCEPT ![p] = "user"] => Readers' = Readers \ {p}
      /\ pc' = pc => Readers' = Readers
  BY <1>1 DEF Sound, ReadersOK, Readers
<1>6. CASE At(r) = "eof"
  <2>1. /\ r' = IF dst[p] = <<>> THEN Next1(r) ELSE r
        /\ pc' = [pc EXCEPT ![p] = "user"] /\ dst' = dst
    BY <1>6 DEF TakeChar, Eof, Return
  <2>2. Lines!LineEnd(p)
    BY <1>2, <1>3, <1>4, <1>5, <1>6, <2>1 DEF Lines!LineEnd, Final, Edited, Readers
  <2> QED
    BY <2>2 DEF Lines!LineNext
<1>7. CASE At(r) # "eof"
  <2>1. /\ r' = Next1(r) /\ dst' = [dst EXCEPT ![p] = Append(@, At(r))]
        /\ \/ pc' = [pc EXCEPT ![p] = "user"]
           \/ At(r) # "nl" /\ pc' = pc
    BY <1>7 DEF TakeChar, Return
  <2>2. Readers' \in {Readers \ {p}} \cup (IF Head(Final) = "nl" THEN {} ELSE {Readers})
    BY <1>2, <1>5, <2>1
  <2>3. dst' = [dst EXCEPT ![p] = Append(@, Head(Final))]
    BY <1>2, <2>1
  <2>4. Lines!LineTake(p)
    BY <1>2, <1>3, <1>5, <1>7, <2>1, <2>2, <2>3
       DEF Lines!LineTake, Final, Edited, Readers
  <2> QED
    BY <2>4 DEF Lines!LineNext
<1> QED
  BY <1>6, <1>7

\* Every step.
LEMMA NextLines == Sound /\ [Next]_vars => [Lines!LineNext]_Lines!lineVars
<1> SUFFICES ASSUME Sound, [Next]_vars PROVE [Lines!LineNext]_Lines!lineVars
  OBVIOUS
<1>1. ASSUME NEW bytes, kbdintr(bytes) PROVE [Lines!LineNext]_Lines!lineVars
  BY <1>1, GetcChar, ConsoleLines DEF kbdintr
<1>2. ASSUME NEW k \in Keys, NEW up \in BOOLEAN, KeyMoves(k, up)
      PROVE  [Lines!LineNext]_Lines!lineVars
  BY <1>1, <1>2 DEF KeyMoves
<1>3. ASSUME SecondByte PROVE [Lines!LineNext]_Lines!lineVars
  BY <1>1, <1>3 DEF SecondByte
<1>4. ASSUME NEW c \in Serial, uartintr(c) PROVE [Lines!LineNext]_Lines!lineVars
  BY <1>4, SerialAssumption, ConsoleLines DEF uartintr
<1>5. ASSUME NEW p \in Procs, ReadStep(p) PROVE [Lines!LineNext]_Lines!lineVars
  BY <1>5, LockLines, TakeCharLines, TestKilledLines DEF ReadStep
<1>6. ASSUME NEW p \in Procs, NEW n \in ReadSizes, Call(p, n)
      PROVE  [Lines!LineNext]_Lines!lineVars
  <2>1. Lines!LineCall(p)
    BY <1>6, CallLines
  <2> QED
    BY <2>1 DEF Lines!LineNext
<1>7. ASSUME NEW p \in Victims, Kill(p) PROVE [Lines!LineNext]_Lines!lineVars
  BY <1>7, KillLines, ConsoleAssumption
<1>8. ASSUME UNCHANGED vars PROVE [Lines!LineNext]_Lines!lineVars
  <2>1. UNCHANGED ring /\ UNCHANGED dst /\ Readers' = Readers
    BY <1>8 DEF vars, ring, reader, Readers
  <2> QED
    BY <2>1, StutterLines
<1> QED
  BY <1>2, <1>3, <1>4, <1>5, <1>6, <1>7, <1>8 DEF Next

\* The ring, the lock and the readers implement the two text queues of
\* LineInput, wherever the three indices wrap.  kernel/console.c:
\* consoleintr(), consoleread().
THEOREM RingIsLineInput == Spec => ImplementsLines
  BY InitLines, NextLines, ConsoleSafe, PTL DEF Spec, ImplementsLines, Lines!LineSpec

=============================================================================
