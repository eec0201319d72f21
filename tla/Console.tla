------------------------------ MODULE Console ------------------------------
(***************************************************************************)
(* Console input: the keyboard and the serial line (kernel/kbd.c, uart.c), *)
(* the interrupt handler that edits lines in a ring buffer and the         *)
(* processes that read them (kernel/console.c).                            *)
(*                                                                         *)
(* consoleintr() holds input.lock with interrupts off, so one character of *)
(* its loop is one action that needs the lock free.  consoleread() is cut  *)
(* at every character, and between its test of proc->killed and its        *)
(* sleep(): kill() does not take input.lock.                               *)
(***************************************************************************)
EXTENDS Naturals, Sequences, FiniteSets

CONSTANTS
    Procs,
    Nobody,     \* not a process
    Victims,    \* the processes that are killed in this instance
    ReadSizes,  \* the lengths user code passes to read()
    Serial,     \* the characters that may arrive on the serial line
    Keys,       \* the keys of the keyboard that are used
    INPUT_BUF,
    CountMod    \* the width of r, w and e (2^32 in the code)

ASSUME ConsoleAssumption ==
    /\ Nobody \notin Procs /\ Victims \subseteq Procs
    /\ ReadSizes \subseteq Nat \ {0}
    /\ INPUT_BUF \in Nat \ {0}
    /\ CountMod \in Nat /\ CountMod > INPUT_BUF /\ CountMod % INPUT_BUF = 0
    /\ \A k \in Keys : k = <<k[1], k[2]>> /\ k[1] \in {"", "e0"} /\ k[2] # "E0"

VARIABLES
    r, w, e, buf,   \* struct input
    lock,           \* the process that holds input.lock, or Nobody
    pc, killed,
    left, dst,      \* what is still wanted of a read(), and what it was given
    shift,          \* kbdgetc()'s static variable
    wire, held      \* bytes the keyboard has not handed over; modifiers held down

ring   == <<r, w, e, buf>>
reader == <<lock, pc, left, dst>>
kbd    == <<shift, wire, held>>
vars   == <<ring, reader, killed, kbd>>

----------------------------------------------------------------------------
(***************************************************************************)
(* The keyboard.  A code is <<"", key>>, or <<"e0", key>> for the ones that *)
(* follow an E0 byte and that the tables hold with 0x80 or-ed in.          *)
(***************************************************************************)
E0 == [key |-> "E0", up |-> FALSE]

\* shiftcode[] and togglecode[].
shiftcode(d) ==
    CASE d \in {<<"", "lshift">>, <<"", "rshift">>} -> {"SHIFT"}
      [] d \in {<<"", "ctl">>, <<"e0", "ctl">>}     -> {"CTL"}
      [] OTHER                                      -> {}
togglecode(d) == IF d = <<"", "caps">> THEN {"CAPSLOCK"} ELSE {}

\* The letters in use, what ctlmap[] makes of them, and their two cases.
Control == [a |-> "soh", d |-> "eof", u |-> "kill", h |-> "erase", p |-> "list"]
Upper   == [a |-> "A", d |-> "D", u |-> "U", h |-> "H", p |-> "P"]
Letters == DOMAIN Upper

\* The characters that are kept, and those that edit, stand for another or are
\* dropped.
Kept  == Letters \cup {Upper[l] : l \in Letters} \cup {"nl", "eof", "soh"}
Edits == {"nul", "cr", "kill", "erase", "list"}

ASSUME SerialAssumption == Serial \subseteq Kept \cup Edits

Swap(c) ==
    CASE c \in Letters -> Upper[c]
      [] \E l \in Letters : Upper[l] = c -> CHOOSE l \in Letters : Upper[l] = c
      [] OTHER -> c

\* charcode[shift & (CTL | SHIFT)][data].
charcode(s, d) ==
    CASE d[2] = "enter" -> IF "CTL" \in s THEN "cr" ELSE "nl"
      [] d[1] = "" /\ d[2] \in Letters ->
            IF "CTL" \in s THEN Control[d[2]]
            ELSE IF "SHIFT" \in s THEN Upper[d[2]] ELSE d[2]
      [] OTHER -> "nul"

\* The code of a byte, given the E0 that may have come before it.
Code(s, b) == <<IF "E0ESC" \in s THEN "e0" ELSE "", b.key>>

\* kbdgetc(): the new shift state and the character.  Mutant: the release
\* of a key leaves the E0 pending.
ReleaseKeepsE0(s, d) == s \ shiftcode(d)
Release(s, d) == s \ (shiftcode(d) \cup {"E0ESC"})

Press(s, d) ==
    LET down == (s \ {"E0ESC"}) \cup shiftcode(d)
    IN  (down \ togglecode(d)) \cup (togglecode(d) \ down)

kbdgetc(s, b) ==
    LET d == Code(s, b)
        c == charcode(Press(s, d), d)
    IN  CASE b = E0 -> <<s \cup {"E0ESC"}, "nul">>
          [] b.up   -> <<Release(s, d), "nul">>
          [] OTHER  -> <<Press(s, d), IF "CAPSLOCK" \in Press(s, d) THEN Swap(c) ELSE c>>

\* The bytes a key sends when it goes down or up.
Sends(k, up) ==
    LET byte == [key |-> k[2], up |-> up]
    IN  IF k[1] = "e0" THEN <<E0, byte>> ELSE <<byte>>

----------------------------------------------------------------------------
(***************************************************************************)
(* consoleintr().                                                          *)
(***************************************************************************)
Minus(i, j) == (i + CountMod - j) % CountMod
Next1(i)    == (i + 1) % CountMod
Before(i)   == (i + CountMod - 1) % CountMod
At(i)       == buf[i % INPUT_BUF]

\* wakeup(&input.r).
Woken == [p \in Procs |-> IF pc[p] = "asleep" THEN "acquire" ELSE pc[p]]

\* The index the kill-line loop stops at: it takes characters back while
\* they are not committed and not the end of a line.
KillTo ==
    LET kept == {n \in 0..Minus(e, w) :
                   \A k \in 0..(n - 1) :
                      buf[Minus(e, k + 1) % INPUT_BUF] # "nl"}
    IN  Minus(e, CHOOSE n \in kept : \A k \in kept : k <= n)

\* Whether the line is handed to the readers.  Mutant: only at its end.
CommitsAtEnd(c, e1) == c \in {"nl", "eof"}
Commits(c, e1) == c \in {"nl", "eof"} \/ e1 = (r + INPUT_BUF) % CountMod

\* The default case: c is stored and echoed.
Fits == Minus(e, r) < INPUT_BUF

Store(c) ==
    IF c # "nul" /\ Fits
    THEN LET c1 == IF c = "cr" THEN "nl" ELSE c
         IN  /\ buf' = [buf EXCEPT ![e % INPUT_BUF] = c1]
             /\ e' = Next1(e)
             /\ IF Commits(c1, e')
                THEN w' = e' /\ pc' = Woken
                ELSE UNCHANGED <<w, pc>>
    ELSE UNCHANGED <<w, e, buf, pc>>

\* One round of the loop, for the character getc() returned.
consoleintr(c) ==
    /\ lock = Nobody
    /\ CASE c = "list"  -> UNCHANGED <<w, e, buf, pc>>
         [] c = "kill"  -> e' = KillTo /\ UNCHANGED <<w, buf, pc>>
         [] c = "erase" -> /\ e' = IF e # w THEN Before(e) ELSE e
                           /\ UNCHANGED <<w, buf, pc>>
         [] OTHER       -> Store(c)
    /\ UNCHANGED <<r, lock, killed, left, dst>>

\* A keyboard interrupt, for the first byte of a key that moves or for the
\* byte that follows an E0.
kbdintr(bytes) ==
    /\ LET got == kbdgetc(shift, Head(bytes))
       IN  shift' = got[1] /\ consoleintr(got[2])
    /\ wire' = Tail(bytes)

KeyMoves(k, up) ==
    /\ wire = <<>>
    /\ IF shiftcode(k) = {} THEN UNCHANGED held
       ELSE /\ up => k \in held
            /\ held' = IF up THEN held \ {k} ELSE held \cup {k}
    /\ kbdintr(Sends(k, up))

SecondByte == wire # <<>> /\ kbdintr(wire) /\ UNCHANGED held

\* uartgetc() hands over the byte as it came.
uartintr(c) == consoleintr(c) /\ UNCHANGED kbd

----------------------------------------------------------------------------
(***************************************************************************)
(* consoleread().                                                          *)
(***************************************************************************)
Call(p, n) ==
    /\ pc[p] = "user" /\ ~killed[p]
    /\ pc' = [pc EXCEPT ![p] = "acquire"]
    /\ left' = [left EXCEPT ![p] = n]
    /\ dst' = [dst EXCEPT ![p] = <<>>]
    /\ UNCHANGED <<ring, lock, killed, kbd>>

\* acquire(&input.lock), at the call or at the end of sleep().
Acquire(p) ==
    /\ pc[p] = "acquire" /\ lock = Nobody
    /\ lock' = p
    /\ pc' = [pc EXCEPT ![p] = "loop"]
    /\ UNCHANGED <<ring, left, dst, killed, kbd>>

\* release(&input.lock) and return.
Return(p) ==
    /\ lock' = Nobody
    /\ pc' = [pc EXCEPT ![p] = "user"]
    /\ left' = [left EXCEPT ![p] = 0]

\* What ^D leaves in the buffer.  Mutant: it is always consumed.
EofConsumed(p) == r' = Next1(r)
Eof(p) == r' = IF dst[p] = <<>> THEN Next1(r) ELSE r

TakeChar(p) ==
    /\ pc[p] = "loop" /\ r # w
    /\ IF At(r) = "eof"
       THEN Eof(p) /\ Return(p) /\ UNCHANGED dst
       ELSE /\ r' = Next1(r)
            /\ dst' = [dst EXCEPT ![p] = Append(@, At(r))]
            /\ IF At(r) = "nl" \/ left[p] = 1
               THEN Return(p)
               ELSE left' = [left EXCEPT ![p] = @ - 1] /\ UNCHANGED <<lock, pc>>
    /\ UNCHANGED <<w, e, buf, killed, kbd>>

\* Nothing to read: a killed process returns -1, another decides to sleep.
TestKilled(p) ==
    /\ pc[p] = "loop" /\ r = w
    /\ IF killed[p] THEN Return(p)
       ELSE pc' = [pc EXCEPT ![p] = "sleep"] /\ UNCHANGED <<lock, left>>
    /\ UNCHANGED <<ring, dst, killed, kbd>>

\* sleep(&input.r, &input.lock).
Sleep(p) ==
    /\ pc[p] = "sleep"
    /\ pc' = [pc EXCEPT ![p] = "asleep"] /\ lock' = Nobody
    /\ UNCHANGED <<ring, left, dst, killed, kbd>>

\* kill(): the flag, and a sleeper is made runnable.
Kill(p) ==
    /\ ~killed[p]
    /\ killed' = [killed EXCEPT ![p] = TRUE]
    /\ pc' = [pc EXCEPT ![p] = IF @ = "asleep" THEN "acquire" ELSE @]
    /\ UNCHANGED <<ring, lock, left, dst, kbd>>

----------------------------------------------------------------------------
Init ==
    /\ r = 0 /\ w = 0 /\ e = 0
    /\ buf = [i \in 0..(INPUT_BUF - 1) |-> "nul"]
    /\ lock = Nobody
    /\ pc = [p \in Procs |-> "user"]
    /\ killed = [p \in Procs |-> FALSE]
    /\ left = [p \in Procs |-> 0]
    /\ dst = [p \in Procs |-> <<>>]
    /\ shift = {} /\ wire = <<>> /\ held = {}

ReadStep(p) == Acquire(p) \/ TakeChar(p) \/ TestKilled(p) \/ Sleep(p)

Next ==
    \/ \E k \in Keys, up \in BOOLEAN : KeyMoves(k, up)
    \/ SecondByte
    \/ \E c \in Serial : uartintr(c)
    \/ \E p \in Procs : ReadStep(p) \/ \E n \in ReadSizes : Call(p, n)
    \/ \E p \in Victims : Kill(p)

Spec == Init /\ [][Next]_vars

----------------------------------------------------------------------------
\* The text of the ring from index i to index j.
Text(i, j) == [k \in 1..Minus(j, i) |-> buf[((i + k - 1) % CountMod) % INPUT_BUF]]

\* Input is never stuck behind a reader or behind a full buffer: a reader
\* that is asleep, or about to be, has nothing to read, and when the buffer
\* has no room (from then on every key but the editing ones is dropped) it is
\* because text is waiting that a read() can take.  kernel/console.c: the
\* commit in consoleintr() and the sleep in consoleread().
InputReachable ==
    /\ \A p \in Procs : pc[p] \in {"sleep", "asleep"} => r = w
    /\ Minus(e, r) = INPUT_BUF => r # w

\* The driver's idea of the modifier keys follows the keyboard: whenever no
\* byte is outstanding, SHIFT is set exactly while the shift key is down,
\* CTL is never set with no control key down, and no E0 is left pending.
\* kernel/kbd.c: kbdgetc() sees one byte of a two-byte code at a time.
ModifiersMatch ==
    wire = <<>> =>
        /\ "SHIFT" \in shift <=> <<"", "lshift">> \in held
        /\ "CTL" \in shift => \E k \in held : k[2] = "ctl"
        /\ "E0ESC" \notin shift

\* The ring buffer with its three wrapping indices, the lock and the
\* sleeping readers implement the two text queues of LineInput: nothing that
\* was committed is edited, lost, repeated or reordered, a read() returns at
\* most one line, and an end-of-file mark is seen by exactly one caller, as
\* a result of nothing.
Lines == INSTANCE LineInput WITH
    Chars <- Kept,
    NL <- "nl", EOF <- "eof", Capacity <- INPUT_BUF,
    line <- Text(w, e), ready <- Text(r, w),
    reading <- {p \in Procs : pc[p] # "user"}
ImplementsLines == Lines!LineSpec
============================================================================
