----------------------------- MODULE LineInput -----------------------------
(***************************************************************************)
(* What the console promises to its readers: a line that is still being    *)
(* edited, and a queue of text that is final, from which a read() takes at *)
(* most one line.                                                          *)
(***************************************************************************)
EXTENDS Naturals, Sequences

CONSTANTS Procs, Chars, NL, EOF, Capacity

VARIABLES
    line,       \* the text being edited
    ready,      \* the text that is final, oldest first
    dst,        \* what each read() has been given
    reading     \* the processes in a read()

lineVars == <<line, ready, dst, reading>>

LineInit ==
    /\ line = <<>> /\ ready = <<>>
    /\ dst = [p \in Procs |-> <<>>]
    /\ reading = {}

\* A character is typed; the line becomes final at its end, at an
\* end-of-file mark, and when no more can be kept.
LineType(c) ==
    LET typed == Append(line, c)
        full  == Len(ready) + Len(typed) = Capacity
    IN  /\ Len(ready) + Len(line) < Capacity
        /\ IF c \in {NL, EOF} \/ full
           THEN line' = <<>> /\ ready' = ready \o typed
           ELSE line' = typed /\ UNCHANGED ready
        /\ UNCHANGED <<dst, reading>>

\* The last character of the line, or all of it, is taken back.
LineErase ==
    /\ line # <<>>
    /\ line' \in {<<>>, SubSeq(line, 1, Len(line) - 1)}
    /\ UNCHANGED <<ready, dst, reading>>

LineCall(p) ==
    /\ p \notin reading
    /\ reading' = reading \cup {p}
    /\ dst' = [dst EXCEPT ![p] = <<>>]
    /\ UNCHANGED <<line, ready>>

\* A reader takes the next character; it is done after the end of a line.
LineTake(p) ==
    /\ p \in reading /\ ready # <<>> /\ Head(ready) # EOF
    /\ ready' = Tail(ready)
    /\ dst' = [dst EXCEPT ![p] = Append(@, Head(ready))]
    /\ reading' \in {reading \ {p}} \cup (IF Head(ready) = NL THEN {} ELSE {reading})
    /\ UNCHANGED line

\* A reader meets the mark and is done.  The mark stays for the next read()
\* unless this one returns nothing, which is how its caller sees it.
LineEnd(p) ==
    /\ p \in reading /\ ready # <<>> /\ Head(ready) = EOF
    /\ ready' = IF dst[p] = <<>> THEN Tail(ready) ELSE ready
    /\ reading' = reading \ {p}
    /\ UNCHANGED <<line, dst>>

\* A reader gives up, which it may only do when there is nothing to take.
LineLeave(p) ==
    /\ p \in reading /\ ready = <<>>
    /\ reading' = reading \ {p}
    /\ UNCHANGED <<line, ready, dst>>

LineNext ==
    \/ \E c \in Chars : LineType(c)
    \/ LineErase
    \/ \E p \in Procs : LineCall(p) \/ LineTake(p) \/ LineEnd(p) \/ LineLeave(p)

LineSpec == LineInit /\ [][LineNext]_lineVars
============================================================================
