------------------------------ MODULE Lottery ------------------------------
(***************************************************************************)
(* The lottery scheduler of tree A (A_xv6_patched/kernel/proc.c): tickets, *)
(* the random number generator, the draw in scheduler(), and the two      *)
(* counters of CPU time.  Module Pinfo models what getpinfo() reports.     *)
(*                                                                         *)
(* One action is one critical section of ptable.lock (module Proc models   *)
(* the lock and is checked to keep the sections apart).  proc[c] is the     *)
(* process on CPU c; np[p] the slot that fork() called by p is setting up.  *)
(***************************************************************************)
EXTENDS Integers, FiniteSets

CONSTANTS
    NPROC,      \* slots of ptable.proc
    CPUS,
    IntMax,     \* largest value of a C int (2^31 - 1 in the code)
    TicketArgs, \* arguments user code passes to settickets()
    MaxCount    \* bound: numTicks stops counting here, and ticks at twice it

ASSUME LotteryAssumption ==
    /\ NPROC \in Nat \ {0}
    /\ IntMax \in Nat \ {0}
    /\ TicketArgs \subseteq (-IntMax - 1)..IntMax
    /\ MaxCount \in Nat

Slot == 1..NPROC
Nil  == 0

VARIABLES state, tickets, ticks, numTicks, rand_next, proc, np

tallies == <<tickets, ticks, numTicks>>
vars == <<state, tickets, ticks, numTicks, rand_next, proc, np>>

----------------------------------------------------------------------------
(***************************************************************************)
(* random().  The 32-bit rand_next is kept as four bytes, least            *)
(* significant first.  C evaluates                                         *)
(*     rand_next *= 1103515245 + 12345                                     *)
(* as a multiplication by the sum, 1103527590 = 41 C6 7E A6 (hex).         *)
(***************************************************************************)
Multiplier == <<166, 126, 198, 65>>

\* A byte of the product.
Byte(x) == x % 256

Times(a, m) ==
    LET col0 == a[1] * m[1]
        col1 == a[1] * m[2] + a[2] * m[1] + col0 \div 256
        col2 == a[1] * m[3] + a[2] * m[2] + a[3] * m[1] + col1 \div 256
        col3 == a[1] * m[4] + a[2] * m[3] + a[3] * m[2] + a[4] * m[1]
                  + col2 \div 256
    IN  <<Byte(col0), Byte(col1), Byte(col2), Byte(col3)>>

\* (rand_next / 65536) % 32768: the upper two bytes without the top bit.
Random(r) == (r[3] + 256 * r[4]) % 32768

(***************************************************************************)
(* The draw.                                                               *)
(***************************************************************************)

\* A C int after an addition that may overflow (built without optimisation,
\* the addition wraps).
Wrap(x) == IF x > IntMax THEN x - 2 * (IntMax + 1) ELSE x

Runnable == {s \in Slot : state[s] = "RUNNABLE"}

\* total_tickets after the first loop of scheduler().
TotalTickets ==
    LET sum[i \in 0..NPROC] ==
            IF i = 0 THEN 0
            ELSE IF i \in Runnable THEN Wrap(sum[i - 1] + tickets[i])
            ELSE sum[i - 1]
    IN  sum[NPROC]

\* The second loop, started with winner = w: the value of winner after slot i,
\* and the runnable slots at which it is below zero, the first of which wins.
Deducted(w) ==
    LET left[i \in 0..NPROC] ==
            IF i = 0 THEN w
            ELSE IF i \in Runnable THEN left[i - 1] - tickets[i]
            ELSE left[i - 1]
    IN  left

\* Mutant: winner = 0 stops the loop too.
StopsLate(w) == {s \in Runnable : Deducted(w)[s] <= 0}
Stops(w) == {s \in Runnable : Deducted(w)[s] < 0}

Wins(w, p) == p \in Stops(w) /\ \A s \in Stops(w) : p <= s

\* A counter incremented, up to the bound of the instance.
Count(n, max) == IF n < max THEN n + 1 ELSE n

\* One iteration of scheduler() on CPU c that finds a winner.
Schedule(c) ==
    /\ proc[c] = Nil
    /\ TotalTickets > 0
    /\ rand_next' = Times(rand_next, Multiplier)
    /\ \E p \in Slot :
        /\ Wins(Random(rand_next') % TotalTickets, p)
        /\ proc' = [proc EXCEPT ![c] = p]
        /\ state' = [state EXCEPT ![p] = "RUNNING"]
        /\ ticks' = [ticks EXCEPT ![p] = Count(@, 2 * MaxCount)]
        /\ numTicks' = [numTicks EXCEPT ![p] = Count(@, MaxCount)]
    /\ UNCHANGED <<tickets, np>>
----------------------------------------------------------------------------
(***************************************************************************)
(* What the running process does.                                          *)
(***************************************************************************)

\* The process on c runs and is not inside fork().
Running(c) == proc[c] # Nil /\ np[proc[c]] = Nil

\* It leaves the CPU through sched() in state st.
Leave(c, st) ==
    /\ state' = [state EXCEPT ![proc[c]] = st]
    /\ proc' = [proc EXCEPT ![c] = Nil]

\* trap(), IRQ_TIMER: proc->ticks++, then yield(), also in the middle of
\* fork().
TimerTick(c) ==
    /\ proc[c] # Nil
    /\ ticks' = [ticks EXCEPT ![proc[c]] = Count(@, 2 * MaxCount)]
    /\ Leave(c, "RUNNABLE")
    /\ UNCHANGED <<tickets, numTicks, rand_next, np>>

\* sys_settickets(): n < 1 is refused.
Accepts(n) == n >= 1

SetTickets(c) ==
    /\ Running(c)
    /\ \E n \in TicketArgs :
        Accepts(n) /\ tickets' = [tickets EXCEPT ![proc[c]] = n]
    /\ UNCHANGED <<state, ticks, numTicks, rand_next, proc, np>>

\* fork() calls allocproc(): an EMBRYO with one ticket and no CPU time, which
\* then gets the parent's tickets.
ResetTicks(q) == [ticks EXCEPT ![q] = 0]

ForkAlloc(c) ==
    /\ Running(c)
    /\ \E q \in Slot :
        /\ state[q] = "UNUSED" /\ \A s \in 1..(q - 1) : state[s] # "UNUSED"
        /\ state' = [state EXCEPT ![q] = "EMBRYO"]
        /\ tickets' = [tickets EXCEPT ![q] = tickets[proc[c]]]
        /\ ticks' = ResetTicks(q)
        /\ numTicks' = [numTicks EXCEPT ![q] = 0]
        /\ np' = [np EXCEPT ![proc[c]] = q]
    /\ UNCHANGED <<rand_next, proc>>

\* fork() ends: the child is RUNNABLE, or its memory could not be copied.
ForkEnd(c) ==
    /\ proc[c] # Nil /\ np[proc[c]] # Nil
    /\ \E st \in {"RUNNABLE", "UNUSED"} : state' = [state EXCEPT ![np[proc[c]]] = st]
    /\ np' = [np EXCEPT ![proc[c]] = Nil]
    /\ UNCHANGED <<tallies, rand_next, proc>>

\* sleep() on any channel, and exit() of a process other than init.
Sleep(c) ==
    /\ Running(c)
    /\ Leave(c, "SLEEPING")
    /\ UNCHANGED <<tallies, rand_next, np>>

Exit(c) ==
    /\ Running(c) /\ proc[c] # 1
    /\ Leave(c, "ZOMBIE")
    /\ UNCHANGED <<tallies, rand_next, np>>

\* wakeup() by a running process or an interrupt; wait() by the parent.
\* Neither touches the tallies: an unused slot keeps those of its last owner.
Wakeup(p) ==
    /\ state[p] = "SLEEPING"
    /\ state' = [state EXCEPT ![p] = "RUNNABLE"]
    /\ UNCHANGED <<tallies, rand_next, proc, np>>

Reap(c, p) ==
    /\ Running(c)
    /\ state[p] = "ZOMBIE"
    /\ state' = [state EXCEPT ![p] = "UNUSED"]
    /\ UNCHANGED <<tallies, rand_next, proc, np>>
----------------------------------------------------------------------------
Init ==
    /\ state = [s \in Slot |-> IF s = 1 THEN "RUNNABLE" ELSE "UNUSED"]
    /\ tickets = [s \in Slot |-> IF s = 1 THEN 1 ELSE 0]
    /\ ticks = [s \in Slot |-> 0]
    /\ numTicks = [s \in Slot |-> 0]
    /\ rand_next = <<1, 0, 0, 0>>
    /\ proc = [c \in CPUS |-> Nil]
    /\ np = [s \in Slot |-> Nil]

Next ==
    \/ \E c \in CPUS :
        \/ Schedule(c) \/ TimerTick(c) \/ SetTickets(c) \/ ForkAlloc(c)
        \/ ForkEnd(c) \/ Sleep(c) \/ Exit(c)
        \/ \E p \in Slot : Reap(c, p)
    \/ \E p \in Slot : Wakeup(p)

Spec == Init /\ [][Next]_vars

\* Every CPU keeps running its scheduler, and the timer keeps interrupting.
FairSpec == Spec /\ \A c \in CPUS : WF_vars(Schedule(c)) /\ WF_vars(TimerTick(c))
----------------------------------------------------------------------------
(***************************************************************************)
(* Properties.                                                             *)
(***************************************************************************)

\* Every variable stays in its range.
TypeOK ==
    /\ state \in [Slot -> {"UNUSED", "EMBRYO", "SLEEPING", "RUNNABLE", "RUNNING",
                           "ZOMBIE"}]
    /\ tickets \in [Slot -> 0..IntMax]
    /\ ticks \in [Slot -> 0..(2 * MaxCount)]
    /\ numTicks \in [Slot -> 0..MaxCount]
    /\ rand_next \in [1..4 -> 0..255]
    /\ proc \in [CPUS -> Slot \cup {Nil}]
    /\ np \in [Slot -> Slot \cup {Nil}]

\* The lottery is exact: whatever settickets() and fork() have done, the draw
\* is held while a process could run, and of the possible values of winner
\* each runnable process wins on as many as it has tickets, and nobody else
\* on any.
LotteryExact ==
    /\ Runnable # {} => TotalTickets > 0
    /\ \A p \in Slot :
          Cardinality({w \in 0..(TotalTickets - 1) : Wins(w, p)}) =
              IF p \in Runnable THEN tickets[p] ELSE 0

\* What struct proc says of its counters: ticks is the "Number of times
\* scheduled", and numTicks "Counts the number of times a process has been
\* scheduled".  (trap() counts timer interrupts in ticks as well.)
TicksAreSchedules == \A p \in Slot : ticks[p] = numTicks[p]

\* What holds of the two: a process has at most one timer tick for each time
\* it was scheduled.
TicksBounded ==
    \A p \in Slot : numTicks[p] <= ticks[p] /\ ticks[p] <= 2 * numTicks[p]

\* What a lottery is for ("ticket count vs actual CPU time"): a process that
\* holds a ticket and stays runnable is eventually scheduled.
NoStarvation == \A p \in Slot : state[p] = "RUNNABLE" ~> state[p] # "RUNNABLE"
============================================================================
