---------------------------- MODULE LotteryProofs ----------------------------
(***************************************************************************)
(* Proofs about the lottery scheduler of tree A, for any number of slots   *)
(* and CPUs, any width of int and any bound on the counters.               *)
(***************************************************************************)
EXTENDS Lottery, NatLemmas, FiniteSetTheorems, TLAPS

----------------------------------------------------------------------------
(***************************************************************************)
(* The table.                                                              *)
(***************************************************************************)

States == {"UNUSED", "EMBRYO", "SLEEPING", "RUNNABLE", "RUNNING", "ZOMBIE"}

\* A CPU runs a process of its own.
CpusOK ==
    /\ \A c \in CPUS : proc[c] # Nil => state[proc[c]] = "RUNNING"
    /\ \A c, d \in CPUS : proc[c] # Nil /\ proc[c] = proc[d] => c = d

\* A slot that is being set up is set up by one fork().
ForksOK ==
    /\ \A p \in Slot : np[p] # Nil => state[np[p]] = "EMBRYO"
    /\ \A p, q \in Slot : np[p] # Nil /\ np[p] = np[q] => p = q

\* A running process is owed the timer tick of this turn, unless its counters
\* have reached the bound.
TurnsOK ==
    \A p \in Slot : state[p] = "RUNNING" /\ numTicks[p] < MaxCount =>
                       ticks[p] < 2 * numTicks[p]

\* Every slot in use holds a ticket.
TicketsOK == \A p \in Slot : state[p] # "UNUSED" => tickets[p] >= 1

Sound == TypeOK /\ CpusOK /\ ForksOK /\ TicksBounded /\ TurnsOK /\ TicketsOK

\* A counter stays below its bound.
LEMMA CountIs ==
  ASSUME NEW max \in Nat, NEW n \in 0..max
  PROVE  Count(n, max) \in 0..max /\ Count(n, max) = IF n < max THEN n + 1 ELSE n
  BY DEF Count

\* The generator keeps four bytes.
LEMMA TimesType ==
  ASSUME NEW a \in [1..4 -> 0..255]
  PROVE  Times(a, Multiplier) \in [1..4 -> 0..255]
<1>1. a[1] \in Int /\ a[2] \in Int /\ a[3] \in Int /\ a[4] \in Int
  OBVIOUS
<1>2. ASSUME NEW x \in Int PROVE Byte(x) \in 0..255 /\ x \div 256 \in Int
  BY <1>2 DEF Byte
<1> DEFINE m == Multiplier
           col0 == a[1] * m[1]
           col1 == a[1] * m[2] + a[2] * m[1] + col0 \div 256
           col2 == a[1] * m[3] + a[2] * m[2] + a[3] * m[1] + col1 \div 256
           col3 == a[1] * m[4] + a[2] * m[3] + a[3] * m[2] + a[4] * m[1]
                     + col2 \div 256
<1>3. m[1] \in Int /\ m[2] \in Int /\ m[3] \in Int /\ m[4] \in Int
  BY DEF Multiplier
<1> HIDE DEF m
<1>4. col0 \in Int
  BY <1>1, <1>3
<1> HIDE DEF col0
<1>5. col1 \in Int
  BY <1>1, <1>2, <1>3, <1>4
<1> HIDE DEF col1
<1>6. col2 \in Int
  BY <1>1, <1>2, <1>3, <1>5
<1> HIDE DEF col2
<1>7. col3 \in Int
  BY <1>1, <1>2, <1>3, <1>6
<1> HIDE DEF col3
<1>8. Times(a, Multiplier) = <<Byte(col0), Byte(col1), Byte(col2), Byte(col3)>>
  BY DEF Times, col0, col1, col2, col3, m
<1>9. Byte(col0) \in 0..255 /\ Byte(col1) \in 0..255 /\ Byte(col2) \in 0..255 /\ Byte(col3) \in 0..255
  BY <1>2, <1>4, <1>5, <1>6, <1>7
<1> QED
  BY <1>8, <1>9

\* Initially only init is in the table.
LEMMA InitSound == Init => Sound
<1> SUFFICES ASSUME Init PROVE Sound
  OBVIOUS
<1>1. TypeOK
  <2>1. 1 \in 0..IntMax /\ 0 \in 0..IntMax /\ 0 \in 0..(2 * MaxCount) /\ 0 \in 0..MaxCount
    BY LotteryAssumption
  <2>2. rand_next \in [1..4 -> 0..255]
    BY DEF Init
  <2> QED
    BY <2>1, <2>2 DEF Init, TypeOK
<1>2. CpusOK /\ ForksOK /\ TurnsOK
  BY DEF Init, CpusOK, ForksOK, TurnsOK
<1>3. TicksBounded /\ TicketsOK
  BY DEF Init, TicksBounded, TicketsOK
<1> QED
  BY <1>1, <1>2, <1>3 DEF Sound

\* A winner is chosen and runs.
LEMMA ScheduleSound ==
  ASSUME Sound, NEW c \in CPUS, Schedule(c)
  PROVE  Sound'
<1>a. PICK p \in Slot :
         /\ Wins(Random(rand_next') % TotalTickets, p)
         /\ proc' = [proc EXCEPT ![c] = p]
         /\ state' = [state EXCEPT ![p] = "RUNNING"]
         /\ ticks' = [ticks EXCEPT ![p] = Count(@, 2 * MaxCount)]
         /\ numTicks' = [numTicks EXCEPT ![p] = Count(@, MaxCount)]
  BY DEF Schedule
<1>1. state[p] = "RUNNABLE" /\ p # Nil
  BY <1>a DEF Wins, Stops, Runnable, Slot, Nil
<1>2. proc[c] = Nil /\ tickets' = tickets /\ np' = np
  BY DEF Schedule
<1>3. rand_next' \in [1..4 -> 0..255]
  BY TimesType DEF Schedule, Sound, TypeOK
<1>4. /\ \A q \in Slot : state'[q] = IF q = p THEN "RUNNING" ELSE state[q]
      /\ \A d \in CPUS : proc'[d] = IF d = c THEN p ELSE proc[d]
  BY <1>a DEF Sound, TypeOK
<1>5. MaxCount \in Nat /\ 2 * MaxCount \in Nat
  BY LotteryAssumption
<1>6. /\ ticks[p] \in 0..(2 * MaxCount) /\ numTicks[p] \in 0..MaxCount
      /\ numTicks[p] <= ticks[p] /\ ticks[p] <= 2 * numTicks[p]
  BY DEF Sound, TypeOK, TicksBounded
<1>7. /\ ticks'[p] \in 0..(2 * MaxCount) /\ numTicks'[p] \in 0..MaxCount
      /\ ticks'[p] = IF ticks[p] < 2 * MaxCount THEN ticks[p] + 1 ELSE ticks[p]
      /\ numTicks'[p] = IF numTicks[p] < MaxCount THEN numTicks[p] + 1 ELSE numTicks[p]
      /\ \A q \in Slot \ {p} : ticks'[q] = ticks[q] /\ numTicks'[q] = numTicks[q]
  <2>1. /\ ticks'[p] = Count(ticks[p], 2 * MaxCount)
        /\ numTicks'[p] = Count(numTicks[p], MaxCount)
        /\ \A q \in Slot \ {p} : ticks'[q] = ticks[q] /\ numTicks'[q] = numTicks[q]
    BY <1>a DEF Sound, TypeOK
  <2> QED
    BY <1>5, <1>6, <2>1, CountIs
<1>8. TypeOK'
  <2>1. /\ state' \in [Slot -> States] /\ proc' \in [CPUS -> Slot \cup {Nil}]
        /\ ticks' \in [Slot -> 0..(2 * MaxCount)] /\ numTicks' \in [Slot -> 0..MaxCount]
    BY <1>a, <1>7 DEF Sound, TypeOK, States
  <2> QED
    BY <1>2, <1>3, <2>1 DEF Sound, TypeOK, States
<1>9. CpusOK'
  <2>1. \A d \in CPUS : proc[d] # p
    BY <1>1 DEF Sound, CpusOK
  <2>2. \A d \in CPUS : proc[d] # Nil => proc[d] \in Slot
    BY DEF Sound, TypeOK
  <2> QED
    BY <1>1, <1>2, <1>4, <2>1, <2>2 DEF Sound, CpusOK
<1>10. ForksOK'
  <2>1. \A q \in Slot : np[q] # Nil => np[q] \in Slot
    BY DEF Sound, TypeOK
  <2> QED
    BY <1>1, <1>2, <1>4, <2>1 DEF Sound, ForksOK
<1>11. numTicks'[p] <= ticks'[p] /\ ticks'[p] <= 2 * numTicks'[p]
  BY <1>5, <1>6, <1>7
<1>12. numTicks'[p] < MaxCount => ticks'[p] < 2 * numTicks'[p]
  BY <1>5, <1>6, <1>7
<1>13. TicksBounded' /\ TurnsOK'
  BY <1>4, <1>7, <1>11, <1>12 DEF Sound, TicksBounded, TurnsOK
<1>14. TicketsOK'
  BY <1>1, <1>2, <1>4 DEF Sound, TicketsOK
<1> QED
  BY <1>8, <1>9, <1>10, <1>13, <1>14 DEF Sound

\* A timer interrupt takes the CPU away.
LEMMA TimerTickSound ==
  ASSUME Sound, NEW c \in CPUS, TimerTick(c)
  PROVE  Sound'
<1>a. PICK p \in Slot : p = proc[c]
  BY DEF TimerTick, Sound, TypeOK
<1>1. /\ state[p] = "RUNNING" /\ p # Nil
      /\ ticks' = [ticks EXCEPT ![p] = Count(@, 2 * MaxCount)]
      /\ state' = [state EXCEPT ![p] = "RUNNABLE"]
      /\ proc' = [proc EXCEPT ![c] = Nil]
      /\ UNCHANGED <<tickets, numTicks, rand_next, np>>
  BY <1>a DEF TimerTick, Leave, Sound, CpusOK
<1>2. /\ \A q \in Slot : state'[q] = IF q = p THEN "RUNNABLE" ELSE state[q]
      /\ \A d \in CPUS : proc'[d] = IF d = c THEN Nil ELSE proc[d]
  BY <1>1 DEF Sound, TypeOK
<1>3. MaxCount \in Nat /\ 2 * MaxCount \in Nat
  BY LotteryAssumption
<1>4. /\ ticks[p] \in 0..(2 * MaxCount) /\ numTicks[p] \in 0..MaxCount
      /\ numTicks[p] <= ticks[p] /\ ticks[p] <= 2 * numTicks[p]
      /\ numTicks[p] < MaxCount => ticks[p] < 2 * numTicks[p]
  BY <1>1 DEF Sound, TypeOK, TicksBounded, TurnsOK
<1>5. /\ ticks'[p] \in 0..(2 * MaxCount)
      /\ ticks'[p] = IF ticks[p] < 2 * MaxCount THEN ticks[p] + 1 ELSE ticks[p]
      /\ \A q \in Slot \ {p} : ticks'[q] = ticks[q]
  <2>1. /\ ticks'[p] = Count(ticks[p], 2 * MaxCount)
        /\ \A q \in Slot \ {p} : ticks'[q] = ticks[q]
    BY <1>1 DEF Sound, TypeOK
  <2> QED
    BY <1>3, <1>4, <2>1, CountIs
<1>6. TypeOK'
  <2>1. /\ state' \in [Slot -> States] /\ proc' \in [CPUS -> Slot \cup {Nil}]
        /\ ticks' \in [Slot -> 0..(2 * MaxCount)]
    BY <1>1, <1>5 DEF Sound, TypeOK, States
  <2> QED
    BY <1>1, <2>1 DEF Sound, TypeOK, States
<1>7. CpusOK'
  <2>1. \A d \in CPUS : d # c => proc[d] # p
    BY <1>a, <1>1 DEF Sound, CpusOK
  <2>2. \A d \in CPUS : proc[d] # Nil => proc[d] \in Slot
    BY DEF Sound, TypeOK
  <2> QED
    BY <1>2, <2>1, <2>2 DEF Sound, CpusOK
<1>8. ForksOK'
  BY <1>1, <1>2 DEF Sound, ForksOK, TypeOK
<1>9. numTicks[p] <= ticks'[p] /\ ticks'[p] <= 2 * numTicks[p]
  BY <1>3, <1>4, <1>5
<1>10. TicksBounded' /\ TurnsOK' /\ TicketsOK'
  BY <1>1, <1>2, <1>5, <1>9 DEF Sound, TicksBounded, TurnsOK, TicketsOK
<1> QED
  BY <1>6, <1>7, <1>8, <1>10 DEF Sound

\* settickets() stores a number of tickets that an int can hold.
LEMMA SetTicketsSound ==
  ASSUME Sound, NEW c \in CPUS, SetTickets(c)
  PROVE  Sound'
<1>a. PICK n \in TicketArgs : Accepts(n) /\ tickets' = [tickets EXCEPT ![proc[c]] = n]
  BY DEF SetTickets
<1>1. n \in 1..IntMax /\ n \in 0..IntMax
  BY <1>a, LotteryAssumption DEF Accepts
<1>2. UNCHANGED <<state, ticks, numTicks, rand_next, proc, np>>
  BY DEF SetTickets
<1>3. \A p \in Slot : tickets'[p] = tickets[p] \/ tickets'[p] = n
  BY <1>a DEF Sound, TypeOK
<1>4. TypeOK'
  <2>1. tickets' \in [Slot -> 0..IntMax]
    BY <1>1, <1>a DEF Sound, TypeOK
  <2> QED
    BY <1>2, <2>1 DEF Sound, TypeOK
<1>5. TicketsOK'
  <2>1. \A p \in Slot : tickets[p] \in 0..IntMax
    BY DEF Sound, TypeOK
  <2> QED
    BY <1>1, <1>2, <1>3, <2>1 DEF Sound, TicketsOK
<1>6. CpusOK' /\ ForksOK' /\ TicksBounded' /\ TurnsOK'
  BY <1>2 DEF Sound, CpusOK, ForksOK, TicksBounded, TurnsOK
<1> QED
  BY <1>4, <1>5, <1>6 DEF Sound

\* fork() takes a slot, with its parent's tickets and no CPU time.
LEMMA ForkAllocSound ==
  ASSUME Sound, NEW c \in CPUS, ForkAlloc(c)
  PROVE  Sound'
<1>a. PICK q \in Slot :
        /\ state[q] = "UNUSED"
        /\ state' = [state EXCEPT ![q] = "EMBRYO"]
        /\ tickets' = [tickets EXCEPT ![q] = tickets[proc[c]]]
        /\ ticks' = [ticks EXCEPT ![q] = 0]
        /\ numTicks' = [numTicks EXCEPT ![q] = 0]
        /\ np' = [np EXCEPT ![proc[c]] = q]
  BY DEF ForkAlloc, ResetTicks
<1>b. PICK p \in Slot : p = proc[c]
  BY DEF ForkAlloc, Running, Sound, TypeOK
<1>1. UNCHANGED <<rand_next, proc>>
  BY DEF ForkAlloc
<1>2. state[p] = "RUNNING" /\ p # Nil /\ p # q /\ np[p] = Nil /\ q # Nil
  BY <1>a, <1>b DEF ForkAlloc, Running, Sound, CpusOK, Slot, Nil
<1>3. /\ \A s \in Slot : state'[s] = IF s = q THEN "EMBRYO" ELSE state[s]
      /\ \A s \in Slot : tickets'[s] = IF s = q THEN tickets[p] ELSE tickets[s]
      /\ \A s \in Slot : ticks'[s] = IF s = q THEN 0 ELSE ticks[s]
      /\ \A s \in Slot : numTicks'[s] = IF s = q THEN 0 ELSE numTicks[s]
      /\ \A s \in Slot : np'[s] = IF s = p THEN q ELSE np[s]
  BY <1>a, <1>b DEF Sound, TypeOK
<1>4. TypeOK'
  <2>1. 0 \in 0..(2 * MaxCount) /\ 0 \in 0..MaxCount /\ tickets[p] \in 0..IntMax
    BY LotteryAssumption DEF Sound, TypeOK
  <2>2. /\ state' \in [Slot -> States] /\ np' \in [Slot -> Slot \cup {Nil}]
        /\ tickets' \in [Slot -> 0..IntMax]
    BY <1>a, <1>b, <2>1 DEF Sound, TypeOK, States
  <2>3. ticks' \in [Slot -> 0..(2 * MaxCount)] /\ numTicks' \in [Slot -> 0..MaxCount]
    BY <1>a, <2>1 DEF Sound, TypeOK
  <2> QED
    BY <1>1, <2>2, <2>3 DEF Sound, TypeOK, States
<1>5. CpusOK'
  <2>1. \A d \in CPUS : proc[d] # Nil => proc[d] \in Slot
    BY DEF Sound, TypeOK
  <2> QED
    BY <1>a, <1>1, <1>3, <2>1 DEF Sound, CpusOK
<1>6. ForksOK'
  <2>1. \A s \in Slot : np[s] # Nil => np[s] \in Slot /\ np[s] # q
    BY <1>a DEF Sound, TypeOK, ForksOK
  <2> QED
    BY <1>2, <1>3, <2>1 DEF Sound, ForksOK
<1>7. TicksBounded' /\ TurnsOK'
  BY <1>3 DEF Sound, TicksBounded, TurnsOK
<1>8. TicketsOK'
  BY <1>2, <1>3 DEF Sound, TicketsOK
<1> QED
  BY <1>4, <1>5, <1>6, <1>7, <1>8 DEF Sound

\* A step that only moves one slot to another state, that is not RUNNING, and
\* takes no CPU or setup away from anybody else.
LEMMA MoveSound ==
  ASSUME Sound, NEW p \in Slot, NEW st \in States \ {"RUNNING"},
         state' = [state EXCEPT ![p] = st],
         UNCHANGED <<tallies, rand_next>>,
         proc' \in [CPUS -> Slot \cup {Nil}], np' \in [Slot -> Slot \cup {Nil}],
         \A d \in CPUS : proc'[d] = Nil \/ (proc'[d] = proc[d] /\ proc[d] # p),
         \A s \in Slot : np'[s] = Nil \/ (np'[s] = np[s] /\ np[s] # p),
         state[p] # "UNUSED" \/ st = "UNUSED"
  PROVE  Sound'
<1>1. \A s \in Slot : state'[s] = IF s = p THEN st ELSE state[s]
  BY DEF Sound, TypeOK
<1>2. tickets' = tickets /\ ticks' = ticks /\ numTicks' = numTicks
  BY DEF tallies
<1>3. TypeOK'
  <2>1. state' \in [Slot -> States]
    BY DEF Sound, TypeOK, States
  <2> QED
    BY <1>2, <2>1 DEF Sound, TypeOK, States
<1>4. CpusOK'
  <2>1. \A d \in CPUS : proc[d] # Nil => proc[d] \in Slot
    BY DEF Sound, TypeOK
  <2> QED
    BY <1>1, <2>1 DEF Sound, CpusOK
<1>5. ForksOK'
  <2>1. \A s \in Slot : np[s] # Nil => np[s] \in Slot
    BY DEF Sound, TypeOK
  <2> QED
    BY <1>1, <2>1 DEF Sound, ForksOK
<1>6. TicksBounded' /\ TurnsOK' /\ TicketsOK'
  BY <1>1, <1>2 DEF Sound, TicksBounded, TurnsOK, TicketsOK
<1> QED
  BY <1>3, <1>4, <1>5, <1>6 DEF Sound

\* sleep() and exit() give the CPU up.
LEMMA LeaveSound ==
  ASSUME Sound, NEW c \in CPUS, Sleep(c) \/ Exit(c)
  PROVE  Sound'
<1>a. PICK p \in Slot : p = proc[c]
  BY DEF Sleep, Exit, Running, Sound, TypeOK
<1>b. PICK st \in {"SLEEPING", "ZOMBIE"} : state' = [state EXCEPT ![p] = st]
  BY <1>a DEF Sleep, Exit, Leave
<1>1. /\ state[p] = "RUNNING" /\ p # Nil
      /\ proc' = [proc EXCEPT ![c] = Nil] /\ UNCHANGED <<tallies, rand_next, np>>
  BY <1>a DEF Sleep, Exit, Running, Leave, Sound, CpusOK
<1>2. \A d \in CPUS : proc'[d] = Nil \/ (proc'[d] = proc[d] /\ proc[d] # p)
  BY <1>a, <1>1 DEF Sound, TypeOK, CpusOK
<1>3. \A s \in Slot : np'[s] = Nil \/ (np'[s] = np[s] /\ np[s] # p)
  BY <1>1 DEF Sound, ForksOK
<1>4. proc' \in [CPUS -> Slot \cup {Nil}] /\ np' \in [Slot -> Slot \cup {Nil}]
  BY <1>1 DEF Sound, TypeOK
<1>5. st \in States \ {"RUNNING"} /\ state[p] # "UNUSED"
  BY <1>1 DEF States
<1> QED
  BY <1>b, <1>1, <1>2, <1>3, <1>4, <1>5, MoveSound

\* fork() ends: the slot goes to the child, or back.
LEMMA ForkEndSound ==
  ASSUME Sound, NEW c \in CPUS, ForkEnd(c)
  PROVE  Sound'
<1>a. PICK p \in Slot : p = proc[c]
  BY DEF ForkEnd, Sound, TypeOK
<1>b. PICK q \in Slot : q = np[p]
  BY <1>a DEF ForkEnd, Sound, TypeOK
<1>c. PICK st \in {"RUNNABLE", "UNUSED"} : state' = [state EXCEPT ![q] = st]
  BY <1>a, <1>b DEF ForkEnd
<1>1. /\ state[q] = "EMBRYO" /\ q # Nil
      /\ np' = [np EXCEPT ![p] = Nil] /\ UNCHANGED <<tallies, rand_next, proc>>
  BY <1>a, <1>b DEF ForkEnd, Sound, ForksOK
<1>2. \A d \in CPUS : proc'[d] = Nil \/ (proc'[d] = proc[d] /\ proc[d] # q)
  BY <1>1 DEF Sound, CpusOK
<1>3. \A s \in Slot : np'[s] = Nil \/ (np'[s] = np[s] /\ np[s] # q)
  BY <1>b, <1>1 DEF Sound, TypeOK, ForksOK
<1>4. proc' \in [CPUS -> Slot \cup {Nil}] /\ np' \in [Slot -> Slot \cup {Nil}]
  BY <1>1 DEF Sound, TypeOK
<1>5. st \in States \ {"RUNNING"} /\ state[q] # "UNUSED"
  BY <1>1 DEF States
<1> QED
  BY <1>c, <1>1, <1>2, <1>3, <1>4, <1>5, MoveSound

\* A sleeper is woken, a zombie is reaped.
LEMMA QuietSound ==
  ASSUME Sound, NEW p \in Slot, Wakeup(p) \/ \E c \in CPUS : Reap(c, p)
  PROVE  Sound'
<1>a. PICK st \in {"RUNNABLE", "UNUSED"} : state' = [state EXCEPT ![p] = st]
  BY DEF Wakeup, Reap
<1>1. /\ state[p] \in {"SLEEPING", "ZOMBIE"} /\ UNCHANGED <<tallies, rand_next, proc, np>>
      /\ p # Nil
  BY DEF Wakeup, Reap, Slot, Nil
<1>2. \A d \in CPUS : proc'[d] = Nil \/ (proc'[d] = proc[d] /\ proc[d] # p)
  BY <1>1 DEF Sound, CpusOK
<1>3. \A s \in Slot : np'[s] = Nil \/ (np'[s] = np[s] /\ np[s] # p)
  BY <1>1 DEF Sound, ForksOK
<1>4. proc' \in [CPUS -> Slot \cup {Nil}] /\ np' \in [Slot -> Slot \cup {Nil}]
  BY <1>1 DEF Sound, TypeOK
<1>5. st \in States \ {"RUNNING"} /\ state[p] # "UNUSED"
  BY <1>1 DEF States
<1> QED
  BY <1>a, <1>1, <1>2, <1>3, <1>4, <1>5, MoveSound

\* The invariant is kept by every step.
LEMMA NextSound == Sound /\ [Next]_vars => Sound'
<1> SUFFICES ASSUME Sound, [Next]_vars PROVE Sound'
  OBVIOUS
<1>1. ASSUME NEW c \in CPUS, \/ Schedule(c) \/ TimerTick(c) \/ SetTickets(c) \/ ForkAlloc(c)
                             \/ ForkEnd(c) \/ Sleep(c) \/ Exit(c)
      PROVE  Sound'
  BY <1>1, ScheduleSound, TimerTickSound, SetTicketsSound, ForkAllocSound, ForkEndSound,
     LeaveSound
<1>2. ASSUME NEW p \in Slot, Wakeup(p) \/ \E c \in CPUS : Reap(c, p)
      PROVE  Sound'
  BY <1>2, QuietSound
<1>3. CASE UNCHANGED vars
  BY <1>3 DEF vars, tallies, Sound, TypeOK, CpusOK, ForksOK, TicksBounded, TurnsOK, TicketsOK
<1> QED
  BY <1>1, <1>2, <1>3 DEF Next

\* The table, the CPUs and the slots in setup agree, and everybody in the
\* table holds a ticket.  A_xv6_patched/kernel/proc.c.
THEOREM LotterySound == Spec => []Sound
  BY InitSound, NextSound, PTL DEF Spec

\* A process is charged one timer tick at most each time it was scheduled,
\* across fork(), preemption in the middle of fork(), reaping and reuse of its
\* slot; ticks and numTicks are not equal, as struct proc has it, but at most
\* a factor of two apart.
\* A_xv6_patched/kernel/proc.c: scheduler(), allocproc(); trap.c: trap().
THEOREM CountersKept == Spec => []TicksBounded
<1>1. Sound => TicksBounded
  BY DEF Sound
<1> QED
  BY LotterySound, <1>1, PTL

----------------------------------------------------------------------------
(***************************************************************************)
(* The draw, as long as the tickets cannot overflow an int: no process has *)
(* more than m of them and NPROC * m is an int.                            *)
(***************************************************************************)

\* Nobody has more than m tickets.
Below(m) == \A p \in Slot : tickets[p] <= m

\* The recursive functions in TotalTickets and Deducted(w).
SumIs(f) ==
  f = [i \in 0..NPROC |->
          IF i = 0 THEN 0
          ELSE IF i \in Runnable THEN Wrap(f[i - 1] + tickets[i])
          ELSE f[i - 1]]
LeftIs(w, f) ==
  f = [i \in 0..NPROC |->
          IF i = 0 THEN w
          ELSE IF i \in Runnable THEN f[i - 1] - tickets[i]
          ELSE f[i - 1]]

\* The tickets of the runnable slots up to i, without overflow.
Upto(f) ==
    /\ f \in [0..NPROC -> Int] /\ f[0] = 0
    /\ \A i \in 1..NPROC : f[i] = IF i \in Runnable THEN f[i - 1] + tickets[i] ELSE f[i - 1]

\* What is used of the invariant.
Ready(m) ==
    /\ \A p \in Slot : tickets[p] \in 0..m
    /\ \A p \in Runnable : tickets[p] >= 1

\* Such sums exist.
LEMMA UptoExists ==
  ASSUME NEW m \in Nat, Ready(m)
  PROVE  \E f : Upto(f)
<1> DEFINE F == [i \in 1..NPROC |->
                    [x \in Int |-> IF i \in Runnable THEN x + tickets[i] ELSE x]]
<1>1. NPROC \in Nat
  BY LotteryAssumption
<1>2. \A i \in 1..NPROC : tickets[i] \in Int
  BY DEF Ready, Slot
<1>3. F \in [1..NPROC -> [Int -> Int]]
  BY <1>2
<1>4. \A i \in 1..NPROC, x \in Int : F[i][x] = IF i \in Runnable THEN x + tickets[i] ELSE x
  OBVIOUS
<1> HIDE DEF F
<1>5. 0 \in Int
  OBVIOUS
<1>6. PICK f \in [0..NPROC -> Int] : f[0] = 0 /\ \A i \in 1..NPROC : f[i] = F[i][f[i - 1]]
  <2>1. PICK f : Recursive(f, NPROC, Int, 0, F)
    BY <1>1, <1>3, <1>5, RecursionExists
  <2> QED
    BY <2>1 DEF Recursive
<1>7. ASSUME NEW i \in 1..NPROC
      PROVE  f[i] = IF i \in Runnable THEN f[i - 1] + tickets[i] ELSE f[i - 1]
  <2>1. i - 1 \in 0..NPROC
    BY <1>1
  <2>2. f[i - 1] \in Int
    BY <1>6, <2>1
  <2> QED
    BY <1>4, <1>6, <2>2
<1> QED
  BY <1>6, <1>7 DEF Upto

\* They lie between zero and m for each slot.
LEMMA UptoRange ==
  ASSUME NEW m \in Nat, Ready(m), NEW f, Upto(f), NEW i \in 0..NPROC
  PROVE  f[i] \in 0..(i * m)
<1> DEFINE T == {j \in 0..NPROC : f[j] \in 0..(j * m)}
<1>1. NPROC \in Nat
  BY LotteryAssumption
<1>2. 0 \in T
  BY <1>1 DEF Upto
<1>3. ASSUME NEW j \in 0..(NPROC - 1), j \in T PROVE j + 1 \in T
  <2>1. j \in Nat /\ j + 1 \in 1..NPROC /\ j + 1 \in 0..NPROC /\ (j + 1) - 1 = j
    BY <1>1
  <2>2. f[j + 1] = IF j + 1 \in Runnable THEN f[j] + tickets[j + 1] ELSE f[j]
    BY <2>1 DEF Upto
  <2>3. tickets[j + 1] \in 0..m
    BY <2>1 DEF Ready, Slot
  <2>4. (j + 1) * m = j * m + m /\ j * m \in Nat
    BY <2>1
  <2> DEFINE k == j * m
  <2>5. f[j] \in 0..k
    BY <1>3
  <2> HIDE DEF k
  <2>6. f[j + 1] \in 0..(k + m)
    BY <2>2, <2>3, <2>4, <2>5 DEF k
  <2>7. f[j + 1] \in 0..((j + 1) * m)
    BY <2>4, <2>6 DEF k
  <2> QED
    BY <2>1, <2>7
<1>4. i \in T
  <2> HIDE DEF T
  <2> QED
    BY <1>1, <1>2, <1>3, UpTo
<1> QED
  BY <1>4

\* They grow.
LEMMA UptoGrows ==
  ASSUME NEW m \in Nat, Ready(m), NEW f, Upto(f), NEW i \in 0..NPROC, NEW j \in i..NPROC
  PROVE  f[i] <= f[j]
<1> DEFINE T == {k \in 0..NPROC : i <= k => f[i] <= f[k]}
<1>1. NPROC \in Nat /\ \A k \in 0..NPROC : f[k] \in Int
  BY LotteryAssumption DEF Upto
<1>2. 0 \in T
  BY <1>1
<1>3. ASSUME NEW k \in 0..(NPROC - 1), k \in T PROVE k + 1 \in T
  <2>1. k \in 0..NPROC /\ k + 1 \in 1..NPROC /\ k + 1 \in 0..NPROC /\ (k + 1) - 1 = k
    BY <1>1
  <2>2. f[k + 1] = IF k + 1 \in Runnable THEN f[k] + tickets[k + 1] ELSE f[k]
    BY <2>1 DEF Upto
  <2>3. tickets[k + 1] \in Nat
    BY <2>1 DEF Ready, Slot
  <2>4. f[k + 1] \in Int /\ f[k] \in Int /\ f[i] \in Int /\ f[k] <= f[k + 1]
    BY <1>1, <2>1, <2>2, <2>3
  <2>5. i <= k + 1 => f[i] <= f[k + 1]
    <3>1. CASE i <= k
      BY <1>3, <2>4, <3>1
    <3>2. CASE i = k + 1
      BY <2>4, <3>2
    <3> QED
      BY <2>1, <3>1, <3>2
  <2> QED
    BY <2>1, <2>5
<1>4. \A k \in 0..NPROC : k \in T
  <2> HIDE DEF T
  <2> QED
    BY <1>1, <1>2, <1>3, UpTo
<1>5. j \in 0..NPROC /\ i <= j
  BY <1>1
<1> QED
  BY <1>4, <1>5

\* total_tickets is the sum over all slots.
LEMMA TotalIs ==
  ASSUME NEW m \in Nat, NPROC * m <= IntMax, Ready(m), NEW f, Upto(f)
  PROVE  TotalTickets = f[NPROC]
<1>1. NPROC \in Nat /\ IntMax \in Nat
  BY LotteryAssumption
<1>2. ASSUME NEW i \in 0..NPROC PROVE f[i] \in Int /\ f[i] <= IntMax
  <2>1. f[i] \in 0..(i * m)
    BY UptoRange
  <2>2. i * m <= NPROC * m /\ i * m \in Nat
    <3>1. NPROC - i \in Nat /\ NPROC = i + (NPROC - i)
      BY <1>1
    <3>2. (NPROC - i) * m \in Nat
      BY <3>1
    <3>3. NPROC * m = i * m + (NPROC - i) * m
      BY <1>1
    <3> QED
      BY <3>2, <3>3
  <2> DEFINE x == i * m
             y == NPROC * m
  <2>3. x \in Nat /\ y \in Nat /\ x <= y /\ y <= IntMax /\ f[i] \in 0..x
    BY <1>1, <2>1, <2>2
  <2> HIDE DEF x, y
  <2> QED
    BY <1>1, <2>3
<1>3. ASSUME NEW i \in 1..NPROC, i \in Runnable
      PROVE  Wrap(f[i - 1] + tickets[i]) = f[i]
  <2>1. f[i] = f[i - 1] + tickets[i] /\ i \in 0..NPROC
    BY <1>1, <1>3 DEF Upto
  <2>2. ~(f[i - 1] + tickets[i] > IntMax)
    BY <1>1, <1>2, <2>1
  <2> QED
    BY <2>1, <2>2 DEF Wrap
<1>4. SumIs(f)
  <2>1. f = [i \in 0..NPROC |-> f[i]]
    BY DEF Upto
  <2>2. ASSUME NEW i \in 0..NPROC
        PROVE  f[i] = IF i = 0 THEN 0
                      ELSE IF i \in Runnable THEN Wrap(f[i - 1] + tickets[i])
                      ELSE f[i - 1]
    <3>1. CASE i = 0
      BY <3>1 DEF Upto
    <3>2. CASE i # 0
      <4>1. i \in 1..NPROC
        BY <1>1, <3>2
      <4> QED
        BY <1>3, <3>2, <4>1 DEF Upto
    <3> QED
      BY <3>1, <3>2
  <2> QED
    BY <2>1, <2>2 DEF SumIs
<1>5. ASSUME NEW g, SumIs(g) PROVE g[NPROC] = f[NPROC]
  <2> DEFINE T == {i \in 0..NPROC : g[i] = f[i]}
  <2>1. 0 \in T
    BY <1>1, <1>5 DEF SumIs, Upto
  <2>2. ASSUME NEW j \in 0..(NPROC - 1), j \in T PROVE j + 1 \in T
    <3>1. j + 1 \in 1..NPROC /\ j + 1 \in 0..NPROC /\ (j + 1) - 1 = j /\ j + 1 # 0
      BY <1>1
    <3>2. g[j + 1] = IF j + 1 \in Runnable THEN Wrap(g[j] + tickets[j + 1]) ELSE g[j]
      BY <1>5, <3>1 DEF SumIs
    <3>3. f[j + 1] = IF j + 1 \in Runnable THEN Wrap(f[j] + tickets[j + 1]) ELSE f[j]
      BY <1>4, <3>1 DEF SumIs
    <3>4. g[j] = f[j]
      BY <2>2
    <3>5. g[j + 1] = f[j + 1]
      BY <3>2, <3>3, <3>4
    <3> QED
      BY <3>1, <3>5
  <2>3. NPROC \in T
    <3> HIDE DEF T
    <3>1. \A i \in 0..NPROC : i \in T
      BY <1>1, <2>1, <2>2, UpTo
    <3> QED
      BY <1>1, <3>1
  <2> QED
    BY <2>3
<1> DEFINE h == CHOOSE g : SumIs(g)
<1>6. SumIs(h)
  BY <1>4, Zenon
<1>7. TotalTickets = h[NPROC]
  BY DEF TotalTickets, SumIs
<1> HIDE DEF h
<1> QED
  BY <1>5, <1>6, <1>7

\* winner after slot i.
LEMMA DeductedIs ==
  ASSUME NEW m \in Nat, Ready(m), NEW f, Upto(f), NEW w \in Int, NEW i \in 0..NPROC
  PROVE  Deducted(w)[i] = w - f[i]
<1>1. NPROC \in Nat /\ \A k \in 0..NPROC : f[k] \in Int
  BY LotteryAssumption DEF Upto
<1> DEFINE d == [k \in 0..NPROC |-> w - f[k]]
<1>2. LeftIs(w, d)
  <2>1. ASSUME NEW k \in 0..NPROC
        PROVE  d[k] = IF k = 0 THEN w
                      ELSE IF k \in Runnable THEN d[k - 1] - tickets[k]
                      ELSE d[k - 1]
    <3>1. CASE k = 0
      BY <3>1 DEF Upto
    <3>2. CASE k # 0
      <4>1. k \in 1..NPROC /\ k - 1 \in 0..NPROC
        BY <1>1, <3>2
      <4>2. f[k] = IF k \in Runnable THEN f[k - 1] + tickets[k] ELSE f[k - 1]
        BY <4>1 DEF Upto
      <4>3. tickets[k] \in Int /\ f[k] \in Int /\ f[k - 1] \in Int
        BY <1>1, <4>1 DEF Ready, Slot
      <4>4. d[k] = w - f[k] /\ d[k - 1] = w - f[k - 1]
        BY <4>1
      <4> HIDE DEF d
      <4> QED
        BY <3>2, <4>2, <4>3, <4>4
    <3> QED
      BY <3>1, <3>2
  <2>2. d = [k \in 0..NPROC |-> d[k]]
    OBVIOUS
  <2> HIDE DEF d
  <2> QED
    BY <2>1, <2>2 DEF LeftIs
<1>3. ASSUME NEW g, LeftIs(w, g) PROVE \A k \in 0..NPROC : g[k] = d[k]
  <2> DEFINE T == {k \in 0..NPROC : g[k] = d[k]}
  <2> HIDE DEF d
  <2>1. 0 \in T
    BY <1>1, <1>2, <1>3 DEF LeftIs
  <2>2. ASSUME NEW j \in 0..(NPROC - 1), j \in T PROVE j + 1 \in T
    <3>1. j + 1 \in 1..NPROC /\ j + 1 \in 0..NPROC /\ (j + 1) - 1 = j /\ j + 1 # 0
      BY <1>1
    <3>2. g[j + 1] = IF j + 1 \in Runnable THEN g[j] - tickets[j + 1] ELSE g[j]
      BY <1>3, <3>1 DEF LeftIs
    <3>3. d[j + 1] = IF j + 1 \in Runnable THEN d[j] - tickets[j + 1] ELSE d[j]
      BY <1>2, <3>1 DEF LeftIs
    <3>4. g[j] = d[j]
      BY <2>2
    <3>5. g[j + 1] = d[j + 1]
      BY <3>2, <3>3, <3>4
    <3> QED
      BY <3>1, <3>5
  <2>3. \A k \in 0..NPROC : k \in T
    <3> HIDE DEF T
    <3> QED
      BY <1>1, <2>1, <2>2, UpTo
  <2> QED
    BY <2>3
<1> DEFINE h == CHOOSE g : LeftIs(w, g)
<1>4. LeftIs(w, h)
  <2> HIDE DEF d
  <2> QED
    BY <1>2, Zenon
<1>5. Deducted(w) = h
  BY DEF Deducted, LeftIs
<1> HIDE DEF h
<1>6. Deducted(w)[i] = d[i]
  BY <1>3, <1>4, <1>5
<1> QED
  BY <1>6

\* A process wins on the values of winner that lie between the sums before it
\* and up to it.
LEMMA WinsIs ==
  ASSUME NEW m \in Nat, Ready(m), NEW f, Upto(f), NEW w \in Nat, NEW p \in Slot
  PROVE  Wins(w, p) <=> p \in Runnable /\ f[p - 1] <= w /\ w < f[p]
<1>1. NPROC \in Nat /\ \A k \in 0..NPROC : f[k] \in Int
  BY LotteryAssumption DEF Upto
<1>2. Slot = 1..NPROC /\ Runnable \subseteq Slot /\ p - 1 \in 0..NPROC /\ p \in 0..NPROC
  BY <1>1 DEF Slot, Runnable
<1>3. ASSUME NEW s \in Runnable PROVE s \in Stops(w) <=> w < f[s]
  <2>1. s \in 0..NPROC
    BY <1>1, <1>2
  <2>2. Deducted(w)[s] = w - f[s] /\ f[s] \in Int
    BY <1>1, <2>1, DeductedIs
  <2> QED
    BY <2>2 DEF Stops
<1>4. ASSUME p \in Runnable, f[p - 1] <= w, w < f[p] PROVE Wins(w, p)
  <2>1. ASSUME NEW s \in Stops(w), s < p PROVE FALSE
    <3>1. s \in Runnable /\ s \in 0..NPROC /\ p - 1 \in s..NPROC
      BY <1>1, <1>2, <2>1 DEF Stops
    <3>2. f[s] <= f[p - 1] /\ w < f[s]
      BY <1>3, <2>1, <3>1, UptoGrows
    <3> QED
      BY <1>1, <1>2, <1>4, <3>1, <3>2
  <2>2. \A s \in Stops(w) : s \in Int /\ p \in Int
    BY <1>1, <1>2 DEF Stops
  <2>3. \A s \in Stops(w) : p <= s
    BY <2>1, <2>2
  <2> QED
    BY <1>3, <1>4, <2>3 DEF Wins
<1>5. ASSUME Wins(w, p), w < f[p - 1] PROVE FALSE
  <2> DEFINE T == {i \in 0..NPROC : w < f[i]}
  <2>1. p - 1 \in T /\ T \subseteq Nat
    BY <1>2, <1>5
  <2>2. PICK i \in T : \A j \in T : i <= j
    <3> HIDE DEF T
    <3> QED
      BY <2>1, LeastElement
  <2>3. i # 0
    BY <1>1, <2>2 DEF Upto
  <2>4. i \in 1..NPROC /\ i - 1 \in 0..NPROC /\ ~(i <= i - 1)
    BY <1>1, <2>2, <2>3
  <2>5. f[i - 1] <= w /\ w < f[i]
    BY <1>1, <2>2, <2>4
  <2>6. i \in Runnable
    <3>1. f[i] # f[i - 1]
      BY <1>1, <2>4, <2>5
    <3> QED
      BY <2>4, <3>1 DEF Upto
  <2>7. p <= i
    BY <1>3, <1>5, <2>5, <2>6 DEF Wins
  <2>8. i <= p - 1
    BY <2>1, <2>2
  <2> QED
    BY <1>2, <2>4, <2>7, <2>8
<1>6. ASSUME Wins(w, p) PROVE p \in Runnable /\ f[p - 1] <= w /\ w < f[p]
  <2>1. p \in Runnable /\ w < f[p]
    BY <1>3, <1>6 DEF Wins, Stops
  <2>2. f[p - 1] <= w
    BY <1>1, <1>2, <1>5, <1>6
  <2> QED
    BY <2>1, <2>2
<1> QED
  BY <1>4, <1>6

\* The lottery is exact when the tickets of all slots fit in an int.
LEMMA DrawIsExact ==
  ASSUME NEW m \in Nat, NPROC * m <= IntMax, Ready(m)
  PROVE  LotteryExact
<1>1. NPROC \in Nat
  BY LotteryAssumption
<1>2. PICK f : Upto(f)
  BY UptoExists
<1>3. TotalTickets = f[NPROC] /\ NPROC \in 0..NPROC
  BY <1>1, <1>2, TotalIs
<1>4. \A k \in 0..NPROC : f[k] \in Int
  BY <1>2 DEF Upto
<1>5. ASSUME NEW p \in Slot
      PROVE  /\ p - 1 \in 0..NPROC /\ p \in 0..NPROC
             /\ 0 <= f[p - 1] /\ f[p] <= TotalTickets
             /\ p \in Runnable => f[p] = f[p - 1] + tickets[p] /\ tickets[p] >= 1
             /\ tickets[p] \in Nat
  <2>1. p \in 1..NPROC /\ p - 1 \in 0..NPROC /\ p \in 0..NPROC
        /\ 0 \in 0..NPROC /\ p - 1 \in 0..NPROC /\ NPROC \in p..NPROC
    BY <1>1 DEF Slot
  <2>2. f[0] <= f[p - 1] /\ f[p] <= f[NPROC]
    BY <1>2, <2>1, UptoGrows
  <2> QED
    BY <1>2, <1>3, <2>1, <2>2 DEF Upto, Ready
<1>6. Runnable # {} => TotalTickets > 0
  <2> SUFFICES ASSUME NEW p \in Runnable PROVE TotalTickets > 0
    OBVIOUS
  <2>1. p \in Slot
    BY DEF Runnable
  <2> QED
    BY <1>3, <1>4, <1>5, <2>1
<1>7. ASSUME NEW p \in Slot
      PROVE  Cardinality({w \in 0..(TotalTickets - 1) : Wins(w, p)}) =
                 IF p \in Runnable THEN tickets[p] ELSE 0
  <2>1. TotalTickets \in Int
    BY <1>3, <1>4
  <2>2. \A w \in 0..(TotalTickets - 1) :
           Wins(w, p) <=> p \in Runnable /\ f[p - 1] <= w /\ w < f[p]
    BY <1>2, <2>1, WinsIs
  <2>3. CASE p \notin Runnable
    <3>1. {w \in 0..(TotalTickets - 1) : Wins(w, p)} = {}
      BY <2>2, <2>3
    <3> QED
      BY <2>3, <3>1, FS_EmptySet
  <2>4. CASE p \in Runnable
    <3> DEFINE a == f[p - 1]
               b == f[p] - 1
    <3>1. a \in Int /\ b \in Int /\ 0 <= a /\ b <= TotalTickets - 1
          /\ b - a + 1 = tickets[p] /\ ~(a > b)
      BY <1>4, <1>5, <2>1, <2>4
    <3>2. {w \in 0..(TotalTickets - 1) : Wins(w, p)} = a..b
      <4>1. \A w \in 0..(TotalTickets - 1) : Wins(w, p) <=> a <= w /\ w <= b
        BY <1>4, <1>5, <2>1, <2>2, <2>4
      <4> HIDE DEF a, b
      <4> QED
        BY <2>1, <3>1, <4>1
    <3> HIDE DEF a, b
    <3>3. Cardinality(a..b) = IF a > b THEN 0 ELSE b - a + 1
      BY <3>1, FS_Interval
    <3> QED
      BY <2>4, <3>1, <3>2, <3>3
  <2> QED
    BY <2>3, <2>4
<1> QED
  BY <1>6, <1>7 DEF LotteryExact

\* Nobody gets more tickets than settickets() was ever asked for.
LEMMA TicketsBelow ==
  ASSUME NEW m \in Nat \ {0}, TicketArgs \subseteq (-IntMax - 1)..m
  PROVE  Sound /\ Below(m) /\ [Next]_vars => Below(m)'
<1> SUFFICES ASSUME Sound, Below(m), [Next]_vars PROVE Below(m)'
  OBVIOUS
<1>1. CASE tickets' = tickets
  BY <1>1 DEF Below
<1>2. ASSUME NEW c \in CPUS, SetTickets(c) PROVE Below(m)'
  <2>1. PICK n \in TicketArgs : tickets' = [tickets EXCEPT ![proc[c]] = n]
    BY <1>2 DEF SetTickets
  <2>2. n <= m
    BY LotteryAssumption
  <2> QED
    BY <2>1, <2>2 DEF Below, Sound, TypeOK
<1>3. ASSUME NEW c \in CPUS, ForkAlloc(c) PROVE Below(m)'
  <2>1. PICK q \in Slot : tickets' = [tickets EXCEPT ![q] = tickets[proc[c]]]
    BY <1>3 DEF ForkAlloc
  <2>2. proc[c] \in Slot
    BY <1>3 DEF ForkAlloc, Running, Sound, TypeOK
  <2> QED
    BY <2>1, <2>2 DEF Below, Sound, TypeOK
<1>4. ASSUME NEW c \in CPUS, \/ Schedule(c) \/ TimerTick(c) \/ ForkEnd(c) \/ Sleep(c) \/ Exit(c)
                             \/ \E p \in Slot : Reap(c, p)
      PROVE  tickets' = tickets
  BY <1>4 DEF Schedule, TimerTick, ForkEnd, Sleep, Exit, Reap, tallies
<1>5. ASSUME NEW p \in Slot, Wakeup(p) PROVE tickets' = tickets
  BY <1>5 DEF Wakeup, tallies
<1>6. ASSUME UNCHANGED vars PROVE tickets' = tickets
  BY <1>6 DEF vars, tallies
<1> QED
  BY <1>1, <1>2, <1>3, <1>4, <1>5, <1>6 DEF Next

\* The draw is exact in every state, if no settickets() asks for more than m
\* tickets and as many for every slot fit in an int (the sum of the code wraps
\* otherwise): a process that can run is found, and each wins on exactly as
\* many values of winner as it holds tickets.
\* A_xv6_patched/kernel/proc.c: scheduler().
THEOREM DrawExact ==
  ASSUME NEW m \in Nat \ {0}, TicketArgs \subseteq (-IntMax - 1)..m, NPROC * m <= IntMax
  PROVE  Spec => []LotteryExact
<1>1. Init => Below(m)
  BY DEF Init, Below
<1>2. Sound /\ Below(m) /\ [Next]_vars => Below(m)'
  BY TicketsBelow
<1>3. Sound /\ Below(m) => LotteryExact
  <2> SUFFICES ASSUME Sound, Below(m) PROVE LotteryExact
    OBVIOUS
  <2>1. \A p \in Slot : tickets[p] \in Nat /\ tickets[p] <= m
    BY LotteryAssumption DEF Sound, TypeOK, Below
  <2>2. Ready(m)
    BY <2>1 DEF Sound, TicketsOK, Ready, Runnable
  <2> QED
    BY <2>2, DrawIsExact
<1> QED
  BY LotterySound, <1>1, <1>2, <1>3, PTL DEF Spec

=============================================================================
