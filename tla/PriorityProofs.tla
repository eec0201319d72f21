--------------------------- MODULE PriorityProofs ---------------------------
(***************************************************************************)
(* Proofs about the priority scheduler, for any number of slots and CPUs   *)
(* and any arguments of setpriority().                                     *)
(***************************************************************************)
EXTENDS Priority, NatLemmas, TLAPS

----------------------------------------------------------------------------
(***************************************************************************)
(* The slots of the search.                                                *)
(***************************************************************************)

\* The last two loops stay in the table ...
LEMMA SlotAtInTable ==
  ASSUME last_sched \in Slot \cup {Nil}, NEW k \in Int
  PROVE  SlotAt(k) \in Slot
<1> DEFINE a == last_sched + k - NPROC
<1>1. a \in Int /\ NPROC \in Nat \ {0}
  BY PriorityAssumption DEF Slot, Nil
<1> HIDE DEF a
<1>2. a % NPROC \in 0..(NPROC - 1)
  BY <1>1, ModRange
<1>3. (a % NPROC) + 1 \in 1..NPROC
  BY <1>1, <1>2
<1> QED
  BY <1>3 DEF SlotAt, Slot, a

\* ... and between them pass every slot of it.
LEMMA EverySlotPassed ==
  ASSUME last_sched \in Slot \cup {Nil}, NEW s \in Slot
  PROVE  \E k \in NPROC..(2 * NPROC - 1) : SlotAt(k) = s
<1>1. NPROC \in Nat \ {0} /\ last_sched \in 0..NPROC /\ s \in 1..NPROC
  BY PriorityAssumption DEF Slot, Nil
<1>2. CASE last_sched < s
  <2> DEFINE k == NPROC + s - 1 - last_sched
  <2>1. k \in NPROC..(2 * NPROC - 1) /\ last_sched + k - NPROC = s - 1
    BY <1>1, <1>2
  <2> HIDE DEF k
  <2>2. s - 1 \in 0..(NPROC - 1) /\ (s - 1) + 1 = s
    BY <1>1
  <2>3. (s - 1) % NPROC = s - 1
    BY <1>1, <2>2, ModBelow
  <2>4. SlotAt(k) = s
    BY <2>1, <2>2, <2>3 DEF SlotAt
  <2> QED
    BY <2>1, <2>4
<1>3. CASE ~(last_sched < s)
  <2> DEFINE k == 2 * NPROC + s - 1 - last_sched
  <2>1. k \in NPROC..(2 * NPROC - 1) /\ last_sched + k - NPROC = NPROC + s - 1
    BY <1>1, <1>3
  <2> HIDE DEF k
  <2>2. NPROC + s - 1 \in NPROC..(2 * NPROC - 1)
    BY <1>1
  <2>3. (NPROC + s - 1) % NPROC = (NPROC + s - 1) - NPROC
    BY <1>1, <2>2, ModAbove
  <2>4. ((NPROC + s - 1) - NPROC) + 1 = s
    BY <1>1
  <2>5. SlotAt(k) = s
    BY <2>1, <2>3, <2>4 DEF SlotAt
  <2> QED
    BY <2>1, <2>5
<1> QED
  BY <1>2, <1>3

----------------------------------------------------------------------------
(***************************************************************************)
(* Types.                                                                  *)
(***************************************************************************)

\* Every initial state is well typed.
LEMMA InitTypeOK == Init => TypeOK
  BY PriorityAssumption DEF Init, TypeOK, Slot, Nil, NoneFound

\* Every step keeps the types: setpriority() refuses what is out of range,
\* and fork() copies a priority that is in range.
LEMMA NextTypeOK == TypeOK /\ [Next]_vars => TypeOK'
<1> SUFFICES ASSUME TypeOK, [Next]_vars
             PROVE  TypeOK'
  OBVIOUS
<1> USE DEF TypeOK
<1> Nil \notin Slot
  BY DEF Slot, Nil
<1>leave. ASSUME NEW c \in CPUS, NEW st \in {"RUNNABLE", "SLEEPING", "ZOMBIE"},
                 proc[c] # Nil, Leave(c, st)
          PROVE  /\ state' \in [Slot -> {"UNUSED", "EMBRYO", "SLEEPING", "RUNNABLE",
                                         "RUNNING", "ZOMBIE"}]
                 /\ last_sched' \in Slot \cup {Nil}
                 /\ proc' \in [CPUS -> Slot \cup {Nil}]
                 /\ np' \in [Slot -> Slot \cup {Nil}]
                 /\ UNCHANGED search
  BY <1>leave DEF Leave
<1> NPROC \in Nat \ {0} /\ MaxPrio \in Nat
  BY PriorityAssumption
<1>end. ASSUME SearchEnd
        PROVE  /\ searcher' \in CPUS \cup {Nil} /\ turn' \in 0..(2 * NPROC)
               /\ highest_priority' \in 0..NoneFound /\ before' \subseteq Slot
  BY <1>end DEF SearchEnd, NoneFound
<1>a. ASSUME NEW c \in CPUS, SearchStart(c) PROVE TypeOK'
  BY <1>a DEF SearchStart, table, NoneFound, Runnable
<1>b. ASSUME NEW c \in CPUS, Compare(c) PROVE TypeOK'
  <2>1. turn + 1 \in Slot /\ turn' \in 0..(2 * NPROC)
    BY <1>b DEF Compare, Slot
  <2>2. highest_priority' \in 0..NoneFound
    BY <1>b, <2>1 DEF Compare, NoneFound
  <2> QED
    BY <1>b, <2>1, <2>2 DEF Compare, table
<1>c. ASSUME NEW c \in CPUS, Pass(c) PROVE TypeOK'
  <2>1. turn' \in 0..(2 * NPROC)
    BY <1>c DEF Pass
  <2> QED
    BY <1>c, <2>1 DEF Pass, table
<1>d. ASSUME NEW c \in CPUS, Idle(c) PROVE TypeOK'
  BY <1>d, <1>end DEF Idle, table
<1>1. ASSUME NEW c \in CPUS, Schedule(c) PROVE TypeOK'
  <2>1. SlotAt(turn) \in Slot
    BY SlotAtInTable
  <2> QED
    BY <1>1, <1>end, <2>1 DEF Schedule
<1>2. ASSUME NEW c \in CPUS, Yield(c) PROVE TypeOK'
  BY <1>2, <1>leave DEF Yield, search
<1>3. ASSUME NEW c \in CPUS, Sleep(c) PROVE TypeOK'
  BY <1>3, <1>leave DEF Sleep, Running, search
<1>4. ASSUME NEW c \in CPUS, Exit(c) PROVE TypeOK'
  BY <1>4, <1>leave DEF Exit, Running, search
<1>5. ASSUME NEW c \in CPUS, SetPriority(c) PROVE TypeOK'
  <2>1. PICK n \in PrioArgs :
          /\ ~(n < 0 \/ n > MaxPrio)
          /\ priority' = [priority EXCEPT ![proc[c]] = n]
          /\ \/ Leave(c, "RUNNABLE")
             \/ UNCHANGED <<state, proc, last_sched, np, search>>
    BY <1>5 DEF SetPriority, Accepts
  <2>2. n \in 0..MaxPrio
    BY <2>1, PriorityAssumption
  <2>3. priority' \in [Slot -> 0..MaxPrio]
    BY <2>1, <2>2
  <2>4. CASE Leave(c, "RUNNABLE")
    BY <1>5, <1>leave, <2>3, <2>4 DEF SetPriority, Running, search
  <2>5. CASE UNCHANGED <<state, proc, last_sched, np, search>>
    BY <2>3, <2>5 DEF search
  <2> QED
    BY <2>1, <2>4, <2>5
<1>6. ASSUME NEW c \in CPUS, ForkAlloc(c) PROVE TypeOK'
  BY <1>6, PriorityAssumption DEF ForkAlloc, Running, search
<1>7. ASSUME NEW c \in CPUS, ForkPublish(c) PROVE TypeOK'
  BY <1>7 DEF ForkPublish, search
<1>8. ASSUME NEW c \in CPUS, ForkFail(c) PROVE TypeOK'
  BY <1>8 DEF ForkFail, search
<1>9. ASSUME NEW c \in CPUS, NEW p \in Slot, Reap(c, p) PROVE TypeOK'
  BY <1>9 DEF Reap, search
<1>10. ASSUME NEW p \in Slot, Wakeup(p) PROVE TypeOK'
  BY <1>10 DEF Wakeup, search
<1>11. CASE UNCHANGED vars
  BY <1>11 DEF vars, table, search
<1> QED
  BY <1>1, <1>2, <1>3, <1>4, <1>5, <1>6, <1>7, <1>8, <1>9, <1>10, <1>11,
     <1>a, <1>b, <1>c, <1>d DEF Next, Search

----------------------------------------------------------------------------
(***************************************************************************)
(* Who owns a slot.                                                        *)
(***************************************************************************)

\* A process is RUNNING on one CPU or not at all, the EMBRYO slot that a
\* fork() sets up is its own, and the CPU that searches runs nobody.
SlotsOwned ==
  /\ \A s \in Slot : state[s] = "RUNNING" <=> \E c \in CPUS : proc[c] = s
  /\ \A c, d \in CPUS : proc[c] = proc[d] /\ proc[c] # Nil => c = d
  /\ \A s \in Slot : np[s] # Nil =>
        state[np[s]] = "EMBRYO" /\ state[s] \in {"RUNNING", "RUNNABLE"}
  /\ \A s, t \in Slot : np[s] = np[t] /\ np[s] # Nil => s = t
  /\ searcher # Nil => proc[searcher] = Nil

\* Initially nobody runs and nobody forks.
LEMMA InitSlotsOwned == Init => SlotsOwned
  BY PriorityAssumption DEF Init, SlotsOwned, Slot, Nil

\* The process on a CPU is the only one there, and RUNNING.
LEMMA OnCpu ==
  ASSUME TypeOK, SlotsOwned, NEW c \in CPUS, proc[c] # Nil
  PROVE  /\ proc[c] \in Slot /\ state[proc[c]] = "RUNNING"
         /\ \A d \in CPUS \ {c} : proc[d] # proc[c]
  BY DEF TypeOK, SlotsOwned, Slot, Nil

\* A process that leaves its CPU keeps the slots owned, if a forking one stays
\* RUNNABLE.
LEMMA LeaveSlotsOwned ==
  ASSUME TypeOK, SlotsOwned, NEW c \in CPUS, proc[c] # Nil,
         NEW st \in {"RUNNABLE", "SLEEPING", "ZOMBIE"}, Leave(c, st),
         np[proc[c]] = Nil \/ st = "RUNNABLE"
  PROVE  SlotsOwned'
<1> USE DEF TypeOK
<1>1. /\ proc[c] \in Slot /\ state[proc[c]] = "RUNNING" /\ Nil \notin Slot
      /\ \A d \in CPUS \ {c} : proc[d] # proc[c]
  BY OnCpu DEF Slot, Nil
<1>2. /\ state' = [state EXCEPT ![proc[c]] = st]
      /\ proc' = [proc EXCEPT ![c] = Nil] /\ np' = np
      /\ searcher' = Nil
  BY DEF Leave, Unlocked, search
<1>3. \A s \in Slot : state'[s] = "RUNNING" <=> \E d \in CPUS : proc'[d] = s
  BY <1>1, <1>2 DEF SlotsOwned
<1>4. \A d, e \in CPUS : proc'[d] = proc'[e] /\ proc'[d] # Nil => d = e
  BY <1>1, <1>2 DEF SlotsOwned
<1>5. \A s \in Slot : np'[s] # Nil =>
         state'[np'[s]] = "EMBRYO" /\ state'[s] \in {"RUNNING", "RUNNABLE"}
  BY <1>1, <1>2 DEF SlotsOwned
<1> QED
  BY <1>2, <1>3, <1>4, <1>5 DEF SlotsOwned

\* Every step keeps the slots owned.
LEMMA NextSlotsOwned == TypeOK /\ SlotsOwned /\ [Next]_vars => SlotsOwned'
<1> SUFFICES ASSUME TypeOK, SlotsOwned, [Next]_vars
             PROVE  SlotsOwned'
  OBVIOUS
<1> Nil \notin Slot
  BY DEF Slot, Nil
<1> \A c \in CPUS : c # Nil
  BY PriorityAssumption DEF Nil
<1>a. ASSUME NEW c \in CPUS, SearchStart(c) \/ Compare(c) \/ Pass(c) \/ Idle(c)
      PROVE  SlotsOwned'
  BY <1>a DEF SearchStart, Compare, Pass, Idle, SearchEnd, table, SlotsOwned
<1>1. ASSUME NEW c \in CPUS, Schedule(c) PROVE SlotsOwned'
  <2>0. SlotAt(turn) \in Slot
    BY SlotAtInTable, PriorityAssumption DEF TypeOK
  <2>1. PICK p \in Slot :
          /\ state[p] = "RUNNABLE"
          /\ proc' = [proc EXCEPT ![c] = p]
          /\ state' = [state EXCEPT ![p] = "RUNNING"]
    BY <1>1, <2>0 DEF Schedule, Matches
  <2>2. proc[c] = Nil /\ np' = np /\ \A d \in CPUS : proc[d] # p
    BY <1>1, <2>1 DEF Schedule, SlotsOwned
  <2> QED
    BY <1>1, <2>1, <2>2 DEF SlotsOwned, TypeOK, Schedule, SearchEnd
<1>2. ASSUME NEW c \in CPUS, Yield(c) PROVE SlotsOwned'
  BY <1>2, LeaveSlotsOwned DEF Yield
<1>3. ASSUME NEW c \in CPUS, Sleep(c) PROVE SlotsOwned'
  BY <1>3, LeaveSlotsOwned DEF Sleep, Running
<1>4. ASSUME NEW c \in CPUS, Exit(c) PROVE SlotsOwned'
  BY <1>4, LeaveSlotsOwned DEF Exit, Running
<1>5. ASSUME NEW c \in CPUS, SetPriority(c) PROVE SlotsOwned'
  <2>1. Leave(c, "RUNNABLE") \/ UNCHANGED <<state, proc, np, searcher>>
    BY <1>5 DEF SetPriority, search
  <2>2. CASE Leave(c, "RUNNABLE")
    BY <1>5, <2>2, LeaveSlotsOwned DEF SetPriority, Running
  <2>3. CASE UNCHANGED <<state, proc, np, searcher>>
    BY <2>3 DEF SlotsOwned
  <2> QED
    BY <2>1, <2>2, <2>3
<1>6. ASSUME NEW c \in CPUS, ForkAlloc(c) PROVE SlotsOwned'
  <2>1. /\ proc[c] \in Slot /\ state[proc[c]] = "RUNNING" /\ np[proc[c]] = Nil
    BY <1>6, OnCpu DEF ForkAlloc, Running
  <2>2. PICK q \in Slot :
          /\ state[q] = "UNUSED"
          /\ state' = [state EXCEPT ![q] = "EMBRYO"]
          /\ np' = [np EXCEPT ![proc[c]] = q] /\ proc' = proc /\ searcher' = searcher
    BY <1>6 DEF ForkAlloc, search
  <2>3. \A s \in Slot : np[s] # q
    BY <2>2 DEF SlotsOwned
  <2> QED
    BY <2>1, <2>2, <2>3 DEF SlotsOwned, TypeOK
<1>7. ASSUME NEW c \in CPUS, ForkPublish(c) \/ ForkFail(c) PROVE SlotsOwned'
  <2>1. /\ proc[c] \in Slot /\ state[proc[c]] = "RUNNING" /\ np[proc[c]] # Nil
    BY <1>7, OnCpu DEF ForkPublish, ForkFail
  <2>2. PICK st \in {"RUNNABLE", "UNUSED"} :
          /\ state' = [state EXCEPT ![np[proc[c]]] = st]
          /\ np' = [np EXCEPT ![proc[c]] = Nil] /\ proc' = proc /\ searcher' = searcher
    BY <1>7 DEF ForkPublish, ForkFail, search
  <2>3. /\ np[proc[c]] \in Slot /\ state[np[proc[c]]] = "EMBRYO"
        /\ \A s \in Slot \ {proc[c]} : np[s] # np[proc[c]]
    BY <2>1 DEF SlotsOwned, TypeOK
  <2>4. \A s \in Slot : state'[s] = "RUNNING" <=> \E d \in CPUS : proc'[d] = s
    BY <2>2, <2>3 DEF SlotsOwned, TypeOK
  <2>5. \A s \in Slot : np'[s] # Nil =>
          state'[np'[s]] = "EMBRYO" /\ state'[s] \in {"RUNNING", "RUNNABLE"}
    BY <2>1, <2>2, <2>3 DEF SlotsOwned, TypeOK
  <2> QED
    BY <2>1, <2>2, <2>4, <2>5 DEF SlotsOwned, TypeOK
<1>8. ASSUME NEW p \in Slot, Wakeup(p) PROVE SlotsOwned'
  BY <1>8 DEF Wakeup, SlotsOwned, TypeOK, search
<1>9. ASSUME NEW c \in CPUS, NEW p \in Slot, Reap(c, p) PROVE SlotsOwned'
  BY <1>9 DEF Reap, SlotsOwned, TypeOK, search
<1>10. CASE UNCHANGED vars
  BY <1>10 DEF vars, table, search, SlotsOwned
<1> QED
  BY <1>1, <1>2, <1>3, <1>4, <1>5, <1>6, <1>7, <1>8, <1>9, <1>10, <1>a
     DEF Next, Search

----------------------------------------------------------------------------
(***************************************************************************)
(* The search of scheduler().                                              *)
(***************************************************************************)

\* A slot with the value the search looks for is still ahead of it, and the
\* processes it set out with are where they were and no better.
SearchKept ==
  searcher # Nil =>
    /\ \A q \in before : /\ state[q] = "RUNNABLE"
                         /\ q <= turn => highest_priority <= priority[q]
    /\ \/ highest_priority = NoneFound
       \/ turn < NPROC /\ \E s \in Slot : Matches(s)
       \/ \E k \in NPROC..(2 * NPROC - 1) : turn <= k /\ Matches(SlotAt(k))

\* Initially nobody searches.
LEMMA InitSearchKept == Init => SearchKept
  BY DEF Init, SearchKept

\* A CPU takes the lock: the first loop is ahead.
LEMMA SearchStartKept ==
  ASSUME TypeOK, NEW c \in CPUS, SearchStart(c)
  PROVE  SearchKept'
<1>1. \A q \in Slot : ~(q <= 0)
  BY DEF Slot
<1> QED
  BY <1>1, PriorityAssumption DEF SearchStart, SearchKept, table, Runnable, NoneFound

\* The first loop compares one more slot.
LEMMA CompareKept ==
  ASSUME TypeOK, SearchKept, NEW c \in CPUS, Compare(c)
  PROVE  SearchKept'
<1> USE DEF TypeOK
<1> c # Nil /\ NPROC \in Nat \ {0} /\ MaxPrio \in Nat
  BY PriorityAssumption DEF Nil
<1>1. /\ searcher = c /\ turn \in 0..(NPROC - 1) /\ turn' = turn + 1
      /\ turn + 1 \in Slot /\ turn \in Int
      /\ highest_priority' = IF Better(turn + 1) THEN priority[turn + 1]
                             ELSE highest_priority
      /\ UNCHANGED <<state, priority, last_sched, searcher, before>>
  BY DEF Compare, table, Slot
<1>2. \A q \in Slot : q \in Int /\ priority[q] \in Int
  BY DEF Slot
<1>3. highest_priority \in Int /\ highest_priority' \in Int
  BY <1>1, <1>2 DEF NoneFound
<1>4. highest_priority' <= highest_priority
  BY <1>1, <1>2, <1>3 DEF Better
<1>5. ASSUME NEW q \in before
      PROVE  /\ state'[q] = "RUNNABLE"
             /\ q <= turn' => highest_priority' <= priority'[q]
  <2>1. state[q] = "RUNNABLE" /\ (q <= turn => highest_priority <= priority[q])
    BY <1>1 DEF SearchKept
  <2>2. q \in Slot
    OBVIOUS
  <2>3. CASE q <= turn
    BY <1>1, <1>2, <1>3, <1>4, <2>1, <2>2, <2>3
  <2>4. CASE ~(q <= turn)
    <3>1. q <= turn' => q = turn + 1
      BY <1>1, <1>2, <2>2, <2>4
    <3>2. highest_priority' <= priority[turn + 1] \/ state[turn + 1] # "RUNNABLE"
      BY <1>1, <1>2, <1>3 DEF Better
    <3> QED
      BY <1>1, <2>1, <3>1, <3>2
  <2> QED
    BY <2>3, <2>4
<1>6. highest_priority' = NoneFound \/ \E s \in Slot : Matches(s)'
  <2>1. CASE Better(turn + 1)
    BY <1>1, <2>1 DEF Better, Matches
  <2>2. CASE ~Better(turn + 1)
    <3>1. highest_priority = NoneFound \/ \E s \in Slot : Matches(s)
      BY <1>1, SlotAtInTable DEF SearchKept
    <3> QED
      BY <1>1, <2>2, <3>1 DEF Matches
  <2> QED
    BY <2>1, <2>2
<1>7. turn' < NPROC \/ turn' = NPROC
  BY <1>1
<1>8. ASSUME turn' = NPROC, NEW s \in Slot, Matches(s)'
      PROVE  \E k \in NPROC..(2 * NPROC - 1) : turn' <= k /\ Matches(SlotAt(k))'
  <2>1. PICK k \in NPROC..(2 * NPROC - 1) : SlotAt(k) = s
    BY EverySlotPassed
  <2>2. SlotAt(k)' = s
    BY <1>1, <2>1 DEF SlotAt
  <2>3. turn' <= k
    BY <1>8
  <2> QED
    BY <1>8, <2>2, <2>3 DEF Matches
<1>9. \/ highest_priority' = NoneFound
      \/ turn' < NPROC /\ \E s \in Slot : Matches(s)'
      \/ \E k \in NPROC..(2 * NPROC - 1) : turn' <= k /\ Matches(SlotAt(k))'
  BY <1>6, <1>7, <1>8
<1> HIDE DEF TypeOK
<1> QED
  BY <1>1, <1>5, <1>9 DEF SearchKept, NoneFound

\* The other loops pass a slot that is not the one they look for.
LEMMA PassKept ==
  ASSUME TypeOK, SearchKept, NEW c \in CPUS, Pass(c)
  PROVE  SearchKept'
<1> USE DEF TypeOK
<1> c # Nil /\ NPROC \in Nat \ {0}
  BY PriorityAssumption DEF Nil
<1>1. /\ searcher = c /\ turn \in NPROC..(2 * NPROC - 1) /\ turn' = turn + 1
      /\ ~Matches(SlotAt(turn)) /\ turn \in Int
      /\ UNCHANGED <<state, priority, last_sched, highest_priority, searcher, before>>
  BY DEF Pass, table
<1>2. \A q \in before : q \in Int /\ q <= turn
  BY <1>1 DEF Slot
<1>3. \A k \in NPROC..(2 * NPROC - 1) :
         turn <= k /\ Matches(SlotAt(k)) => turn' <= k /\ Matches(SlotAt(k))'
  <2> SUFFICES ASSUME NEW k \in NPROC..(2 * NPROC - 1), turn <= k, Matches(SlotAt(k))
               PROVE  turn' <= k /\ Matches(SlotAt(k))'
    OBVIOUS
  <2>1. turn # k
    BY <1>1
  <2>2. turn' <= k
    BY <1>1, <2>1
  <2>3. Matches(SlotAt(k))'
    BY <1>1 DEF Matches, SlotAt
  <2> QED
    BY <2>2, <2>3
<1>4. ~(turn < NPROC)
  BY <1>1
<1> QED
  BY <1>1, <1>2, <1>3, <1>4 DEF SearchKept

\* A step of the other CPUs that leaves runnable processes alone does not
\* disturb the search.
LEMMA OthersKept ==
  ASSUME TypeOK, SearchKept, UNCHANGED search,
         searcher # Nil =>
           /\ last_sched' = last_sched
           /\ \A s \in Slot : state[s] = "RUNNABLE" =>
                 state'[s] = state[s] /\ priority'[s] = priority[s]
  PROVE  SearchKept'
<1> SUFFICES ASSUME searcher # Nil PROVE SearchKept'
  BY DEF SearchKept, search
<1>1. UNCHANGED <<searcher, turn, highest_priority, before, last_sched>>
  BY DEF search
<1>2. \A s \in Slot : Matches(s) => Matches(s)'
  BY <1>1 DEF Matches
<1>3. \A q \in before : q \in Slot
  BY DEF TypeOK
<1>4. \A k \in NPROC..(2 * NPROC - 1) : Matches(SlotAt(k)) => Matches(SlotAt(k))'
  <2> TAKE k \in NPROC..(2 * NPROC - 1)
  <2>1. k \in Int
    BY PriorityAssumption
  <2>2. SlotAt(k) \in Slot /\ SlotAt(k)' = SlotAt(k)
    BY <1>1, <2>1, SlotAtInTable DEF TypeOK, SlotAt
  <2>3. Matches(SlotAt(k))' = (state'[SlotAt(k)] = "RUNNABLE" /\ priority'[SlotAt(k)] = highest_priority')
    BY <2>2 DEF Matches
  <2> QED
    BY <1>1, <2>2, <2>3 DEF Matches
<1> QED
  BY <1>1, <1>2, <1>3, <1>4 DEF SearchKept

\* Every step keeps it: only ForkPublish() and ForkFail() do not wait for the
\* lock, and they change an EMBRYO slot.
LEMMA NextSearchKept == TypeOK /\ SlotsOwned /\ SearchKept /\ [Next]_vars => SearchKept'
<1> SUFFICES ASSUME TypeOK, SlotsOwned, SearchKept, [Next]_vars
             PROVE  SearchKept'
  OBVIOUS
<1>1. ASSUME NEW c \in CPUS, Search(c) PROVE SearchKept'
  <2>1. CASE Compare(c)
    BY <2>1, CompareKept
  <2>2. CASE Pass(c)
    BY <2>2, PassKept
  <2>3. CASE Schedule(c) \/ Idle(c)
    BY <2>3 DEF Schedule, Idle, SearchEnd, SearchKept
  <2> QED
    BY <1>1, <2>1, <2>2, <2>3 DEF Search
<1>2. ASSUME NEW c \in CPUS, SearchStart(c) PROVE SearchKept'
  BY <1>2, SearchStartKept
<1>3. ASSUME NEW c \in CPUS, ForkPublish(c) \/ ForkFail(c) PROVE SearchKept'
  <2>1. proc[c] \in Slot /\ np[proc[c]] # Nil
    BY <1>3, OnCpu DEF ForkPublish, ForkFail
  <2>2. state[np[proc[c]]] = "EMBRYO"
    BY <2>1 DEF SlotsOwned
  <2>3. UNCHANGED search /\ last_sched' = last_sched
    BY <1>3 DEF ForkPublish, ForkFail
  <2>4. \A s \in Slot : state[s] = "RUNNABLE" =>
          state'[s] = state[s] /\ priority'[s] = priority[s]
    BY <1>3, <2>2 DEF ForkPublish, ForkFail, TypeOK
  <2> QED
    BY <2>3, <2>4, OthersKept
<1>4. ASSUME NEW c \in CPUS,
             \/ Yield(c) \/ Sleep(c) \/ Exit(c) \/ SetPriority(c) \/ ForkAlloc(c)
             \/ \E p \in Slot : Reap(c, p)
      PROVE  SearchKept'
  <2>1. Unlocked /\ UNCHANGED search
    BY <1>4 DEF Yield, Sleep, Exit, SetPriority, ForkAlloc, Reap, Leave
  <2> QED
    BY <2>1 DEF Unlocked, SearchKept, search
<1>5. ASSUME NEW p \in Slot, Wakeup(p) PROVE SearchKept'
  BY <1>5 DEF Wakeup, Unlocked, SearchKept, search
<1>6. CASE UNCHANGED vars
  BY <1>6, OthersKept DEF vars, table
<1> QED
  BY <1>1, <1>2, <1>3, <1>4, <1>5, <1>6 DEF Next

\* At the end of the search nobody it set out with is left waiting.
LEMMA SearchPicks == TypeOK /\ SearchKept => WorkConserving
<1> SUFFICES ASSUME TypeOK, SearchKept, searcher # Nil, turn = 2 * NPROC,
                    NEW q \in before
             PROVE  FALSE
  BY DEF WorkConserving
<1> NPROC \in Nat \ {0} /\ MaxPrio \in Nat
  BY PriorityAssumption
<1>1. q \in Slot /\ q <= turn /\ priority[q] \in 0..MaxPrio
  BY DEF TypeOK, Slot
<1>2. highest_priority <= priority[q] /\ highest_priority \in Int
  BY <1>1 DEF SearchKept, TypeOK, NoneFound
<1>3. highest_priority # NoneFound
  BY <1>1, <1>2 DEF NoneFound
<1>4. ~(turn < NPROC) /\ \A k \in NPROC..(2 * NPROC - 1) : ~(turn <= k)
  OBVIOUS
<1> QED
  BY <1>3, <1>4 DEF SearchKept

----------------------------------------------------------------------------
(***************************************************************************)
(* Theorems.                                                               *)
(***************************************************************************)

\* Variables keep their types: no call of setpriority() or fork(), whatever
\* its argument, takes a priority out of 0..MaxPrio.
THEOREM TypeCorrect == Spec => []TypeOK
<1>1. Init => TypeOK
  BY InitTypeOK
<1>2. TypeOK /\ [Next]_vars => TypeOK'
  BY NextTypeOK
<1> QED
  BY <1>1, <1>2, PTL DEF Spec

\* No two CPUs run the same process, and nobody else's slot is set up or
\* published by a fork(), although tree B's fork() publishes its child without
\* ptable.lock.
THEOREM SlotsKept == Spec => []SlotsOwned
<1>1. Init => SlotsOwned
  BY InitSlotsOwned
<1>2. TypeOK /\ SlotsOwned /\ [Next]_vars => SlotsOwned'
  BY NextSlotsOwned
<1> QED
  BY <1>1, <1>2, TypeCorrect, PTL DEF Spec

\* What a search has seen stays true while fork() publishes children.
THEOREM SearchesKept == Spec => []SearchKept
<1>1. Init => SearchKept
  BY InitSearchKept
<1>2. TypeOK /\ SlotsOwned /\ SearchKept /\ [Next]_vars => SearchKept'
  BY NextSearchKept
<1> QED
  BY <1>1, <1>2, TypeCorrect, SlotsKept, PTL DEF Spec

\* A CPU that looks for work while a process is runnable finds one, whatever
\* arguments setpriority() was given and whatever is published meanwhile.
THEOREM AlwaysPicks == Spec => []PickOK
<1>1. TypeOK /\ SearchKept => PickOK
  BY SearchPicks DEF PickOK
<1> QED
  BY <1>1, TypeCorrect, SearchesKept, PTL

\* A process starts to run only if no process that was runnable when the
\* search began has a better priority.
THEOREM NoInversion == Spec => HighestFirst
<1> DEFINE Best == \A p \in Slot : (state[p] = "RUNNABLE" /\ state'[p] = "RUNNING") =>
                     \A q \in before : state[q] = "RUNNABLE" /\ priority[p] <= priority[q]
<1>1. TypeOK /\ SearchKept /\ [Next]_vars => [Best]_vars
  <2> SUFFICES ASSUME TypeOK, SearchKept, Next,
                      NEW p \in Slot, state[p] = "RUNNABLE", state'[p] = "RUNNING",
                      NEW q \in before
               PROVE  state[q] = "RUNNABLE" /\ priority[p] <= priority[q]
    OBVIOUS
  <2> USE DEF TypeOK
  <2> Nil \notin Slot
    BY DEF Slot, Nil
  <2>1. PICK c \in CPUS : Schedule(c)
    <3>1. ASSUME NEW c \in CPUS, proc[c] # Nil,
                 NEW st \in {"RUNNABLE", "SLEEPING", "ZOMBIE"}, Leave(c, st)
          PROVE  FALSE
      BY <3>1 DEF Leave
    <3>2. ASSUME NEW c \in CPUS,
                 \/ Yield(c) \/ Sleep(c) \/ Exit(c) \/ SetPriority(c)
                 \/ ForkAlloc(c) \/ ForkPublish(c) \/ ForkFail(c)
          PROVE  FALSE
      <4>1. ~(Yield(c) \/ Sleep(c) \/ Exit(c))
        BY <3>1 DEF Yield, Sleep, Exit, Running
      <4>2. ~SetPriority(c)
        BY <3>1 DEF SetPriority, Running
      <4>3. ~ForkAlloc(c)
        BY DEF ForkAlloc, Running
      <4>4. ~ForkPublish(c)
        BY DEF ForkPublish
      <4>5. ~ForkFail(c)
        BY DEF ForkFail
      <4> QED
        BY <3>2, <4>1, <4>2, <4>3, <4>4, <4>5
    <3>3. ASSUME NEW r \in Slot, Wakeup(r) \/ \E c \in CPUS : Reap(c, r)
          PROVE  FALSE
      BY <3>3 DEF Wakeup, Reap
    <3>4. ASSUME NEW c \in CPUS, SearchStart(c) \/ Compare(c) \/ Pass(c) \/ Idle(c)
          PROVE  FALSE
      BY <3>4 DEF SearchStart, Compare, Pass, Idle, table
    <3> QED
      BY <3>2, <3>3, <3>4 DEF Next, Search
  <2>2. Matches(SlotAt(turn)) /\ state' = [state EXCEPT ![SlotAt(turn)] = "RUNNING"]
    BY <2>1 DEF Schedule
  <2>3. SlotAt(turn) = p
    BY <2>2
  <2>4. c # Nil /\ searcher = c /\ q <= turn
    BY <2>1, PriorityAssumption DEF Schedule, Slot, Nil
  <2>5. state[q] = "RUNNABLE" /\ highest_priority <= priority[q]
    BY <2>4 DEF SearchKept
  <2> QED
    BY <2>2, <2>3, <2>5 DEF Matches
<1> QED
  BY <1>1, TypeCorrect, SearchesKept, PTL DEF Spec, HighestFirst
=============================================================================
