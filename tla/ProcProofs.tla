----------------------------- MODULE ProcProofs -----------------------------
(***************************************************************************)
(* Proofs about the process table, for any number of slots, CPUs, pids and *)
(* ticks, both trees and every set of events: first the table lock by      *)
(* lock, then the processes as a family.                                   *)
(***************************************************************************)
EXTENDS Pinfo, Integers, FiniteSetTheorems, TLAPS

----------------------------------------------------------------------------
(***************************************************************************)
(* Types.                                                                  *)
(***************************************************************************)

\* The tick counter stays in its range.
LEMMA BumpType ==
  ASSUME NEW n \in Nat
  PROVE  Bump(n) \in 0..(TickMod - 1)
  BY ProcAssumption, SMT DEF Bump

\* Every initial state is well typed.
LEMMA InitTypeOK == Init => TypeOK
  BY ProcAssumption, SMT DEF Init, TypeOK, Slot, Nil, initproc, TicksChan, Threads,
     ProcStates, Points, PLocked, TLocked, Preemptible, InHandler

\* How the constant sets relate.
LEMMA Ranges ==
  /\ Slot \subseteq Threads /\ CPUS \subseteq Threads /\ Slot \subseteq Nat
  /\ Slot \subseteq 0..TicksChan /\ 0 \in 0..TicksChan /\ TicksChan \in 0..TicksChan
  /\ Slot \cap CPUS = {} /\ initproc \in Slot /\ Nil \notin Slot /\ Nil \notin CPUS
  /\ \A s \in Slot : s # TicksChan
  BY ProcAssumption DEF Slot, Threads, TicksChan, initproc, Nil

\* The control points that occur in the actions.
LEMMA PointNames ==
  /\ Preemptible \subseteq Points /\ "loop" \in Preemptible
  /\ {"fork_scan", "fork_pub", "fork_undo", "exit_cs", "exit_zombie",
      "exit_sched", "wait_scan", "wait_sleep", "wait_sched", "wait_ret",
      "kill_cs", "slp_sleep", "slp_sched", "slp_ret", "yield_cs",
      "yield_sched", "yield_ret", "forkret", "tick_wake", "scan", "back",
      "slp_start", "slp_test", "slp_plock", "tick_inc", "tick_wake_acq",
      "user", "sysret", "fork_acq", "fork_kalloc", "fork_copy", "fork_pub_acq",
      "fork_undo_acq", "exit_acq", "wait_acq", "kill_acq", "slp_acq",
      "slp_reacq", "loop", "tick_acq", "trap_end", "yield_acq", "trap_ret",
      "none", "dead", "away"} \subseteq Points
  BY DEF Points, PLocked, TLocked, Preemptible, InHandler

\* A process inside fork() owns an EMBRYO slot.
LEMMA ForkSlot ==
  ASSUME EmbryoOwned, NEW p \in Slot, pc[p] \in ForkOwns
  PROVE  /\ loc[p] \in Slot /\ state[loc[p]] = "EMBRYO"
         /\ pc[loc[p]] = IF pc[p] \in ForkStacked THEN "forkret" ELSE "none"
         /\ \A q \in Slot \ {p} : CallPoint(q) \in ForkOwns => loc[q] # loc[p]
  <1>1. pc[p] \notin InHandler
    BY DEF ForkOwns, InHandler
  <1>2. CallPoint(p) = pc[p]
    BY <1>1 DEF CallPoint
  <1> QED
    BY <1>2 DEF EmbryoOwned

\* Every step keeps the types.
LEMMA NextTypeOK == TypeOK /\ EmbryoOwned /\ [Next]_vars => TypeOK'
  <1> SUFFICES ASSUME TypeOK, EmbryoOwned, [Next]_vars PROVE TypeOK'
    OBVIOUS
  <1> USE PointNames, Ranges DEF TypeOK, vars, ptab, ident, locks, frame, ProcStates
  <1>1. ASSUME NEW c \in CPUS, AcquirePtable(c) PROVE TypeOK'
    BY <1>1, SMT DEF AcquirePtable, PtableFree, PtableAcquires, Goto, At
  <1>2. ASSUME NEW c \in CPUS, AcquireTicks(c) PROVE TypeOK'
    BY <1>2, SMT DEF AcquireTicks, TicksFree, TicksAcquires, Goto, At
  <1>3. ASSUME NEW c \in CPUS, SchedulerRun(c) PROVE TypeOK'
    BY <1>3, SMT DEF SchedulerRun, Goto, At
  <1>4. ASSUME NEW c \in CPUS, SchedulerRelease(c) PROVE TypeOK'
    BY <1>4, SMT DEF SchedulerRelease, Goto, At
  <1>5. ASSUME NEW c \in CPUS, Sched(c) PROVE TypeOK'
    BY <1>5, SMT DEF Sched, Scheds, At
  <1>6. ASSUME NEW c \in CPUS, Syscall(c) PROVE TypeOK'
    BY <1>6, ProcAssumption, SMT DEF Syscall, Goto, At
  <1>7. ASSUME NEW c \in CPUS, SyscallReturn(c) PROVE TypeOK'
    BY <1>7, SMT DEF SyscallReturn, Goto, At
  <1>8. ASSUME NEW c \in CPUS, FaultTrap(c) PROVE TypeOK'
    BY <1>8, SMT DEF FaultTrap, Goto, At
  <1>9. ASSUME NEW c \in CPUS, TimerTrap(c) PROVE TypeOK'
    BY <1>9, SMT DEF TimerTrap, Goto, At
  <1>10. ASSUME NEW c \in CPUS, TickIncrement(c) PROVE TypeOK'
    BY <1>10, BumpType, SMT DEF TickIncrement, Goto, At
  <1>11. ASSUME NEW c \in CPUS, TickWakeup(c) PROVE TypeOK'
    BY <1>11, SMT DEF TickWakeup, Goto, At, Woken
  <1>12. ASSUME NEW c \in CPUS, TrapEnd(c) PROVE TypeOK'
    BY <1>12, SMT DEF TrapEnd, Goto, At, AfterTrap
  <1>13. ASSUME NEW c \in CPUS, TrapReturn(c) PROVE TypeOK'
    BY <1>13, SMT DEF TrapReturn, Goto, At
  <1>14. ASSUME NEW c \in CPUS, Yield(c) PROVE TypeOK'
    BY <1>14, SMT DEF Yield, Goto, At
  <1>15. ASSUME NEW c \in CPUS, ReleaseAfterSwtch(c) PROVE TypeOK'
    BY <1>15, SMT DEF ReleaseAfterSwtch, Goto, At
  <1>16. ASSUME NEW c \in CPUS, AllocprocScan(c) PROVE TypeOK'
    BY <1>16, SMT DEF AllocprocScan, First, FreeSlots, Goto, At
  <1>17. ASSUME NEW c \in CPUS, AllocprocStack(c) PROVE TypeOK'
    <2>1. PICK p \in Slot :
            \/ /\ At(c, p, "fork_kalloc")
               /\ kstack' = [kstack EXCEPT ![loc[p]] = TRUE]
               /\ pc' = [pc EXCEPT ![p] = "fork_copy", ![loc[p]] = "forkret"]
            \/ Goto(c, p, "fork_kalloc", "fork_undo_acq") /\ UNCHANGED kstack
      BY <1>17 DEF AllocprocStack
    <2>2. loc[p] \in Slot
      BY <2>1, ForkSlot DEF Goto, At, ForkOwns
    <2>3. pc' \in [Threads -> Points]
      <3>1. [pc EXCEPT ![p] = "fork_copy"] \in [Threads -> Points]
        OBVIOUS
      <3> QED
        BY <2>1, <2>2, <3>1 DEF Goto
    <2>4. kstack' \in [Slot -> BOOLEAN]
      BY <2>1, <2>2
    <2> QED
      BY <1>17, <2>3, <2>4 DEF AllocprocStack
  <1>18. ASSUME NEW c \in CPUS, ForkCopy(c) PROVE TypeOK'
    <2>1. PICK p \in Slot :
            \/ /\ Goto(c, p, "fork_copy", "fork_pub_acq")
               /\ parent' = [parent EXCEPT ![loc[p]] = p]
               /\ UNCHANGED kstack
            \/ /\ At(c, p, "fork_copy")
               /\ kstack' = [kstack EXCEPT ![loc[p]] = FALSE]
               /\ pc' = [pc EXCEPT ![p] = "fork_undo_acq", ![loc[p]] = "none"]
               /\ UNCHANGED parent
      BY <1>18 DEF ForkCopy
    <2>2. loc[p] \in Slot
      BY <2>1, ForkSlot DEF Goto, At, ForkOwns
    <2>3. pc' \in [Threads -> Points]
      <3>1. [pc EXCEPT ![p] = "fork_undo_acq"] \in [Threads -> Points]
        OBVIOUS
      <3> QED
        BY <2>1, <2>2, <3>1 DEF Goto
    <2>4. kstack' \in [Slot -> BOOLEAN] /\ parent' \in [Slot -> Slot \cup {Nil}]
      BY <2>1, <2>2
    <2> QED
      BY <1>18, <2>3, <2>4 DEF ForkCopy
  <1>19. ASSUME NEW c \in CPUS, ForkEnd(c) PROVE TypeOK'
    <2>1. PICK p \in Slot :
            \/ /\ Goto(c, p, ForkPublishes, "sysret")
               /\ state' = [state EXCEPT ![loc[p]] = "RUNNABLE"]
            \/ /\ Goto(c, p, ForkUndoes, "sysret")
               /\ state' = [state EXCEPT ![loc[p]] = "UNUSED"]
      BY <1>19 DEF ForkEnd
    <2>2. loc[p] \in Slot
      BY <2>1, ForkSlot DEF Goto, At, ForkOwns, ForkPublishes, ForkUndoes
    <2>3. pc' \in [Threads -> Points] /\ state' \in [Slot -> ProcStates]
      BY <2>1, <2>2 DEF Goto
    <2> QED
      BY <1>19, <2>3 DEF ForkEnd
  <1>20. ASSUME NEW c \in CPUS, ExitWakeParent(c) PROVE TypeOK'
    BY <1>20, SMT DEF ExitWakeParent, Goto, At, Woken
  <1>21. ASSUME NEW c \in CPUS, ExitZombie(c) PROVE TypeOK'
    BY <1>21, SMT DEF ExitZombie, Goto, At, Woken, Reparented
  <1>22. ASSUME NEW c \in CPUS, WaitReap(c) PROVE TypeOK'
    BY <1>22, SMT DEF WaitReap, First, At, Children, ZombieChildren
  <1>23. ASSUME NEW c \in CPUS, WaitNone(c) PROVE TypeOK'
    BY <1>23, SMT DEF WaitNone, Goto, At
  <1>24. ASSUME NEW c \in CPUS, WaitChildren(c) PROVE TypeOK'
    BY <1>24, SMT DEF WaitChildren, Goto, At
  <1>25. ASSUME NEW c \in CPUS, WaitSleep(c) PROVE TypeOK'
    BY <1>25, SMT DEF WaitSleep, Goto, At
  <1>26. ASSUME NEW c \in CPUS, WaitWake(c) PROVE TypeOK'
    BY <1>26, SMT DEF WaitWake, Goto, At
  <1>27. ASSUME NEW c \in CPUS, Kill(c) PROVE TypeOK'
    <2>1. PICK p \in Slot :
            /\ Goto(c, p, "kill_cs", "sysret")
            /\ \/ \E q \in Slot :
                    /\ killed' = [killed EXCEPT ![q] = TRUE]
                    /\ state' = [state EXCEPT ![q] = WakeIfAsleep(@)]
               \/ UNCHANGED <<killed, state>>
      BY <1>27 DEF Kill
    <2>2. pc' \in [Threads -> Points]
      BY <2>1 DEF Goto
    <2>3. killed' \in [Slot -> BOOLEAN]
      BY <2>1
    <2>4. state' \in [Slot -> ProcStates]
      BY <2>1 DEF WakeIfAsleep
    <2> QED
      BY <1>27, <2>2, <2>3, <2>4 DEF Kill
  <1>28. ASSUME NEW c \in CPUS, SleepStart(c) PROVE TypeOK'
    BY <1>28, SMT DEF SleepStart, Goto, At
  <1>29. ASSUME NEW c \in CPUS, SleepTest(c) PROVE TypeOK'
    BY <1>29, SMT DEF SleepTest, Goto, At
  <1>30. ASSUME NEW c \in CPUS, Sleep(c) PROVE TypeOK'
    BY <1>30, SMT DEF Sleep, Goto, At
  <1>31. ASSUME NEW c \in CPUS, SleepWake(c) PROVE TypeOK'
    BY <1>31, SMT DEF SleepWake, Goto, At
  <1>32. CASE UNCHANGED vars
    BY <1>32, SMT
  <1> QED
    BY <1>1, <1>2, <1>3, <1>4, <1>5, <1>6, <1>7, <1>8, <1>9, <1>10, <1>11, <1>12, <1>13, <1>14, <1>15, <1>16, <1>17, <1>18, <1>19, <1>20, <1>21, <1>22, <1>23, <1>24, <1>25, <1>26, <1>27, <1>28, <1>29, <1>30, <1>31, <1>32 DEF Next, KernelStep, Acquire

----------------------------------------------------------------------------
(***************************************************************************)
(* The inductive invariant.                                                *)
(***************************************************************************)

\* No process is current on two CPUs, and a current process has code to run.
OneCpu ==
  \A c, d \in CPUS : (proc[c] # Nil /\ proc[c] = proc[d]) => c = d
OnCpuCode ==
  \A c \in CPUS : proc[c] # Nil => pc[proc[c]] # "none"

Switching == LockDiscipline /\ OneCpu /\ OnCpuCode

IInv == TypeOK /\ Switching /\ StateMatchesCode /\ EmbryoOwned

\* The CPU of a thread is determined by the thread.
LEMMA ThreadUnique ==
  ASSUME TypeOK, OneCpu, NEW c \in CPUS, NEW d \in CPUS, Thread(c) = Thread(d)
  PROVE  c = d
  BY Ranges DEF TypeOK, OneCpu, Thread

\* A CPU always executes some thread.
LEMMA ThreadType ==
  ASSUME TypeOK, NEW c \in CPUS
  PROVE  Thread(c) \in Threads
  BY Ranges DEF TypeOK, Thread

\* A step of thread t on CPU c that does not switch keeps the switching
\* discipline, if it takes and releases the locks as its points say.
LEMMA GotoSwitching ==
  ASSUME TypeOK, Switching, NEW c \in CPUS, NEW t, NEW k, NEW k2,
         At(c, t, k), pc' \in [Threads -> Points], pc'[t] = k2,
         \A d \in CPUS \ {c} : pc'[Thread(d)] = pc[Thread(d)],
         \A d \in CPUS : pc'[d] = IF d = t THEN k2 ELSE pc[d],
         UNCHANGED proc, k2 \notin {"away", "none"},
         k # "away",
         lock' = IF k2 \in PLocked THEN c ELSE IF k \in PLocked THEN NoCpu ELSE lock,
         k2 \in PLocked => lock \in {c, NoCpu},
         tlock' = IF k2 \in TLocked THEN c ELSE IF k \in TLocked THEN NoCpu ELSE tlock,
         k2 \in TLocked => tlock \in {c, NoCpu}
  PROVE  Switching'
  <1> USE DEF Switching
  <1>1. t = Thread(c) /\ pc[t] = k /\ t \in Threads
    BY ThreadType DEF At
  <1>2. \A d \in CPUS : Thread(d)' = Thread(d)
    BY DEF Thread
  <1>3. OneCpu'
    BY DEF OneCpu
  <1>4. OnCpuCode'
    BY <1>1 DEF OnCpuCode, Thread
  <1>5. NoCpu \notin CPUS
    BY ProcAssumption
  <1>6. ASSUME NEW d \in CPUS
        PROVE  /\ lock' = d <=> pc'[Thread(d)] \in PLocked
               /\ tlock' = d <=> pc'[Thread(d)] \in TLocked
    <2>1. CASE d = c
      BY <1>1, <1>5, <2>1 DEF LockDiscipline
    <2>2. CASE d # c
      BY <1>1, <1>5, <2>2 DEF LockDiscipline
    <2> QED
      BY <2>1, <2>2
  <1>7. ASSUME NEW d \in CPUS PROVE proc'[d] # Nil <=> pc'[d] = "away"
    BY <1>1 DEF LockDiscipline
  <1> QED
    BY <1>2, <1>3, <1>4, <1>6, <1>7 DEF LockDiscipline

\* What Goto means for the other threads.
LEMMA GotoPc ==
  ASSUME TypeOK, Switching, NEW c \in CPUS, NEW t \in Threads, NEW k, NEW k2 \in Points,
         Goto(c, t, k, k2)
  PROVE  /\ t = Thread(c) /\ pc[t] = k /\ pc'[t] = k2
         /\ pc' \in [Threads -> Points]
         /\ \A u \in Threads \ {t} : pc'[u] = pc[u]
         /\ \A d \in CPUS \ {c} : Thread(d) # t /\ pc'[Thread(d)] = pc[Thread(d)]
         /\ \A d \in CPUS : pc'[d] = IF d = t THEN k2 ELSE pc[d]
  <1>1. /\ t = Thread(c) /\ pc[t] = k /\ pc'[t] = k2
        /\ pc' \in [Threads -> Points]
        /\ \A u \in Threads \ {t} : pc'[u] = pc[u]
    BY DEF Goto, At, TypeOK
  <1>2. \A d \in CPUS \ {c} : Thread(d) # t /\ Thread(d) \in Threads
    BY <1>1, ThreadUnique, ThreadType DEF Switching
  <1> QED
    BY <1>1, <1>2, Ranges

\* A process on a CPU is the thread of that CPU, and conversely.
LEMMA OnCpuThread ==
  ASSUME TypeOK, NEW p \in Slot
  PROVE  OnCpu(p) <=> \E c \in CPUS : Thread(c) = p
  BY Ranges DEF TypeOK, OnCpu, Thread

\* Whoever holds ptable.lock meets no other process between the change of
\* its state and swtch(): a SLEEPING, RUNNABLE or ZOMBIE process other than
\* the holder's own is on no CPU.
LEMMA StoppedOffCpu ==
  ASSUME TypeOK, Switching, StateMatchesCode, NEW c \in CPUS, lock = c,
         NEW p \in Slot, p # Thread(c),
         state[p] \in {"UNUSED", "EMBRYO", "SLEEPING", "RUNNABLE", "ZOMBIE"}
  PROVE  ~OnCpu(p)
  <1> SUFFICES ASSUME OnCpu(p) PROVE FALSE
    OBVIOUS
  <1>1. PICK d \in CPUS : Thread(d) = p
    BY OnCpuThread
  <1>2. state[p] = StateAt(pc[p])
    BY DEF StateMatchesCode
  <1>3. pc[p] \in PLocked
    BY <1>2 DEF StateAt, PLocked
  <1>4. lock = d
    BY <1>1, <1>3 DEF Switching, LockDiscipline
  <1> QED
    BY <1>1, <1>4

\* A slot that is UNUSED or EMBRYO is on no CPU.
LEMMA HiddenOffCpu ==
  ASSUME StateMatchesCode, NEW p \in Slot, state[p] \in {"UNUSED", "EMBRYO"}
  PROVE  ~OnCpu(p)
  BY DEF StateMatchesCode, StateAt

\* A step of thread t on CPU c that does not switch: t's own state follows
\* its code, and others are at most woken up.
LEMMA GotoState ==
  ASSUME TypeOK, Switching, StateMatchesCode,
         NEW c \in CPUS, NEW t \in Threads, NEW k, NEW k2 \in Points,
         Goto(c, t, k, k2), k2 # "none", UNCHANGED <<proc, kstack>>,
         t \in Slot => state'[t] = StateAt(k2),
         \A q \in Slot \ {t} :
            \/ state'[q] = state[q]
            \/ state[q] = "SLEEPING" /\ state'[q] = "RUNNABLE" /\ ~OnCpu(q)
  PROVE  StateMatchesCode'
  <1> SUFFICES ASSUME NEW q \in Slot
               PROVE  /\ OnCpu(q)' => state'[q] = StateAt(pc'[q])
                      /\ ~OnCpu(q)' => pc'[q] \in OffCpuPoints(state'[q])
                      /\ kstack'[q] <=> pc'[q] # "none"
    BY DEF StateMatchesCode, StateAt, OffCpuPoints, Parked
  <1>1. OnCpu(q)' <=> OnCpu(q)
    BY DEF OnCpu
  <1>2. CASE q = t
    <2>1. OnCpu(q) /\ pc'[q] = k2 /\ pc[q] # "none"
      BY <1>2, GotoPc, OnCpuThread, Ranges DEF Switching, OnCpuCode, OnCpu
    <2> QED
      BY <1>1, <1>2, <2>1 DEF StateMatchesCode
  <1>3. CASE q # t
    <2>1. pc'[q] = pc[q]
      BY <1>3, GotoPc, Ranges
    <2>2. CASE state'[q] = state[q]
      BY <1>1, <2>1, <2>2 DEF StateMatchesCode
    <2>3. CASE state[q] = "SLEEPING" /\ state'[q] = "RUNNABLE" /\ ~OnCpu(q)
      <3>1. pc[q] \in {"wait_ret", "slp_ret"}
        BY <2>3 DEF StateMatchesCode, OffCpuPoints
      <3>2. pc'[q] \in OffCpuPoints(state'[q])
        BY <2>1, <2>3, <3>1 DEF OffCpuPoints, Parked
      <3> QED
        BY <1>1, <2>1, <2>3, <3>2 DEF StateMatchesCode
    <2> QED
      BY <1>3, <2>2, <2>3
  <1> QED
    BY <1>2, <1>3

\* EmbryoOwned is kept by a step that leaves EMBRYO slots alone and starts or
\* ends nothing of fork(): whoever is at a point that owns a slot was at one
\* of the same kind before, with the same slot.
LEMMA EmbryoKept ==
  ASSUME EmbryoOwned,
         \A p \in Slot : CallPoint(p)' \in ForkOwns =>
            /\ CallPoint(p) \in ForkOwns /\ loc'[p] = loc[p]
            /\ CallPoint(p)' \in ForkStacked <=> CallPoint(p) \in ForkStacked,
         \A s \in Slot : state[s] = "EMBRYO" => state'[s] = "EMBRYO" /\ pc'[s] = pc[s]
  PROVE  EmbryoOwned'
  BY DEF EmbryoOwned

\* How a step that does not switch changes the point of a system call: an
\* interrupt handler leaves it alone.
LEMMA GotoCall ==
  ASSUME TypeOK, Switching, NEW c \in CPUS, NEW t \in Threads, NEW k, NEW k2 \in Points,
         Goto(c, t, k, k2), NEW p \in Slot,
         p # t => ipc'[p] = ipc[p]
  PROVE  /\ p # t => CallPoint(p)' = CallPoint(p)
         /\ p = t => /\ CallPoint(p) = IF k \in InHandler THEN ipc[p] ELSE k
                     /\ CallPoint(p)' = IF k2 \in InHandler THEN ipc'[p] ELSE k2
  BY GotoPc, Ranges DEF CallPoint

\* A step of a thread outside the points of fork() that own a slot.
LEMMA GotoEmbryo ==
  ASSUME TypeOK, Switching, StateMatchesCode, EmbryoOwned,
         NEW c \in CPUS, NEW t \in Threads, NEW k, NEW k2 \in Points,
         Goto(c, t, k, k2),
         \A p \in Slot \ {t} : ipc'[p] = ipc[p] /\ loc'[p] = loc[p],
         t \in Slot =>
            LET call  == IF k \in InHandler THEN ipc[t] ELSE k
                call2 == IF k2 \in InHandler THEN ipc'[t] ELSE k2
            IN  \/ call2 \notin ForkOwns
                \/ /\ call \in ForkOwns /\ loc'[t] = loc[t]
                   /\ call \in ForkStacked <=> call2 \in ForkStacked,
         \A s \in Slot : state[s] = "EMBRYO" => state'[s] = "EMBRYO"
  PROVE  EmbryoOwned'
  <1>1. ASSUME NEW p \in Slot, CallPoint(p)' \in ForkOwns
        PROVE  /\ CallPoint(p) \in ForkOwns /\ loc'[p] = loc[p]
               /\ CallPoint(p)' \in ForkStacked <=> CallPoint(p) \in ForkStacked
    BY <1>1, GotoCall
  <1>2. ASSUME NEW s \in Slot, state[s] = "EMBRYO" PROVE pc'[s] = pc[s]
    <2>1. s # t
      BY <1>2, HiddenOffCpu, OnCpuThread, GotoPc
    <2> QED
      BY <2>1, GotoPc, Ranges
  <1> QED
    BY <1>1, <1>2, EmbryoKept

\* A step of thread t on CPU c that does not switch and does not touch the
\* half-made slots: it obeys the locks, keeps t's state in line with its
\* code, at most wakes others, and starts or ends no ownership of a slot.
Obeys(c, t, k, k2) ==
  /\ Goto(c, t, k, k2) /\ k2 \in Points \ {"none", "away"} /\ k # "away"
  /\ UNCHANGED <<proc, kstack>>
  /\ lock' = IF k2 \in PLocked THEN c ELSE IF k \in PLocked THEN NoCpu ELSE lock
  /\ k2 \in PLocked => lock \in {c, NoCpu}
  /\ tlock' = IF k2 \in TLocked THEN c ELSE IF k \in TLocked THEN NoCpu ELSE tlock
  /\ k2 \in TLocked => tlock \in {c, NoCpu}
  /\ t \in Slot => state'[t] = StateAt(k2)
  /\ \A q \in Slot \ {t} :
        /\ \/ state'[q] = state[q]
           \/ state[q] = "SLEEPING" /\ state'[q] = "RUNNABLE" /\ ~OnCpu(q)
        /\ ipc'[q] = ipc[q] /\ loc'[q] = loc[q]
  /\ t \in Slot =>
        LET call  == IF k \in InHandler THEN ipc[t] ELSE k
            call2 == IF k2 \in InHandler THEN ipc'[t] ELSE k2
        IN  \/ call2 \notin ForkOwns
            \/ /\ call \in ForkOwns /\ loc'[t] = loc[t]
               /\ call \in ForkStacked <=> call2 \in ForkStacked

\* Such a step keeps the invariant.
LEMMA ObeysInv ==
  ASSUME IInv, TypeOK', NEW c \in CPUS, NEW t \in Threads, NEW k, NEW k2, Obeys(c, t, k, k2)
  PROVE  IInv'
  <1> USE DEF IInv
  <1>1. Goto(c, t, k, k2) /\ k2 \in Points
    BY DEF Obeys
  <1>2. Switching'
    <2>1. At(c, t, k)
      BY <1>1 DEF Goto
    <2>2. /\ pc'[t] = k2 /\ pc' \in [Threads -> Points]
          /\ \A d \in CPUS \ {c} : pc'[Thread(d)] = pc[Thread(d)]
          /\ \A d \in CPUS : pc'[d] = IF d = t THEN k2 ELSE pc[d]
      BY <1>1, GotoPc
    <2> QED
      BY <2>1, <2>2, GotoSwitching DEF Obeys
  <1>3. StateMatchesCode'
    BY <1>1, GotoState DEF Obeys
  <1>4. ASSUME NEW s \in Slot, state[s] = "EMBRYO" PROVE state'[s] = "EMBRYO"
    <2>1. s # t
      BY <1>1, <1>4, HiddenOffCpu, OnCpuThread, GotoPc
    <2> QED
      BY <1>4, <2>1 DEF Obeys
  <1>5. EmbryoOwned'
    BY <1>1, <1>4, GotoEmbryo DEF Obeys
  <1> QED
    BY <1>2, <1>3, <1>5

\* What the invariant says of the thread that moves.
LEMMA Mover ==
  ASSUME IInv, NEW c \in CPUS, NEW t \in Threads, NEW k, At(c, t, k)
  PROVE  /\ lock = c <=> k \in PLocked
         /\ tlock = c <=> k \in TLocked
         /\ t \in Slot => state[t] = StateAt(k) /\ proc[c] = t
         /\ t \in CPUS => t = c /\ proc[c] = Nil
         /\ t \in Slot \/ t \in CPUS
  BY OnCpuThread, Ranges DEF IInv, Switching, LockDiscipline, StateMatchesCode, At, TypeOK,
     Thread, Threads

----------------------------------------------------------------------------

(***************************************************************************)
(* Every action keeps the invariant.                                       *)
(***************************************************************************)

\* scheduler() finds nothing to run, or a process has switched back.
LEMMA SchedulerReleaseInv ==
  ASSUME IInv, TypeOK', NEW c \in CPUS, SchedulerRelease(c)
  PROVE  IInv'
  <1>1. PICK p \in Threads : p = c /\ (Goto(c, p, "scan", "loop") \/ Goto(c, p, "back", "loop"))
    BY Ranges DEF SchedulerRelease
  <1>2. CASE Goto(c, p, "scan", "loop")
    <2>1. /\ "scan" \in PLocked /\ "loop" \notin PLocked
          /\ "scan" \notin TLocked /\ "loop" \notin TLocked
          /\ "scan" \notin InHandler /\ "loop" \notin InHandler
          /\ "loop" \notin ForkOwns
          /\ StateAt("scan") = "RUNNING" /\ StateAt("loop") = "RUNNING"
      BY DEF PLocked, TLocked, InHandler, ForkOwns, StateAt
    <2>2. /\ At(c, p, "scan")
          /\ "loop" \in Points \ {"none", "away"}
      BY <1>2, PointNames DEF Goto
    <2>3. Obeys(c, p, "scan", "loop")
      BY <1>1, <1>2, <2>1, <2>2, Mover, Ranges DEF SchedulerRelease, Obeys, IInv, TypeOK, ptab, ident,
         locks, frame
    <2> QED
      BY <2>3, ObeysInv, Ranges
  <1>3. CASE Goto(c, p, "back", "loop")
    <2>1. /\ "back" \in PLocked /\ "loop" \notin PLocked
          /\ "back" \notin TLocked /\ "loop" \notin TLocked
          /\ "back" \notin InHandler /\ "loop" \notin InHandler
          /\ "loop" \notin ForkOwns
          /\ StateAt("back") = "RUNNING" /\ StateAt("loop") = "RUNNING"
      BY DEF PLocked, TLocked, InHandler, ForkOwns, StateAt
    <2>2. /\ At(c, p, "back")
          /\ "loop" \in Points \ {"none", "away"}
      BY <1>3, PointNames DEF Goto
    <2>3. Obeys(c, p, "back", "loop")
      BY <1>1, <1>3, <2>1, <2>2, Mover, Ranges DEF SchedulerRelease, Obeys, IInv, TypeOK, ptab, ident,
         locks, frame
    <2> QED
      BY <2>3, ObeysInv, Ranges
  <1> QED
    BY <1>1, <1>2, <1>3

\* A system call starts; it owns no slot yet.
LEMMA SyscallInv ==
  ASSUME IInv, TypeOK', NEW c \in CPUS, Syscall(c)
  PROVE  IInv'
  <1>1. PICK p \in Slot : 
          /\ \/ Goto(c, p, "user", "exit_acq")
             \/ Goto(c, p, "user", "fork_acq")
             \/ Goto(c, p, "user", "wait_acq")
             \/ Goto(c, p, "user", "kill_acq")
             \/ Goto(c, p, "user", "slp_acq")
          /\ \A q \in Slot \ {p} : loc'[q] = loc[q]
    BY Ranges DEF Syscall, IInv, TypeOK
  <1>2. CASE Goto(c, p, "user", "exit_acq")
    <2>1. /\ "user" \notin PLocked /\ "exit_acq" \notin PLocked
          /\ "user" \notin TLocked /\ "exit_acq" \notin TLocked
          /\ "user" \notin InHandler /\ "exit_acq" \notin InHandler
          /\ "exit_acq" \notin ForkOwns
          /\ StateAt("user") = "RUNNING" /\ StateAt("exit_acq") = "RUNNING"
      BY DEF PLocked, TLocked, InHandler, ForkOwns, StateAt
    <2>2. /\ At(c, p, "user")
          /\ "exit_acq" \in Points \ {"none", "away"}
      BY <1>2, PointNames DEF Goto
    <2>3. Obeys(c, p, "user", "exit_acq")
      BY <1>1, <1>2, <2>1, <2>2, Mover, Ranges DEF Syscall, Obeys, IInv, TypeOK, ptab, ident,
         locks, frame
    <2> QED
      BY <2>3, ObeysInv, Ranges
  <1>3. CASE Goto(c, p, "user", "fork_acq")
    <2>1. /\ "user" \notin PLocked /\ "fork_acq" \notin PLocked
          /\ "user" \notin TLocked /\ "fork_acq" \notin TLocked
          /\ "user" \notin InHandler /\ "fork_acq" \notin InHandler
          /\ "fork_acq" \notin ForkOwns
          /\ StateAt("user") = "RUNNING" /\ StateAt("fork_acq") = "RUNNING"
      BY DEF PLocked, TLocked, InHandler, ForkOwns, StateAt
    <2>2. /\ At(c, p, "user")
          /\ "fork_acq" \in Points \ {"none", "away"}
      BY <1>3, PointNames DEF Goto
    <2>3. Obeys(c, p, "user", "fork_acq")
      BY <1>1, <1>3, <2>1, <2>2, Mover, Ranges DEF Syscall, Obeys, IInv, TypeOK, ptab, ident,
         locks, frame
    <2> QED
      BY <2>3, ObeysInv, Ranges
  <1>4. CASE Goto(c, p, "user", "wait_acq")
    <2>1. /\ "user" \notin PLocked /\ "wait_acq" \notin PLocked
          /\ "user" \notin TLocked /\ "wait_acq" \notin TLocked
          /\ "user" \notin InHandler /\ "wait_acq" \notin InHandler
          /\ "wait_acq" \notin ForkOwns
          /\ StateAt("user") = "RUNNING" /\ StateAt("wait_acq") = "RUNNING"
      BY DEF PLocked, TLocked, InHandler, ForkOwns, StateAt
    <2>2. /\ At(c, p, "user")
          /\ "wait_acq" \in Points \ {"none", "away"}
      BY <1>4, PointNames DEF Goto
    <2>3. Obeys(c, p, "user", "wait_acq")
      BY <1>1, <1>4, <2>1, <2>2, Mover, Ranges DEF Syscall, Obeys, IInv, TypeOK, ptab, ident,
         locks, frame
    <2> QED
      BY <2>3, ObeysInv, Ranges
  <1>5. CASE Goto(c, p, "user", "kill_acq")
    <2>1. /\ "user" \notin PLocked /\ "kill_acq" \notin PLocked
          /\ "user" \notin TLocked /\ "kill_acq" \notin TLocked
          /\ "user" \notin InHandler /\ "kill_acq" \notin InHandler
          /\ "kill_acq" \notin ForkOwns
          /\ StateAt("user") = "RUNNING" /\ StateAt("kill_acq") = "RUNNING"
      BY DEF PLocked, TLocked, InHandler, ForkOwns, StateAt
    <2>2. /\ At(c, p, "user")
          /\ "kill_acq" \in Points \ {"none", "away"}
      BY <1>5, PointNames DEF Goto
    <2>3. Obeys(c, p, "user", "kill_acq")
      BY <1>1, <1>5, <2>1, <2>2, Mover, Ranges DEF Syscall, Obeys, IInv, TypeOK, ptab, ident,
         locks, frame
    <2> QED
      BY <2>3, ObeysInv, Ranges
  <1>6. CASE Goto(c, p, "user", "slp_acq")
    <2>1. /\ "user" \notin PLocked /\ "slp_acq" \notin PLocked
          /\ "user" \notin TLocked /\ "slp_acq" \notin TLocked
          /\ "user" \notin InHandler /\ "slp_acq" \notin InHandler
          /\ "slp_acq" \notin ForkOwns
          /\ StateAt("user") = "RUNNING" /\ StateAt("slp_acq") = "RUNNING"
      BY DEF PLocked, TLocked, InHandler, ForkOwns, StateAt
    <2>2. /\ At(c, p, "user")
          /\ "slp_acq" \in Points \ {"none", "away"}
      BY <1>6, PointNames DEF Goto
    <2>3. Obeys(c, p, "user", "slp_acq")
      BY <1>1, <1>6, <2>1, <2>2, Mover, Ranges DEF Syscall, Obeys, IInv, TypeOK, ptab, ident,
         locks, frame
    <2> QED
      BY <2>3, ObeysInv, Ranges
  <1> QED
    BY <1>1, <1>2, <1>3, <1>4, <1>5, <1>6

\* A system call returns to user mode, or to exit().
LEMMA SyscallReturnInv ==
  ASSUME IInv, TypeOK', NEW c \in CPUS, SyscallReturn(c)
  PROVE  IInv'
  <1>1. PICK p \in Slot : 
          /\ Goto(c, p, "sysret", "exit_acq") \/ Goto(c, p, "sysret", "user")
          /\ \A q \in Slot \ {p} : loc'[q] = loc[q]
    BY Ranges DEF SyscallReturn, IInv, TypeOK
  <1>2. CASE Goto(c, p, "sysret", "exit_acq")
    <2>1. /\ "sysret" \notin PLocked /\ "exit_acq" \notin PLocked
          /\ "sysret" \notin TLocked /\ "exit_acq" \notin TLocked
          /\ "sysret" \notin InHandler /\ "exit_acq" \notin InHandler
          /\ "exit_acq" \notin ForkOwns
          /\ StateAt("sysret") = "RUNNING" /\ StateAt("exit_acq") = "RUNNING"
      BY DEF PLocked, TLocked, InHandler, ForkOwns, StateAt
    <2>2. /\ At(c, p, "sysret")
          /\ "exit_acq" \in Points \ {"none", "away"}
      BY <1>2, PointNames DEF Goto
    <2>3. Obeys(c, p, "sysret", "exit_acq")
      BY <1>1, <1>2, <2>1, <2>2, Mover, Ranges DEF SyscallReturn, Obeys, IInv, TypeOK, ptab, ident,
         locks, frame
    <2> QED
      BY <2>3, ObeysInv, Ranges
  <1>3. CASE Goto(c, p, "sysret", "user")
    <2>1. /\ "sysret" \notin PLocked /\ "user" \notin PLocked
          /\ "sysret" \notin TLocked /\ "user" \notin TLocked
          /\ "sysret" \notin InHandler /\ "user" \notin InHandler
          /\ "user" \notin ForkOwns
          /\ StateAt("sysret") = "RUNNING" /\ StateAt("user") = "RUNNING"
      BY DEF PLocked, TLocked, InHandler, ForkOwns, StateAt
    <2>2. /\ At(c, p, "sysret")
          /\ "user" \in Points \ {"none", "away"}
      BY <1>3, PointNames DEF Goto
    <2>3. Obeys(c, p, "sysret", "user")
      BY <1>1, <1>3, <2>1, <2>2, Mover, Ranges DEF SyscallReturn, Obeys, IInv, TypeOK, ptab, ident,
         locks, frame
    <2> QED
      BY <2>3, ObeysInv, Ranges
  <1> QED
    BY <1>1, <1>2, <1>3

\* A fault in user mode.
LEMMA FaultTrapInv ==
  ASSUME IInv, TypeOK', NEW c \in CPUS, FaultTrap(c)
  PROVE  IInv'
  <1>1. PICK p \in Slot : Goto(c, p, "user", "exit_acq")
    BY DEF FaultTrap
  <1>2. /\ "user" \notin PLocked /\ "exit_acq" \notin PLocked
        /\ "user" \notin TLocked /\ "exit_acq" \notin TLocked
        /\ "user" \notin InHandler /\ "exit_acq" \notin InHandler
        /\ "exit_acq" \notin ForkOwns
        /\ StateAt("user") = "RUNNING" /\ StateAt("exit_acq") = "RUNNING"
    BY DEF PLocked, TLocked, InHandler, ForkOwns, StateAt
  <1>3. /\ At(c, p, "user")
        /\ "exit_acq" \in Points \ {"none", "away"}
    BY <1>1, PointNames DEF Goto
  <1> QED
    <2>1. Obeys(c, p, "user", "exit_acq")
      BY <1>1, <1>2, <1>3, Mover, Ranges DEF FaultTrap, Obeys, IInv, TypeOK, ptab, ident, locks, frame
    <2> QED
      BY <2>1, ObeysInv, Ranges

\* The timer handler advances ticks.
LEMMA TickIncrementInv ==
  ASSUME IInv, TypeOK', NEW c \in CPUS, TickIncrement(c)
  PROVE  IInv'
  <1>1. PICK t \in Threads : Goto(c, t, "tick_inc", "tick_wake_acq")
    BY DEF TickIncrement
  <1>2. /\ "tick_inc" \notin PLocked /\ "tick_wake_acq" \notin PLocked
        /\ "tick_inc" \in TLocked /\ "tick_wake_acq" \in TLocked
        /\ "tick_inc" \in InHandler /\ "tick_wake_acq" \in InHandler
        /\ "tick_wake_acq" \notin ForkOwns
        /\ StateAt("tick_inc") = "RUNNING" /\ StateAt("tick_wake_acq") = "RUNNING"
    BY DEF PLocked, TLocked, InHandler, ForkOwns, StateAt
  <1>3. /\ At(c, t, "tick_inc")
        /\ "tick_wake_acq" \in Points \ {"none", "away"}
    BY <1>1, PointNames DEF Goto
  <1> QED
    <2>1. Obeys(c, t, "tick_inc", "tick_wake_acq")
      BY <1>1, <1>2, <1>3, Mover, Ranges DEF TickIncrement, Obeys, IInv, TypeOK, ptab, ident, locks, frame
    <2> QED
      BY <2>1, ObeysInv, Ranges

\* yield() leaves the state RUNNING.
LEMMA YieldInv ==
  ASSUME IInv, TypeOK', NEW c \in CPUS, Yield(c)
  PROVE  IInv'
  <1>1. PICK p \in Slot : Goto(c, p, "yield_cs", "yield_sched") /\
                      state' = [state EXCEPT ![p] = "RUNNABLE"]
    BY DEF Yield
  <1>2. /\ "yield_cs" \in PLocked /\ "yield_sched" \in PLocked
        /\ "yield_cs" \notin TLocked /\ "yield_sched" \notin TLocked
        /\ "yield_cs" \in InHandler /\ "yield_sched" \in InHandler
        /\ "yield_sched" \notin ForkOwns
        /\ StateAt("yield_cs") = "RUNNING" /\ StateAt("yield_sched") = "RUNNABLE"
    BY DEF PLocked, TLocked, InHandler, ForkOwns, StateAt
  <1>3. /\ At(c, p, "yield_cs")
        /\ "yield_sched" \in Points \ {"none", "away"}
    BY <1>1, PointNames DEF Goto
  <1> QED
    <2>1. Obeys(c, p, "yield_cs", "yield_sched")
      BY <1>1, <1>2, <1>3, Mover, Ranges DEF Yield, Obeys, IInv, TypeOK, ptab, ident, locks, frame
    <2> QED
      BY <2>1, ObeysInv, Ranges

\* yield() or forkret() releases the lock it was handed.
LEMMA ReleaseAfterSwtchInv ==
  ASSUME IInv, TypeOK', NEW c \in CPUS, ReleaseAfterSwtch(c)
  PROVE  IInv'
  <1>1. PICK p \in Slot : Goto(c, p, "yield_ret", "trap_ret") \/ Goto(c, p, "forkret", "user")
    BY Ranges DEF ReleaseAfterSwtch
  <1>2. CASE Goto(c, p, "yield_ret", "trap_ret")
    <2>1. /\ "yield_ret" \in PLocked /\ "trap_ret" \notin PLocked
          /\ "yield_ret" \notin TLocked /\ "trap_ret" \notin TLocked
          /\ "yield_ret" \in InHandler /\ "trap_ret" \in InHandler
          /\ "trap_ret" \notin ForkOwns
          /\ StateAt("yield_ret") = "RUNNING" /\ StateAt("trap_ret") = "RUNNING"
      BY DEF PLocked, TLocked, InHandler, ForkOwns, StateAt
    <2>2. /\ At(c, p, "yield_ret")
          /\ "trap_ret" \in Points \ {"none", "away"}
      BY <1>2, PointNames DEF Goto
    <2>3. Obeys(c, p, "yield_ret", "trap_ret")
      BY <1>1, <1>2, <2>1, <2>2, Mover, Ranges DEF ReleaseAfterSwtch, Obeys, IInv, TypeOK, ptab, ident,
         locks, frame
    <2> QED
      BY <2>3, ObeysInv, Ranges
  <1>3. CASE Goto(c, p, "forkret", "user")
    <2>1. /\ "forkret" \in PLocked /\ "user" \notin PLocked
          /\ "forkret" \notin TLocked /\ "user" \notin TLocked
          /\ "forkret" \notin InHandler /\ "user" \notin InHandler
          /\ "user" \notin ForkOwns
          /\ StateAt("forkret") = "RUNNING" /\ StateAt("user") = "RUNNING"
      BY DEF PLocked, TLocked, InHandler, ForkOwns, StateAt
    <2>2. /\ At(c, p, "forkret")
          /\ "user" \in Points \ {"none", "away"}
      BY <1>3, PointNames DEF Goto
    <2>3. Obeys(c, p, "forkret", "user")
      BY <1>1, <1>3, <2>1, <2>2, Mover, Ranges DEF ReleaseAfterSwtch, Obeys, IInv, TypeOK, ptab, ident,
         locks, frame
    <2> QED
      BY <2>3, ObeysInv, Ranges
  <1> QED
    BY <1>1, <1>2, <1>3

\* wait() returns -1.
LEMMA WaitNoneInv ==
  ASSUME IInv, TypeOK', NEW c \in CPUS, WaitNone(c)
  PROVE  IInv'
  <1>1. PICK p \in Slot : Goto(c, p, "wait_scan", "sysret")
    BY DEF WaitNone
  <1>2. /\ "wait_scan" \in PLocked /\ "sysret" \notin PLocked
        /\ "wait_scan" \notin TLocked /\ "sysret" \notin TLocked
        /\ "wait_scan" \notin InHandler /\ "sysret" \notin InHandler
        /\ "sysret" \notin ForkOwns
        /\ StateAt("wait_scan") = "RUNNING" /\ StateAt("sysret") = "RUNNING"
    BY DEF PLocked, TLocked, InHandler, ForkOwns, StateAt
  <1>3. /\ At(c, p, "wait_scan")
        /\ "sysret" \in Points \ {"none", "away"}
    BY <1>1, PointNames DEF Goto
  <1> QED
    <2>1. Obeys(c, p, "wait_scan", "sysret")
      BY <1>1, <1>2, <1>3, Mover, Ranges DEF WaitNone, Obeys, IInv, TypeOK, ptab, ident, locks, frame
    <2> QED
      BY <2>1, ObeysInv, Ranges

\* wait() decides to sleep.
LEMMA WaitChildrenInv ==
  ASSUME IInv, TypeOK', NEW c \in CPUS, WaitChildren(c)
  PROVE  IInv'
  <1>1. PICK p \in Slot : Goto(c, p, "wait_scan", "wait_sleep")
    BY DEF WaitChildren
  <1>2. /\ "wait_scan" \in PLocked /\ "wait_sleep" \in PLocked
        /\ "wait_scan" \notin TLocked /\ "wait_sleep" \notin TLocked
        /\ "wait_scan" \notin InHandler /\ "wait_sleep" \notin InHandler
        /\ "wait_sleep" \notin ForkOwns
        /\ StateAt("wait_scan") = "RUNNING" /\ StateAt("wait_sleep") = "RUNNING"
    BY DEF PLocked, TLocked, InHandler, ForkOwns, StateAt
  <1>3. /\ At(c, p, "wait_scan")
        /\ "wait_sleep" \in Points \ {"none", "away"}
    BY <1>1, PointNames DEF Goto
  <1> QED
    <2>1. Obeys(c, p, "wait_scan", "wait_sleep")
      BY <1>1, <1>2, <1>3, Mover, Ranges DEF WaitChildren, Obeys, IInv, TypeOK, ptab, ident, locks, frame
    <2> QED
      BY <2>1, ObeysInv, Ranges

\* wait() goes to sleep.
LEMMA WaitSleepInv ==
  ASSUME IInv, TypeOK', NEW c \in CPUS, WaitSleep(c)
  PROVE  IInv'
  <1>1. PICK p \in Slot : Goto(c, p, "wait_sleep", "wait_sched") /\
                      state' = [state EXCEPT ![p] = "SLEEPING"]
    BY DEF WaitSleep
  <1>2. /\ "wait_sleep" \in PLocked /\ "wait_sched" \in PLocked
        /\ "wait_sleep" \notin TLocked /\ "wait_sched" \notin TLocked
        /\ "wait_sleep" \notin InHandler /\ "wait_sched" \notin InHandler
        /\ "wait_sched" \notin ForkOwns
        /\ StateAt("wait_sleep") = "RUNNING" /\ StateAt("wait_sched") = "SLEEPING"
    BY DEF PLocked, TLocked, InHandler, ForkOwns, StateAt
  <1>3. /\ At(c, p, "wait_sleep")
        /\ "wait_sched" \in Points \ {"none", "away"}
    BY <1>1, PointNames DEF Goto
  <1> QED
    <2>1. Obeys(c, p, "wait_sleep", "wait_sched")
      BY <1>1, <1>2, <1>3, Mover, Ranges DEF WaitSleep, Obeys, IInv, TypeOK, ptab, ident, locks, frame
    <2> QED
      BY <2>1, ObeysInv, Ranges

\* wait() scans again.
LEMMA WaitWakeInv ==
  ASSUME IInv, TypeOK', NEW c \in CPUS, WaitWake(c)
  PROVE  IInv'
  <1>1. PICK p \in Slot : Goto(c, p, "wait_ret", "wait_scan")
    BY DEF WaitWake
  <1>2. /\ "wait_ret" \in PLocked /\ "wait_scan" \in PLocked
        /\ "wait_ret" \notin TLocked /\ "wait_scan" \notin TLocked
        /\ "wait_ret" \notin InHandler /\ "wait_scan" \notin InHandler
        /\ "wait_scan" \notin ForkOwns
        /\ StateAt("wait_ret") = "RUNNING" /\ StateAt("wait_scan") = "RUNNING"
    BY DEF PLocked, TLocked, InHandler, ForkOwns, StateAt
  <1>3. /\ At(c, p, "wait_ret")
        /\ "wait_scan" \in Points \ {"none", "away"}
    BY <1>1, PointNames DEF Goto
  <1> QED
    <2>1. Obeys(c, p, "wait_ret", "wait_scan")
      BY <1>1, <1>2, <1>3, Mover, Ranges DEF WaitWake, Obeys, IInv, TypeOK, ptab, ident, locks, frame
    <2> QED
      BY <2>1, ObeysInv, Ranges

\* sys_sleep() reads ticks.
LEMMA SleepStartInv ==
  ASSUME IInv, TypeOK', NEW c \in CPUS, SleepStart(c)
  PROVE  IInv'
  <1>1. PICK p \in Slot : Goto(c, p, "slp_start", "slp_test") /\
                      loc' = [loc EXCEPT ![p] = ticks]
    BY DEF SleepStart
  <1>2. /\ "slp_start" \notin PLocked /\ "slp_test" \notin PLocked
        /\ "slp_start" \in TLocked /\ "slp_test" \in TLocked
        /\ "slp_start" \notin InHandler /\ "slp_test" \notin InHandler
        /\ "slp_test" \notin ForkOwns
        /\ StateAt("slp_start") = "RUNNING" /\ StateAt("slp_test") = "RUNNING"
    BY DEF PLocked, TLocked, InHandler, ForkOwns, StateAt
  <1>3. /\ At(c, p, "slp_start")
        /\ "slp_test" \in Points \ {"none", "away"}
    BY <1>1, PointNames DEF Goto
  <1> QED
    <2>1. Obeys(c, p, "slp_start", "slp_test")
      BY <1>1, <1>2, <1>3, Mover, Ranges DEF SleepStart, Obeys, IInv, TypeOK, ptab, ident, locks, frame
    <2> QED
      BY <2>1, ObeysInv, Ranges

\* sys_sleep() returns or goes on to sleep().
LEMMA SleepTestInv ==
  ASSUME IInv, TypeOK', NEW c \in CPUS, SleepTest(c)
  PROVE  IInv'
  <1>1. PICK p \in Slot : 
          \/ Goto(c, p, "slp_test", "sysret") /\ tlock' = NoCpu
          \/ Goto(c, p, "slp_test", "slp_plock") /\ UNCHANGED tlock
    BY Ranges DEF SleepTest
  <1>2. CASE Goto(c, p, "slp_test", "sysret") /\ tlock' = NoCpu
    <2>1. /\ "slp_test" \notin PLocked /\ "sysret" \notin PLocked
          /\ "slp_test" \in TLocked /\ "sysret" \notin TLocked
          /\ "slp_test" \notin InHandler /\ "sysret" \notin InHandler
          /\ "sysret" \notin ForkOwns
          /\ StateAt("slp_test") = "RUNNING" /\ StateAt("sysret") = "RUNNING"
      BY DEF PLocked, TLocked, InHandler, ForkOwns, StateAt
    <2>2. /\ At(c, p, "slp_test")
          /\ "sysret" \in Points \ {"none", "away"}
      BY <1>2, PointNames DEF Goto
    <2>3. Obeys(c, p, "slp_test", "sysret")
      BY <1>1, <1>2, <2>1, <2>2, Mover, Ranges DEF SleepTest, Obeys, IInv, TypeOK, ptab, ident,
         locks, frame
    <2> QED
      BY <2>3, ObeysInv, Ranges
  <1>3. CASE Goto(c, p, "slp_test", "slp_plock") /\ UNCHANGED tlock
    <2>1. /\ "slp_test" \notin PLocked /\ "slp_plock" \notin PLocked
          /\ "slp_test" \in TLocked /\ "slp_plock" \in TLocked
          /\ "slp_test" \notin InHandler /\ "slp_plock" \notin InHandler
          /\ "slp_plock" \notin ForkOwns
          /\ StateAt("slp_test") = "RUNNING" /\ StateAt("slp_plock") = "RUNNING"
      BY DEF PLocked, TLocked, InHandler, ForkOwns, StateAt
    <2>2. /\ At(c, p, "slp_test")
          /\ "slp_plock" \in Points \ {"none", "away"}
      BY <1>3, PointNames DEF Goto
    <2>3. Obeys(c, p, "slp_test", "slp_plock")
      BY <1>1, <1>3, <2>1, <2>2, Mover, Ranges DEF SleepTest, Obeys, IInv, TypeOK, ptab, ident,
         locks, frame
    <2> QED
      BY <2>3, ObeysInv, Ranges
  <1> QED
    BY <1>1, <1>2, <1>3

\* sleep() with both locks held.
LEMMA SleepInv ==
  ASSUME IInv, TypeOK', NEW c \in CPUS, Sleep(c)
  PROVE  IInv'
  <1>1. PICK p \in Slot : Goto(c, p, "slp_sleep", "slp_sched") /\
                      state' = [state EXCEPT ![p] = "SLEEPING"]
    BY DEF Sleep
  <1>2. /\ "slp_sleep" \in PLocked /\ "slp_sched" \in PLocked
        /\ "slp_sleep" \in TLocked /\ "slp_sched" \notin TLocked
        /\ "slp_sleep" \notin InHandler /\ "slp_sched" \notin InHandler
        /\ "slp_sched" \notin ForkOwns
        /\ StateAt("slp_sleep") = "RUNNING" /\ StateAt("slp_sched") = "SLEEPING"
    BY DEF PLocked, TLocked, InHandler, ForkOwns, StateAt
  <1>3. /\ At(c, p, "slp_sleep")
        /\ "slp_sched" \in Points \ {"none", "away"}
    BY <1>1, PointNames DEF Goto
  <1> QED
    <2>1. (lock = c <=> "slp_sleep" \in PLocked) /\ (tlock = c <=> "slp_sleep" \in TLocked)
      BY <1>3, Mover, Ranges
    <2>2. UNCHANGED <<proc, kstack, ipc, loc>> /\ lock' = lock /\ tlock' = NoCpu
      BY DEF Sleep, ident, frame, locks
    <2>3. state'[p] = "SLEEPING" /\ \A q \in Slot \ {p} : state'[q] = state[q]
      BY <1>1 DEF IInv, TypeOK
    <2>4. Obeys(c, p, "slp_sleep", "slp_sched")
      BY <1>1, <1>2, <1>3, <2>1, <2>2, <2>3 DEF Obeys
    <2> QED
      BY <2>4, ObeysInv, Ranges

\* sleep() returns.
LEMMA SleepWakeInv ==
  ASSUME IInv, TypeOK', NEW c \in CPUS, SleepWake(c)
  PROVE  IInv'
  <1>1. PICK p \in Slot : Goto(c, p, "slp_ret", "slp_reacq")
    BY DEF SleepWake
  <1>2. /\ "slp_ret" \in PLocked /\ "slp_reacq" \notin PLocked
        /\ "slp_ret" \notin TLocked /\ "slp_reacq" \notin TLocked
        /\ "slp_ret" \notin InHandler /\ "slp_reacq" \notin InHandler
        /\ "slp_reacq" \notin ForkOwns
        /\ StateAt("slp_ret") = "RUNNING" /\ StateAt("slp_reacq") = "RUNNING"
    BY DEF PLocked, TLocked, InHandler, ForkOwns, StateAt
  <1>3. /\ At(c, p, "slp_ret")
        /\ "slp_reacq" \in Points \ {"none", "away"}
    BY <1>1, PointNames DEF Goto
  <1> QED
    <2>1. Obeys(c, p, "slp_ret", "slp_reacq")
      BY <1>1, <1>2, <1>3, Mover, Ranges DEF SleepWake, Obeys, IInv, TypeOK, ptab, ident, locks, frame
    <2> QED
      BY <2>1, ObeysInv, Ranges

\* wakeup1() by the holder of ptable.lock wakes only processes that are on no
\* CPU, and not the caller.
LEMMA WokenOthers ==
  ASSUME IInv, NEW c \in CPUS, lock = c, NEW ch, NEW q \in Slot,
         q = Thread(c) => state[q] # "SLEEPING"
  PROVE  \/ Woken(state, ch)[q] = state[q]
         \/ /\ state[q] = "SLEEPING" /\ Woken(state, ch)[q] = "RUNNABLE"
            /\ ~OnCpu(q) /\ q # Thread(c)
  BY StoppedOffCpu DEF IInv, Woken

\* The timer handler wakes the sleepers.
LEMMA TickWakeupInv ==
  ASSUME IInv, TypeOK', NEW c \in CPUS, TickWakeup(c)
  PROVE  IInv'
  <1>1. PICK t \in Threads : Goto(c, t, "tick_wake", "trap_end")
    BY DEF TickWakeup
  <1>2. /\ "tick_wake" \in PLocked /\ "trap_end" \notin PLocked
        /\ "tick_wake" \in TLocked /\ "trap_end" \notin TLocked
        /\ "tick_wake" \in InHandler /\ "trap_end" \in InHandler
        /\ "trap_end" \notin ForkOwns
        /\ StateAt("tick_wake") = "RUNNING" /\ StateAt("trap_end") = "RUNNING"
    BY DEF PLocked, TLocked, InHandler, ForkOwns, StateAt
  <1>3. /\ At(c, t, "tick_wake") /\ t = Thread(c)
        /\ "trap_end" \in Points \ {"none", "away"}
    BY <1>1, PointNames DEF Goto, At
  <1>4. ASSUME NEW q \in Slot
        PROVE  IF q = t THEN state'[q] = state[q]
               ELSE \/ state'[q] = state[q]
                    \/ state[q] = "SLEEPING" /\ state'[q] = "RUNNABLE" /\ ~OnCpu(q)
    BY <1>1, <1>2, <1>3, Mover, WokenOthers, Ranges DEF TickWakeup
  <1> QED
    <2>1. (lock = c <=> "tick_wake" \in PLocked) /\ (tlock = c <=> "tick_wake" \in TLocked)
      BY <1>3, Mover, Ranges
    <2>2. UNCHANGED <<proc, kstack, ipc, loc>> /\ lock' = NoCpu /\ tlock' = NoCpu
      BY DEF TickWakeup, ident, frame, locks
    <2>3. /\ t \in Slot => state'[t] = "RUNNING"
          /\ \A q \in Slot \ {t} :
                \/ state'[q] = state[q]
                \/ state[q] = "SLEEPING" /\ state'[q] = "RUNNABLE" /\ ~OnCpu(q)
      BY <1>2, <1>3, <1>4, Mover, Ranges
    <2>4. Obeys(c, t, "tick_wake", "trap_end")
      BY <1>1, <1>2, <1>3, <2>1, <2>2, <2>3 DEF Obeys
    <2> QED
      BY <2>4, ObeysInv, Ranges

\* exit() wakes the parent.
LEMMA ExitWakeParentInv ==
  ASSUME IInv, TypeOK', NEW c \in CPUS, ExitWakeParent(c)
  PROVE  IInv'
  <1>1. PICK p \in Slot : Goto(c, p, "exit_cs", "exit_zombie") /\
                      state' = Woken(state, parent[p])
    BY DEF ExitWakeParent
  <1>2. /\ "exit_cs" \in PLocked /\ "exit_zombie" \in PLocked
        /\ "exit_cs" \notin TLocked /\ "exit_zombie" \notin TLocked
        /\ "exit_cs" \notin InHandler /\ "exit_zombie" \notin InHandler
        /\ "exit_zombie" \notin ForkOwns
        /\ StateAt("exit_cs") = "RUNNING" /\ StateAt("exit_zombie") = "RUNNING"
    BY DEF PLocked, TLocked, InHandler, ForkOwns, StateAt
  <1>3. /\ At(c, p, "exit_cs") /\ p = Thread(c)
        /\ "exit_zombie" \in Points \ {"none", "away"}
    BY <1>1, PointNames DEF Goto, At
  <1>4. ASSUME NEW q \in Slot
        PROVE  IF q = p THEN state'[q] = state[q]
               ELSE \/ state'[q] = state[q]
                    \/ state[q] = "SLEEPING" /\ state'[q] = "RUNNABLE" /\ ~OnCpu(q)
    BY <1>1, <1>2, <1>3, Mover, WokenOthers, Ranges DEF ExitWakeParent
  <1> QED
    <2>1. (lock = c <=> "exit_cs" \in PLocked) /\ (tlock = c <=> "exit_cs" \in TLocked)
      BY <1>3, Mover, Ranges
    <2>2. UNCHANGED <<proc, kstack, ipc, loc>> /\ lock' = lock /\ tlock' = tlock
      BY DEF ExitWakeParent, ident, frame, locks
    <2>3. /\ p \in Slot => state'[p] = "RUNNING"
          /\ \A q \in Slot \ {p} :
                \/ state'[q] = state[q]
                \/ state[q] = "SLEEPING" /\ state'[q] = "RUNNABLE" /\ ~OnCpu(q)
      BY <1>2, <1>3, <1>4, Mover, Ranges
    <2>4. Obeys(c, p, "exit_cs", "exit_zombie")
      BY <1>1, <1>2, <1>3, <2>1, <2>2, <2>3 DEF Obeys
    <2> QED
      BY <2>4, ObeysInv, Ranges

\* exit() turns into a ZOMBIE.
LEMMA ExitZombieInv ==
  ASSUME IInv, TypeOK', NEW c \in CPUS, ExitZombie(c)
  PROVE  IInv'
  <1>1. PICK p \in Slot : Goto(c, p, "exit_zombie", "exit_sched") /\
          LET st == IF OrphanZombie(p) THEN Woken(state, initproc) ELSE state
          IN  state' = [st EXCEPT ![p] = "ZOMBIE"]
    BY DEF ExitZombie
  <1>2. /\ "exit_zombie" \in PLocked /\ "exit_sched" \in PLocked
        /\ "exit_zombie" \notin TLocked /\ "exit_sched" \notin TLocked
        /\ "exit_zombie" \notin InHandler /\ "exit_sched" \notin InHandler
        /\ "exit_sched" \notin ForkOwns
        /\ StateAt("exit_zombie") = "RUNNING" /\ StateAt("exit_sched") = "ZOMBIE"
    BY DEF PLocked, TLocked, InHandler, ForkOwns, StateAt
  <1>3. /\ At(c, p, "exit_zombie") /\ p = Thread(c)
        /\ "exit_sched" \in Points \ {"none", "away"}
    BY <1>1, PointNames DEF Goto, At
  <1>4. DOMAIN state = Slot /\ DOMAIN Woken(state, initproc) = Slot
    BY DEF IInv, TypeOK, Woken
  <1>5. ASSUME NEW q \in Slot
        PROVE  IF q = p THEN state'[q] = "ZOMBIE"
               ELSE \/ state'[q] = state[q]
                    \/ state[q] = "SLEEPING" /\ state'[q] = "RUNNABLE" /\ ~OnCpu(q)
    BY <1>1, <1>2, <1>3, <1>4, Mover, WokenOthers, Ranges
  <1> QED
    <2>1. Obeys(c, p, "exit_zombie", "exit_sched")
      BY <1>1, <1>2, <1>3, <1>5, Mover, Ranges DEF ExitZombie, Obeys, IInv, TypeOK, ptab, ident, locks,
         frame
    <2> QED
      BY <2>1, ObeysInv, Ranges

\* kill() wakes its victim if it sleeps.
LEMMA KillInv ==
  ASSUME IInv, TypeOK', NEW c \in CPUS, Kill(c)
  PROVE  IInv'
  <1>1. PICK p \in Slot : Goto(c, p, "kill_cs", "sysret") /\
          (\/ \E q \in Slot : state' = [state EXCEPT ![q] = WakeIfAsleep(@)]
           \/ UNCHANGED state)
    BY DEF Kill
  <1>2. /\ "kill_cs" \in PLocked /\ "sysret" \notin PLocked
        /\ "kill_cs" \notin TLocked /\ "sysret" \notin TLocked
        /\ "kill_cs" \notin InHandler /\ "sysret" \notin InHandler
        /\ "sysret" \notin ForkOwns
        /\ StateAt("kill_cs") = "RUNNING" /\ StateAt("sysret") = "RUNNING"
    BY DEF PLocked, TLocked, InHandler, ForkOwns, StateAt
  <1>3. /\ At(c, p, "kill_cs") /\ p = Thread(c)
        /\ "sysret" \in Points \ {"none", "away"}
    BY <1>1, PointNames DEF Goto, At
  <1>4. ASSUME NEW q \in Slot
        PROVE  IF q = p THEN state'[q] = state[q]
               ELSE \/ state'[q] = state[q]
                    \/ state[q] = "SLEEPING" /\ state'[q] = "RUNNABLE" /\ ~OnCpu(q)
    <2>1. state[p] = "RUNNING" /\ lock = c
      BY <1>2, <1>3, Mover, Ranges
    <2>2. \/ state'[q] = state[q]
          \/ state[q] = "SLEEPING" /\ state'[q] = "RUNNABLE"
      BY <1>1 DEF IInv, TypeOK, WakeIfAsleep
    <2> QED
      BY <1>3, <2>1, <2>2, StoppedOffCpu DEF IInv
  <1> QED
    <2>1. Obeys(c, p, "kill_cs", "sysret")
      BY <1>1, <1>2, <1>3, <1>4, Mover, Ranges DEF Kill, Obeys, IInv, TypeOK, ptab, ident, locks,
         frame
    <2> QED
      BY <2>1, ObeysInv, Ranges

\* Where interrupts are enabled no lock is held and the process is RUNNING.
LEMMA PreemptibleFacts ==
  ASSUME NEW k \in Preemptible
  PROVE  /\ k \notin PLocked /\ k \notin TLocked /\ k \notin InHandler
         /\ StateAt(k) = "RUNNING" /\ k \in Points \ {"none", "away"}
  BY DEF Preemptible, PLocked, TLocked, InHandler, StateAt, Points

\* The points before and after an acquire().
LEMMA PtableAcquireFacts ==
  ASSUME NEW e \in PtableAcquires
  PROVE  /\ e[1] \notin PLocked /\ e[2] \in PLocked
         /\ e[1] \in TLocked <=> e[2] \in TLocked
         /\ e[1] \in InHandler <=> e[2] \in InHandler
         /\ e[2] \in ForkOwns => /\ e[1] \in ForkOwns
                                 /\ e[1] \in ForkStacked <=> e[2] \in ForkStacked
         /\ StateAt(e[1]) = "RUNNING" /\ StateAt(e[2]) = "RUNNING"
         /\ e[1] # "away" /\ e[2] \in Points \ {"none", "away"}
  BY ProcAssumption, PointNames DEF PtableAcquires, PLocked, TLocked, InHandler, ForkOwns, ForkStacked,
     StateAt

\* The same for the points around acquire(&tickslock).
LEMMA TicksAcquireFacts ==
  ASSUME NEW e \in TicksAcquires
  PROVE  /\ e[1] \notin TLocked /\ e[2] \in TLocked
         /\ e[1] \notin PLocked /\ e[2] \notin PLocked
         /\ e[1] \in InHandler <=> e[2] \in InHandler
         /\ e[2] \notin ForkOwns
         /\ StateAt(e[1]) = "RUNNING" /\ StateAt(e[2]) = "RUNNING"
         /\ e[1] # "away" /\ e[2] \in Points \ {"none", "away"}
  BY PointNames DEF TicksAcquires, PLocked, TLocked, InHandler, ForkOwns, StateAt

\* A thread obtains ptable.lock.
LEMMA AcquirePtableInv ==
  ASSUME IInv, TypeOK', NEW c \in CPUS, AcquirePtable(c)
  PROVE  IInv'
  <1>1. PICK t \in Threads, e \in PtableAcquires : Goto(c, t, e[1], e[2])
    BY DEF AcquirePtable
  <1>2. At(c, t, e[1])
    BY <1>1 DEF Goto
  <1>3. Obeys(c, t, e[1], e[2])
    BY <1>1, <1>2, PtableAcquireFacts, Mover, Ranges DEF AcquirePtable, PtableFree, Obeys, IInv, TypeOK, ptab, ident,
       frame
  <1> QED
    BY <1>3, ObeysInv

\* A thread obtains tickslock.
LEMMA AcquireTicksInv ==
  ASSUME IInv, TypeOK', NEW c \in CPUS, AcquireTicks(c)
  PROVE  IInv'
  <1>1. PICK t \in Threads, e \in TicksAcquires : Goto(c, t, e[1], e[2])
    BY DEF AcquireTicks
  <1>2. At(c, t, e[1])
    BY <1>1 DEF Goto
  <1>3. Obeys(c, t, e[1], e[2])
    BY <1>1, <1>2, TicksAcquireFacts, Mover, Ranges DEF AcquireTicks, TicksFree, Obeys, IInv, TypeOK, ptab, ident,
       frame
  <1> QED
    BY <1>3, ObeysInv

\* The timer interrupts a thread: its system call stays where it is.
LEMMA TimerTrapInv ==
  ASSUME IInv, TypeOK', NEW c \in CPUS, TimerTrap(c)
  PROVE  IInv'
  <1>1. PICK t \in Threads, k \in Preemptible :
          /\ Goto(c, t, k, IF c = BootCpu THEN "tick_acq" ELSE "trap_end")
          /\ ipc' = [ipc EXCEPT ![t] = k]
    BY DEF TimerTrap
  <1> DEFINE k2 == IF c = BootCpu THEN "tick_acq" ELSE "trap_end"
  <1>2. /\ k2 \notin PLocked /\ k2 \notin TLocked /\ k2 \in InHandler
        /\ StateAt(k2) = "RUNNING" /\ k2 \in Points \ {"none", "away"}
    BY PointNames DEF PLocked, TLocked, InHandler, StateAt
  <1>3. At(c, t, k) /\ Goto(c, t, k, k2)
    BY <1>1 DEF Goto
  <1> HIDE DEF k2
  <1>4. Obeys(c, t, k, k2)
    BY <1>1, <1>2, <1>3, PreemptibleFacts, Mover, Ranges DEF TimerTrap, Obeys, IInv, TypeOK,
       ptab, ident, locks
  <1> QED
    BY <1>4, ObeysInv

\* The handler is done: an interrupted scheduler goes on, a process yields, returns, or exits if it was in user mode.
LEMMA TrapEndInv ==
  ASSUME IInv, TypeOK', NEW c \in CPUS, TrapEnd(c)
  PROVE  IInv'
  <1>1. PICK t \in Threads : Goto(c, t, "trap_end", AfterTrap(t))
    BY DEF TrapEnd
  <1> DEFINE k2 == AfterTrap(t)
  <1>2. /\ "trap_end" \notin PLocked /\ "trap_end" \notin TLocked /\ "trap_end" \in InHandler
        /\ StateAt("trap_end") = "RUNNING"
    BY DEF PLocked, TLocked, InHandler, StateAt
  <1>3. /\ k2 \notin PLocked /\ k2 \notin TLocked
        /\ StateAt(k2) = "RUNNING" /\ k2 \in Points \ {"none", "away"}
        /\ t \in Slot => k2 \in InHandler \/ k2 \notin ForkOwns
    <2>1. ASSUME NEW k \in {"exit_acq", "yield_acq", "trap_ret"}
          PROVE  /\ k \notin PLocked /\ k \notin TLocked
                 /\ StateAt(k) = "RUNNING" /\ k \in Points \ {"none", "away"}
                 /\ k \in InHandler \/ k \notin ForkOwns
      BY PointNames DEF PLocked, TLocked, InHandler, StateAt, ForkOwns
    <2>2. CASE t \in CPUS
      BY <2>2, PreemptibleFacts, Ranges DEF AfterTrap, IInv, TypeOK
    <2>3. CASE t \notin CPUS
      <3>1. k2 \in {"exit_acq", "yield_acq", "trap_ret"}
        BY <2>3 DEF AfterTrap
      <3> HIDE DEF k2
      <3> QED
        BY <2>1, <3>1
    <2> QED
      BY <2>2, <2>3
  <1>4. At(c, t, "trap_end") /\ Goto(c, t, "trap_end", k2)
    BY <1>1 DEF Goto
  <1> HIDE DEF k2
  <1>5. Obeys(c, t, "trap_end", k2)
    <2>1. ASSUME t \in Slot
          PROVE  LET call  == IF "trap_end" \in InHandler THEN ipc[t] ELSE "trap_end"
                     call2 == IF k2 \in InHandler THEN ipc'[t] ELSE k2
                 IN  \/ call2 \notin ForkOwns
                     \/ /\ call \in ForkOwns /\ loc'[t] = loc[t]
                        /\ call \in ForkStacked <=> call2 \in ForkStacked
      BY <1>2, <1>3, <2>1 DEF TrapEnd, frame
    <2> QED
      BY <1>2, <1>3, <1>4, <2>1, Mover, Ranges DEF TrapEnd, Obeys, ptab, ident, locks, frame
  <1> QED
    BY <1>5, ObeysInv

\* The interrupted code goes on, or exits if it was in user mode.
LEMMA TrapReturnInv ==
  ASSUME IInv, TypeOK', NEW c \in CPUS, TrapReturn(c)
  PROVE  IInv'
  <1>1. PICK p \in Slot :
          /\ Goto(c, p, "trap_ret",
                  IF killed[p] /\ ipc[p] = "user" THEN "exit_acq" ELSE ipc[p])
          /\ ipc' = [ipc EXCEPT ![p] = "loop"]
    BY DEF TrapReturn
  <1> DEFINE k2 == IF killed[p] /\ ipc[p] = "user" THEN "exit_acq" ELSE ipc[p]
  <1>2. /\ "trap_ret" \notin PLocked /\ "trap_ret" \notin TLocked /\ "trap_ret" \in InHandler
        /\ StateAt("trap_ret") = "RUNNING"
    BY DEF PLocked, TLocked, InHandler, StateAt
  <1>3. k2 \in Preemptible /\ (k2 \notin ForkOwns \/ k2 = ipc[p])
    BY Ranges DEF IInv, TypeOK, Preemptible, ForkOwns
  <1>4. At(c, p, "trap_ret") /\ Goto(c, p, "trap_ret", k2)
    BY <1>1 DEF Goto
  <1> HIDE DEF k2
  <1>5. Obeys(c, p, "trap_ret", k2)
    BY <1>1, <1>2, <1>3, <1>4, PreemptibleFacts, Mover, Ranges DEF TrapReturn, Obeys, IInv,
       TypeOK, ptab, ident, locks
  <1> QED
    BY <1>5, ObeysInv, Ranges

(***************************************************************************)
(* The two halves of a context switch.                                     *)
(***************************************************************************)

\* scheduler() switches to a process, which finds itself holding ptable.lock.
LEMMA SchedulerRunInv ==
  ASSUME IInv, TypeOK', NEW c \in CPUS, SchedulerRun(c)
  PROVE  IInv'
  <1> USE DEF IInv
  <1>1. PICK p \in Slot : /\ state[p] = "RUNNABLE"
                         /\ state' = [state EXCEPT ![p] = "RUNNING"]
                         /\ proc' = [proc EXCEPT ![c] = p]
    BY DEF SchedulerRun
  <1>2. Goto(c, c, "scan", "away") /\ At(c, c, "scan")
    BY DEF SchedulerRun, Goto
  <1>3. "scan" \in PLocked /\ "scan" \notin TLocked
    BY DEF PLocked, TLocked
  <1>4. /\ c = Thread(c) /\ proc[c] = Nil /\ lock = c /\ tlock # c
        /\ \A u \in Threads \ {c} : pc'[u] = pc[u]
        /\ pc'[c] = "away"
    BY <1>2, <1>3, Mover, GotoPc, PointNames, Ranges
  <1>5. ~OnCpu(p)
    BY <1>1, <1>4, StoppedOffCpu, Ranges
  <1>6. pc[p] \in Parked /\ pc'[p] = pc[p]
    BY <1>1, <1>4, <1>5, Ranges DEF StateMatchesCode, OffCpuPoints
  <1>7. /\ pc[p] \in PLocked /\ pc[p] \notin TLocked
        /\ StateAt(pc[p]) = "RUNNING" /\ pc[p] # "none"
    BY <1>6 DEF Parked, PLocked, TLocked, StateAt
  <1>8. Switching'
    <2>1. OneCpu'
      BY <1>1, <1>5 DEF Switching, OneCpu, OnCpu, TypeOK
    <2>2. ASSUME NEW d \in CPUS
          PROVE  /\ Thread(d)' = IF d = c THEN p ELSE Thread(d)
                 /\ d # c => Thread(d) # c /\ Thread(d) \in Threads
      BY <1>1, <1>4, ThreadUnique, ThreadType, Ranges DEF Thread, TypeOK, Switching
    <2>3. OnCpuCode'
      BY <1>1, <1>4, <1>6, <1>7, Ranges DEF Switching, OnCpuCode, TypeOK
    <2>4. LockDiscipline'
      <3> SUFFICES ASSUME NEW d \in CPUS
                   PROVE  /\ proc'[d] # Nil <=> pc'[d] = "away"
                          /\ lock' = d <=> pc'[Thread(d)'] \in PLocked
                          /\ tlock' = d <=> pc'[Thread(d)'] \in TLocked
        BY DEF LockDiscipline
      <3>1. lock' = lock /\ tlock' = tlock
        BY DEF SchedulerRun, locks
      <3>2. CASE d = c
        BY <1>1, <1>4, <1>6, <1>7, <2>2, <3>1, <3>2, Ranges DEF TypeOK
      <3>3. CASE d # c
        <4>1. pc'[Thread(d)'] = pc[Thread(d)] /\ pc'[d] = pc[d] /\ proc'[d] = proc[d]
          BY <1>1, <1>4, <2>2, <3>3, Ranges DEF TypeOK
        <4> QED
          BY <1>4, <3>1, <3>3, <4>1 DEF Switching, LockDiscipline
      <3> QED
        BY <3>2, <3>3
    <2> QED
      BY <2>1, <2>3, <2>4 DEF Switching
  <1>9. StateMatchesCode'
    <2> SUFFICES ASSUME NEW q \in Slot
                 PROVE  /\ OnCpu(q)' => state'[q] = StateAt(pc'[q])
                        /\ ~OnCpu(q)' => pc'[q] \in OffCpuPoints(state'[q])
                        /\ kstack'[q] <=> pc'[q] # "none"
      BY DEF StateMatchesCode, StateAt, OffCpuPoints, Parked
    <2>1. pc'[q] = pc[q] /\ kstack' = kstack
      BY <1>4, Ranges DEF SchedulerRun, ident
    <2>2. CASE q = p
      <3>1. OnCpu(q)'
        BY <1>1, <2>2 DEF OnCpu, TypeOK
      <3> QED
        BY <1>1, <1>7, <2>1, <2>2, <3>1 DEF StateMatchesCode, TypeOK
    <2>3. CASE q # p
      <3>1. OnCpu(q)' <=> OnCpu(q)
        BY <1>1, <1>4, <2>3, Ranges DEF OnCpu, TypeOK
      <3> QED
        BY <1>1, <2>1, <2>3, <3>1 DEF StateMatchesCode, TypeOK
    <2> QED
      BY <2>2, <2>3
  <1>10. EmbryoOwned'
    <2>1. \A q \in Slot : pc'[q] = pc[q] /\ CallPoint(q)' = CallPoint(q) /\ loc'[q] = loc[q]
      BY <1>4, Ranges DEF CallPoint, SchedulerRun, frame
    <2>2. \A q \in Slot : state[q] = "EMBRYO" => state'[q] = "EMBRYO"
      BY <1>1 DEF TypeOK
    <2> QED
      BY <2>1, <2>2, EmbryoKept
  <1> QED
    BY <1>8, <1>9, <1>10

\* sched() switches to the scheduler, which finds itself holding ptable.lock.
LEMMA SchedInv ==
  ASSUME IInv, TypeOK', NEW c \in CPUS, Sched(c)
  PROVE  IInv'
  <1> USE DEF IInv
  <1>1. PICK p \in Slot, e \in Scheds :
          At(c, p, e[1]) /\ pc' = [pc EXCEPT ![p] = e[2], ![c] = "back"]
    BY DEF Sched
  <1>2. /\ e[1] \in PLocked /\ e[1] \notin TLocked /\ e[2] # "none"
        /\ e[2] \in OffCpuPoints(StateAt(e[1]))
        /\ e[2] \notin ForkOwns
        /\ e[1] \in InHandler <=> e[2] \in InHandler
    BY DEF Scheds, PLocked, TLocked, OffCpuPoints, StateAt, Parked, ForkOwns, InHandler
  <1>3. "back" \in PLocked /\ "back" \notin TLocked
    BY DEF PLocked, TLocked
  <1>4. /\ p = Thread(c) /\ p # c /\ proc[c] = p /\ lock = c /\ tlock # c
        /\ pc[p] = e[1] /\ state[p] = StateAt(e[1])
    BY <1>1, <1>2, Mover, Ranges DEF At
  <1>5. /\ pc'[c] = "back" /\ pc'[p] = e[2]
        /\ \A u \in Threads \ {p, c} : pc'[u] = pc[u]
    BY <1>1, <1>4, Ranges DEF TypeOK
  <1>6. proc' = [proc EXCEPT ![c] = Nil]
    BY DEF Sched
  <1>7. Switching'
    <2>1. OneCpu'
      BY <1>6 DEF Switching, OneCpu, TypeOK
    <2>2. ASSUME NEW d \in CPUS
          PROVE  /\ Thread(d)' = IF d = c THEN c ELSE Thread(d)
                 /\ d # c => Thread(d) \notin {p, c} /\ Thread(d) \in Threads
      <3>1. Thread(d)' = IF d = c THEN c ELSE Thread(d)
        BY <1>6 DEF Thread, TypeOK
      <3>2. ASSUME d # c PROVE Thread(d) # p /\ Thread(d) \in Threads
        BY <1>4, <3>2, ThreadUnique, ThreadType DEF Switching
      <3>3. ASSUME d # c PROVE Thread(d) # c
        BY <1>4, <3>3, Ranges DEF Thread, TypeOK
      <3> QED
        BY <3>1, <3>2, <3>3
    <2>3. OnCpuCode'
      <3> SUFFICES ASSUME NEW d \in CPUS, proc'[d] # Nil PROVE pc'[proc'[d]] # "none"
        BY DEF OnCpuCode
      <3>1. d # c /\ proc'[d] = proc[d] /\ Thread(d) = proc[d]
        BY <1>6 DEF TypeOK, Thread
      <3> QED
        BY <1>5, <2>2, <3>1 DEF Switching, OnCpuCode
    <2>4. LockDiscipline'
      <3> SUFFICES ASSUME NEW d \in CPUS
                   PROVE  /\ proc'[d] # Nil <=> pc'[d] = "away"
                          /\ lock' = d <=> pc'[Thread(d)'] \in PLocked
                          /\ tlock' = d <=> pc'[Thread(d)'] \in TLocked
        BY DEF LockDiscipline
      <3>1. lock' = lock /\ tlock' = tlock
        BY DEF Sched, locks
      <3>2. CASE d = c
        BY <1>3, <1>4, <1>5, <1>6, <2>2, <3>1, <3>2 DEF TypeOK
      <3>3. CASE d # c
        <4>1. d \notin {p, c} /\ d \in Threads
          BY <3>3, Ranges
        <4>2. pc'[Thread(d)'] = pc[Thread(d)] /\ pc'[d] = pc[d] /\ proc'[d] = proc[d]
          BY <1>5, <1>6, <2>2, <3>3, <4>1 DEF TypeOK
        <4> QED
          BY <1>4, <3>1, <3>3, <4>2 DEF Switching, LockDiscipline
      <3> QED
        BY <3>2, <3>3
    <2> QED
      BY <2>1, <2>3, <2>4 DEF Switching
  <1>8. state' = state /\ kstack' = kstack /\ loc' = loc /\ ipc' = ipc
    BY DEF Sched, ptab, ident, frame
  <1>9. StateMatchesCode'
    <2> SUFFICES ASSUME NEW q \in Slot
                 PROVE  /\ OnCpu(q)' => state'[q] = StateAt(pc'[q])
                        /\ ~OnCpu(q)' => pc'[q] \in OffCpuPoints(state'[q])
                        /\ kstack'[q] <=> pc'[q] # "none"
      BY DEF StateMatchesCode, StateAt, OffCpuPoints, Parked
    <2>1. CASE q = p
      <3>1. ~OnCpu(q)'
        BY <1>4, <1>6, <2>1, Ranges DEF OnCpu, TypeOK, Switching, OneCpu
      <3>2. kstack[p]
        BY <1>4, Ranges DEF StateMatchesCode, Switching, OnCpuCode
      <3> QED
        BY <1>2, <1>4, <1>5, <1>8, <2>1, <3>1, <3>2
    <2>2. CASE q # p
      <3>1. OnCpu(q)' <=> OnCpu(q)
        BY <1>4, <1>6, <2>2, Ranges DEF OnCpu, TypeOK
      <3>2. pc'[q] = pc[q]
        BY <1>5, <2>2, Ranges
      <3> QED
        BY <1>8, <3>1, <3>2 DEF StateMatchesCode
    <2> QED
      BY <2>1, <2>2
  <1>10. EmbryoOwned'
    <2>1. \A q \in Slot \ {p} : pc'[q] = pc[q] /\ CallPoint(q)' = CallPoint(q)
      BY <1>5, <1>8, Ranges DEF CallPoint
    <2>2. CallPoint(p)' = CallPoint(p) \/ CallPoint(p)' \notin ForkOwns
      BY <1>2, <1>4, <1>5, <1>8 DEF CallPoint
    <2>3. state[p] # "EMBRYO"
      BY <1>4 DEF StateAt
    <2> QED
      BY <1>8, <2>1, <2>2, <2>3, EmbryoKept
  <1> QED
    BY <1>7, <1>9, <1>10

(***************************************************************************)
(* fork() and wait(): steps that touch the slot of another process.        *)
(***************************************************************************)

\* A slot z on no CPU changes its control point together with the mover p.
PairGoto(c, p, k, k2, z, k3) ==
  At(c, p, k) /\ pc' = [pc EXCEPT ![p] = k2, ![z] = k3]

\* What such a step means for the other threads.
LEMMA TwoPc ==
  ASSUME TypeOK, Switching, NEW c \in CPUS, NEW p \in Slot, NEW k,
         NEW z \in Slot, ~OnCpu(z), NEW k2 \in Points, NEW k3 \in Points,
         PairGoto(c, p, k, k2, z, k3)
  PROVE  /\ z # p /\ pc'[p] = k2 /\ pc'[z] = k3 /\ pc[p] = k
         /\ pc' \in [Threads -> Points]
         /\ \A u \in Threads \ {p, z} : pc'[u] = pc[u]
         /\ \A d \in CPUS \ {c} : pc'[Thread(d)] = pc[Thread(d)]
         /\ \A d \in CPUS : pc'[d] = IF d = p THEN k2 ELSE pc[d]
  <1>1. p = Thread(c) /\ pc[p] = k /\ z # p
    BY OnCpuThread DEF PairGoto, At
  <1>2. [pc EXCEPT ![p] = k2] \in [Threads -> Points]
    BY Ranges DEF TypeOK
  <1>3. /\ pc'[p] = k2 /\ pc'[z] = k3 /\ pc' \in [Threads -> Points]
        /\ \A u \in Threads \ {p, z} : pc'[u] = pc[u]
    BY <1>1, <1>2, Ranges DEF PairGoto, TypeOK
  <1>4. ASSUME NEW d \in CPUS \ {c} PROVE Thread(d) \in Threads \ {p, z}
    BY <1>1, OnCpuThread, ThreadUnique, ThreadType DEF Switching
  <1>5. \A d \in CPUS : d \in Threads \ {p, z}
    BY Ranges
  <1> QED
    BY <1>1, <1>3, <1>4, <1>5, Ranges

\* A step of p that changes the state, the point or the stack of one slot z
\* that is on no CPU, and of p itself.
LEMMA PairState ==
  ASSUME TypeOK, Switching, StateMatchesCode, NEW c \in CPUS, NEW p \in Slot, NEW k, At(c, p, k),
         NEW z \in Slot, ~OnCpu(z), z # p, UNCHANGED proc,
         state'[p] = StateAt(pc'[p]), pc'[p] # "none", kstack'[p] = kstack[p],
         pc'[z] \in OffCpuPoints(state'[z]), kstack'[z] <=> pc'[z] # "none",
         \A q \in Slot \ {p, z} :
            state'[q] = state[q] /\ pc'[q] = pc[q] /\ kstack'[q] = kstack[q]
  PROVE  StateMatchesCode'
  <1> SUFFICES ASSUME NEW q \in Slot
               PROVE  /\ OnCpu(q)' => state'[q] = StateAt(pc'[q])
                      /\ ~OnCpu(q)' => pc'[q] \in OffCpuPoints(state'[q])
                      /\ kstack'[q] <=> pc'[q] # "none"
    BY DEF StateMatchesCode, StateAt, OffCpuPoints, Parked
  <1>1. OnCpu(q)' <=> OnCpu(q)
    BY DEF OnCpu
  <1>2. OnCpu(p) /\ pc[p] # "none"
    BY OnCpuThread, Ranges DEF At, Switching, OnCpuCode, OnCpu
  <1>3. CASE q = p
    BY <1>1, <1>2, <1>3 DEF StateMatchesCode
  <1>4. CASE q = z
    BY <1>1, <1>4
  <1>5. CASE q \notin {p, z}
    BY <1>1, <1>5 DEF StateMatchesCode
  <1> QED
    BY <1>3, <1>4, <1>5

\* EmbryoOwned after a step of p that leaves the slots of others alone.
LEMMA EmbryoStep ==
  ASSUME EmbryoOwned, NEW p \in Slot,
         \A q \in Slot \ {p} : CallPoint(q)' \in ForkOwns =>
            /\ CallPoint(q)' = CallPoint(q) /\ loc'[q] = loc[q]
            /\ state'[loc[q]] = "EMBRYO" /\ pc'[loc[q]] = pc[loc[q]]
            /\ CallPoint(p)' \in ForkOwns => loc'[p] # loc[q],
         CallPoint(p)' \in ForkOwns =>
            /\ loc'[p] \in Slot /\ state'[loc'[p]] = "EMBRYO"
            /\ pc'[loc'[p]] = IF CallPoint(p)' \in ForkStacked THEN "forkret" ELSE "none"
  PROVE  EmbryoOwned'
  <1> SUFFICES ASSUME NEW q \in Slot, CallPoint(q)' \in ForkOwns
               PROVE  /\ loc'[q] \in Slot /\ state'[loc'[q]] = "EMBRYO"
                      /\ pc'[loc'[q]] = IF CallPoint(q)' \in ForkStacked
                                        THEN "forkret" ELSE "none"
                      /\ \A r \in Slot \ {q} :
                            CallPoint(r)' \in ForkOwns => loc'[r] # loc'[q]
    BY DEF EmbryoOwned
  <1>1. CASE q = p
    BY <1>1
  <1>2. CASE q # p
    <2>1. /\ CallPoint(q) \in ForkOwns /\ loc'[q] = loc[q]
          /\ state'[loc[q]] = "EMBRYO" /\ pc'[loc[q]] = pc[loc[q]]
      BY <1>2
    <2>2. ASSUME NEW r \in Slot \ {q}, CallPoint(r)' \in ForkOwns PROVE loc'[r] # loc'[q]
      BY <1>2, <2>1, <2>2 DEF EmbryoOwned
    <2> QED
      BY <1>2, <2>1, <2>2 DEF EmbryoOwned
  <1> QED
    BY <1>1, <1>2

\* allocproc() takes a slot, which nobody else owns.
LEMMA AllocprocScanInv ==
  ASSUME IInv, TypeOK', NEW c \in CPUS, AllocprocScan(c)
  PROVE  IInv'
  <1> USE DEF IInv
  <1>1. PICK p \in Slot :
          \/ \E q \in Slot :
               /\ q \in FreeSlots /\ Goto(c, p, "fork_scan", "fork_kalloc")
               /\ state' = [state EXCEPT ![q] = "EMBRYO"]
               /\ loc' = [loc EXCEPT ![p] = q]
          \/ Goto(c, p, "fork_scan", "sysret") /\ UNCHANGED <<state, loc>>
    BY DEF AllocprocScan, First
  <1>2. At(c, p, "fork_scan")
    BY <1>1 DEF Goto
  <1>3. /\ "fork_scan" \in PLocked /\ "fork_scan" \notin TLocked
        /\ "fork_scan" \notin InHandler /\ StateAt("fork_scan") = "RUNNING"
    BY DEF PLocked, TLocked, InHandler, StateAt
  <1>4. /\ lock' = NoCpu /\ tlock' = tlock /\ proc' = proc /\ kstack' = kstack /\ ipc' = ipc
    BY DEF AllocprocScan
  <1>5. CASE Goto(c, p, "fork_scan", "sysret") /\ UNCHANGED <<state, loc>>
    <2>1. /\ "sysret" \notin PLocked /\ "sysret" \notin TLocked /\ "sysret" \notin InHandler
          /\ StateAt("sysret") = "RUNNING" /\ "sysret" \notin ForkOwns
          /\ "sysret" \in Points \ {"none", "away"}
      BY PointNames DEF PLocked, TLocked, InHandler, StateAt, ForkOwns
    <2>2. Obeys(c, p, "fork_scan", "sysret")
      BY <1>2, <1>3, <1>4, <1>5, <2>1, Mover, Ranges DEF Obeys, TypeOK
    <2> QED
      BY <2>2, ObeysInv, Ranges
  <1>6. ASSUME NEW q \in Slot, q \in FreeSlots, Goto(c, p, "fork_scan", "fork_kalloc"),
               state' = [state EXCEPT ![q] = "EMBRYO"], loc' = [loc EXCEPT ![p] = q]
        PROVE  IInv'
    <2>1. /\ "fork_kalloc" \notin PLocked /\ "fork_kalloc" \notin TLocked
          /\ "fork_kalloc" \notin InHandler /\ StateAt("fork_kalloc") = "RUNNING"
          /\ "fork_kalloc" \notin ForkStacked /\ "fork_kalloc" \in Points \ {"none", "away"}
      BY PointNames DEF PLocked, TLocked, InHandler, StateAt, ForkStacked
    <2>2. /\ pc'[p] = "fork_kalloc" /\ pc' \in [Threads -> Points]
          /\ \A u \in Threads \ {p} : pc'[u] = pc[u]
          /\ \A d \in CPUS \ {c} : pc'[Thread(d)] = pc[Thread(d)]
          /\ \A d \in CPUS : pc'[d] = IF d = p THEN "fork_kalloc" ELSE pc[d]
      BY <1>6, <2>1, GotoPc, Ranges
    <2>3. Switching'
      BY <1>2, <1>3, <1>4, <2>1, <2>2, Mover, Ranges, GotoSwitching
    <2>4. state[q] = "UNUSED" /\ ~OnCpu(q) /\ q # p /\ pc[q] = "none" /\ state[p] = "RUNNING"
      <3>1. state[q] = "UNUSED"
        BY <1>6 DEF FreeSlots
      <3>2. ~OnCpu(q)
        BY <3>1, HiddenOffCpu
      <3>3. state[p] = "RUNNING"
        BY <1>2, <1>3, Mover, Ranges
      <3> QED
        BY <3>1, <3>2, <3>3 DEF StateMatchesCode, OffCpuPoints
    <2>5. StateMatchesCode'
      <3>1. state'[p] = "RUNNING" /\ state'[q] = "EMBRYO" /\ pc'[q] = "none"
            /\ \A r \in Slot \ {p, q} : state'[r] = state[r] /\ pc'[r] = pc[r]
        BY <1>6, <2>2, <2>4, Ranges DEF TypeOK
      <3>2. pc'[q] \in OffCpuPoints(state'[q])
        BY <3>1 DEF OffCpuPoints
      <3>3. kstack'[q] <=> pc'[q] # "none"
        BY <1>4, <2>4, <3>1 DEF StateMatchesCode
      <3> QED
        BY <1>2, <1>4, <2>1, <2>2, <2>4, <3>1, <3>2, <3>3, PairState
    <2>6. EmbryoOwned'
      <3>1. \A r \in Slot \ {p} : CallPoint(r)' = CallPoint(r) /\ loc'[r] = loc[r]
        BY <1>4, <1>6, <2>2, Ranges DEF CallPoint, TypeOK
      <3>2. CallPoint(p)' = "fork_kalloc" /\ loc'[p] = q
        BY <1>6, <2>1, <2>2 DEF CallPoint, TypeOK
      <3>3. ASSUME NEW r \in Slot \ {p}, CallPoint(r) \in ForkOwns
            PROVE  /\ state'[loc[r]] = "EMBRYO" /\ pc'[loc[r]] = pc[loc[r]] /\ loc[r] # q
        <4>1. loc[r] \in Slot /\ state[loc[r]] = "EMBRYO"
          BY <3>3 DEF EmbryoOwned
        <4> QED
          BY <1>6, <2>2, <2>4, <4>1, Ranges DEF TypeOK
      <3>4. state'[q] = "EMBRYO" /\ pc'[q] = "none"
        BY <1>6, <2>2, <2>4, Ranges DEF TypeOK
      <3> QED
        BY <2>1, <3>1, <3>2, <3>3, <3>4, EmbryoStep
    <2> QED
      BY <2>3, <2>5, <2>6
  <1> QED
    BY <1>1, <1>5, <1>6

\* allocproc() gets a stack for the slot, or none.
LEMMA AllocprocStackInv ==
  ASSUME IInv, TypeOK', NEW c \in CPUS, AllocprocStack(c)
  PROVE  IInv'
  <1> USE DEF IInv
  <1>1. PICK p \in Slot :
          \/ /\ At(c, p, "fork_kalloc")
             /\ kstack' = [kstack EXCEPT ![loc[p]] = TRUE]
             /\ pc' = [pc EXCEPT ![p] = "fork_copy", ![loc[p]] = "forkret"]
          \/ Goto(c, p, "fork_kalloc", "fork_undo_acq") /\ UNCHANGED kstack
    BY DEF AllocprocStack
  <1>2. At(c, p, "fork_kalloc")
    BY <1>1 DEF Goto
  <1>3. /\ "fork_kalloc" \notin PLocked /\ "fork_kalloc" \notin TLocked
        /\ "fork_kalloc" \notin InHandler /\ StateAt("fork_kalloc") = "RUNNING"
        /\ "fork_kalloc" \in ForkOwns /\ "fork_kalloc" \notin ForkStacked
    BY DEF PLocked, TLocked, InHandler, StateAt, ForkOwns, ForkStacked
  <1>4. UNCHANGED <<state, lock, tlock, proc, ipc, loc>>
    BY DEF AllocprocStack, locks, frame
  <1>5. CASE Goto(c, p, "fork_kalloc", "fork_undo_acq") /\ UNCHANGED kstack
    <2>1. /\ "fork_undo_acq" \notin PLocked /\ "fork_undo_acq" \notin TLocked
          /\ "fork_undo_acq" \notin InHandler /\ StateAt("fork_undo_acq") = "RUNNING"
          /\ "fork_undo_acq" \in ForkOwns /\ "fork_undo_acq" \notin ForkStacked
          /\ "fork_undo_acq" \in Points \ {"none", "away"}
      BY PointNames DEF PLocked, TLocked, InHandler, StateAt, ForkOwns, ForkStacked
    <2>2. Obeys(c, p, "fork_kalloc", "fork_undo_acq")
      BY <1>2, <1>3, <1>4, <1>5, <2>1, Mover, Ranges DEF Obeys
    <2> QED
      BY <2>2, ObeysInv, Ranges
  <1>6. ASSUME kstack' = [kstack EXCEPT ![loc[p]] = TRUE],
               pc' = [pc EXCEPT ![p] = "fork_copy", ![loc[p]] = "forkret"]
        PROVE  IInv'
    <2>1. /\ "fork_copy" \notin PLocked /\ "fork_copy" \notin TLocked
          /\ "fork_copy" \notin InHandler /\ "forkret" \notin InHandler
          /\ StateAt("fork_copy") = "RUNNING" /\ "fork_copy" \in ForkStacked
          /\ "forkret" \notin ForkOwns /\ "forkret" \in Points
          /\ "fork_copy" \in Points \ {"none", "away"}
      BY PointNames DEF PLocked, TLocked, InHandler, StateAt, ForkStacked, ForkOwns
    <2>2. PICK z \in Slot :
            /\ z = loc[p] /\ state[z] = "EMBRYO" /\ pc[z] = "none"
            /\ \A q \in Slot \ {p} : CallPoint(q) \in ForkOwns => loc[q] # z
      BY <1>2, <1>3, ForkSlot DEF At
    <2>3. ~OnCpu(z)
      BY <2>2, HiddenOffCpu
    <2>4. /\ z # p /\ pc'[p] = "fork_copy" /\ pc'[z] = "forkret"
          /\ pc' \in [Threads -> Points]
          /\ \A u \in Threads \ {p, z} : pc'[u] = pc[u]
          /\ \A d \in CPUS \ {c} : pc'[Thread(d)] = pc[Thread(d)]
          /\ \A d \in CPUS : pc'[d] = IF d = p THEN "fork_copy" ELSE pc[d]
      <3>1. PairGoto(c, p, "fork_kalloc", "fork_copy", z, "forkret")
        BY <1>2, <1>6, <2>2 DEF PairGoto
      <3>2. "fork_copy" \in Points /\ "forkret" \in Points
        BY <2>1
      <3>3. /\ z # p /\ pc' \in [Threads -> Points]
            /\ \A d \in CPUS \ {c} : pc'[Thread(d)] = pc[Thread(d)]
            /\ \A d \in CPUS : pc'[d] = IF d = p THEN "fork_copy" ELSE pc[d]
        BY <2>3, <3>1, <3>2, TwoPc
      <3>4. /\ pc'[p] = "fork_copy" /\ pc'[z] = "forkret"
            /\ \A u \in Threads \ {p, z} : pc'[u] = pc[u]
        BY <3>1, <3>3, Ranges DEF PairGoto, TypeOK
      <3> QED
        BY <3>3, <3>4
    <2>5. Switching'
      BY <1>2, <1>3, <1>4, <2>1, <2>4, Mover, Ranges, GotoSwitching
    <2>6. StateMatchesCode'
      <3>1. state'[p] = StateAt(pc'[p])
        BY <1>2, <1>3, <1>4, <2>1, <2>4, Mover, Ranges
      <3>2. pc'[z] \in OffCpuPoints(state'[z])
        BY <1>4, <2>2, <2>4 DEF OffCpuPoints
      <3>3. kstack' = [kstack EXCEPT ![z] = TRUE]
        BY <1>6, <2>2
      <3>4. /\ kstack'[p] = kstack[p] /\ kstack'[z]
            /\ \A q \in Slot \ {p, z} : kstack'[q] = kstack[q]
        BY <2>2, <2>4, <3>3 DEF TypeOK
      <3> QED
        BY <1>2, <1>4, <2>2, <2>3, <2>4, <3>1, <3>2, <3>4, PairState, Ranges
    <2>7. EmbryoOwned'
      <3>1. \A q \in Slot \ {p} : CallPoint(q)' = CallPoint(q) \/ CallPoint(q)' \notin ForkOwns
        BY <1>4, <2>1, <2>4, Ranges DEF CallPoint
      <3>2. CallPoint(p)' = "fork_copy" /\ loc'[p] = z
        BY <1>4, <2>1, <2>2, <2>4 DEF CallPoint
      <3>3. ASSUME NEW q \in Slot \ {p}, CallPoint(q) \in ForkOwns
            PROVE  /\ state'[loc[q]] = "EMBRYO" /\ pc'[loc[q]] = pc[loc[q]]
                   /\ loc[q] # z /\ loc'[q] = loc[q]
        <4>1. loc[q] \in Slot /\ state[loc[q]] = "EMBRYO" /\ loc[q] # z
          BY <2>2, <3>3 DEF EmbryoOwned
        <4>2. loc[q] # p
          BY <1>2, <1>3, <4>1, Mover, Ranges
        <4> QED
          BY <1>4, <2>4, <4>1, <4>2, Ranges
      <3> QED
        BY <1>4, <2>1, <2>2, <2>4, <3>1, <3>2, <3>3, EmbryoStep
    <2> QED
      BY <2>5, <2>6, <2>7
  <1> QED
    BY <1>1, <1>5, <1>6

\* fork() copies the parent, or frees the stack of the slot.
LEMMA ForkCopyInv ==
  ASSUME IInv, TypeOK', NEW c \in CPUS, ForkCopy(c)
  PROVE  IInv'
  <1> USE DEF IInv
  <1>1. PICK p \in Slot :
          \/ Goto(c, p, "fork_copy", "fork_pub_acq") /\ UNCHANGED kstack
          \/ /\ At(c, p, "fork_copy")
             /\ kstack' = [kstack EXCEPT ![loc[p]] = FALSE]
             /\ pc' = [pc EXCEPT ![p] = "fork_undo_acq", ![loc[p]] = "none"]
    BY DEF ForkCopy
  <1>2. At(c, p, "fork_copy")
    BY <1>1 DEF Goto
  <1>3. /\ "fork_copy" \notin PLocked /\ "fork_copy" \notin TLocked
        /\ "fork_copy" \notin InHandler /\ StateAt("fork_copy") = "RUNNING"
        /\ "fork_copy" \in ForkOwns /\ "fork_copy" \in ForkStacked
    BY DEF PLocked, TLocked, InHandler, StateAt, ForkOwns, ForkStacked
  <1>4. UNCHANGED <<state, lock, tlock, proc, ipc, loc>>
    BY DEF ForkCopy, locks, frame
  <1>5. CASE Goto(c, p, "fork_copy", "fork_pub_acq") /\ UNCHANGED kstack
    <2>1. /\ "fork_pub_acq" \notin PLocked /\ "fork_pub_acq" \notin TLocked
          /\ "fork_pub_acq" \notin InHandler /\ StateAt("fork_pub_acq") = "RUNNING"
          /\ "fork_pub_acq" \in ForkOwns /\ "fork_pub_acq" \in ForkStacked
          /\ "fork_pub_acq" \in Points \ {"none", "away"}
      BY PointNames DEF PLocked, TLocked, InHandler, StateAt, ForkOwns, ForkStacked
    <2>2. Obeys(c, p, "fork_copy", "fork_pub_acq")
      BY <1>2, <1>3, <1>4, <1>5, <2>1, Mover, Ranges DEF Obeys
    <2> QED
      BY <2>2, ObeysInv, Ranges
  <1>6. ASSUME kstack' = [kstack EXCEPT ![loc[p]] = FALSE],
               pc' = [pc EXCEPT ![p] = "fork_undo_acq", ![loc[p]] = "none"]
        PROVE  IInv'
    <2>1. /\ "fork_undo_acq" \notin PLocked /\ "fork_undo_acq" \notin TLocked
          /\ "fork_undo_acq" \notin InHandler /\ "none" \notin InHandler
          /\ StateAt("fork_undo_acq") = "RUNNING" /\ "fork_undo_acq" \notin ForkStacked
          /\ "none" \notin ForkOwns /\ "none" \in Points
          /\ "fork_undo_acq" \in Points \ {"none", "away"}
      BY PointNames DEF PLocked, TLocked, InHandler, StateAt, ForkStacked, ForkOwns
    <2>2. PICK z \in Slot :
            /\ z = loc[p] /\ state[z] = "EMBRYO" /\ pc[z] = "forkret"
            /\ \A q \in Slot \ {p} : CallPoint(q) \in ForkOwns => loc[q] # z
      BY <1>2, <1>3, ForkSlot DEF At
    <2>3. ~OnCpu(z)
      BY <2>2, HiddenOffCpu
    <2>4. /\ z # p /\ pc'[p] = "fork_undo_acq" /\ pc'[z] = "none"
          /\ pc' \in [Threads -> Points]
          /\ \A u \in Threads \ {p, z} : pc'[u] = pc[u]
          /\ \A d \in CPUS \ {c} : pc'[Thread(d)] = pc[Thread(d)]
          /\ \A d \in CPUS : pc'[d] = IF d = p THEN "fork_undo_acq" ELSE pc[d]
      <3>1. PairGoto(c, p, "fork_copy", "fork_undo_acq", z, "none")
        BY <1>2, <1>6, <2>2 DEF PairGoto
      <3>2. "fork_undo_acq" \in Points /\ "none" \in Points
        BY <2>1
      <3>3. /\ z # p /\ pc' \in [Threads -> Points]
            /\ \A d \in CPUS \ {c} : pc'[Thread(d)] = pc[Thread(d)]
            /\ \A d \in CPUS : pc'[d] = IF d = p THEN "fork_undo_acq" ELSE pc[d]
        BY <2>3, <3>1, <3>2, TwoPc
      <3>4. /\ pc'[p] = "fork_undo_acq" /\ pc'[z] = "none"
            /\ \A u \in Threads \ {p, z} : pc'[u] = pc[u]
        BY <3>1, <3>3, Ranges DEF PairGoto, TypeOK
      <3> QED
        BY <3>3, <3>4
    <2>5. Switching'
      BY <1>2, <1>3, <1>4, <2>1, <2>4, Mover, Ranges, GotoSwitching
    <2>6. StateMatchesCode'
      <3>1. state'[p] = StateAt(pc'[p])
        BY <1>2, <1>3, <1>4, <2>1, <2>4, Mover, Ranges
      <3>2. pc'[z] \in OffCpuPoints(state'[z])
        BY <1>4, <2>2, <2>4 DEF OffCpuPoints
      <3>3. kstack' = [kstack EXCEPT ![z] = FALSE]
        BY <1>6, <2>2
      <3>4. /\ kstack'[p] = kstack[p] /\ ~kstack'[z]
            /\ \A q \in Slot \ {p, z} : kstack'[q] = kstack[q]
        BY <2>2, <2>4, <3>3 DEF TypeOK
      <3> QED
        BY <1>2, <1>4, <2>2, <2>3, <2>4, <3>1, <3>2, <3>4, PairState, Ranges
    <2>7. EmbryoOwned'
      <3>1. \A q \in Slot \ {p} : CallPoint(q)' = CallPoint(q) \/ CallPoint(q)' \notin ForkOwns
        BY <1>4, <2>1, <2>4, Ranges DEF CallPoint
      <3>2. CallPoint(p)' = "fork_undo_acq" /\ loc'[p] = z
        BY <1>4, <2>1, <2>2, <2>4 DEF CallPoint
      <3>3. ASSUME NEW q \in Slot \ {p}, CallPoint(q) \in ForkOwns
            PROVE  /\ state'[loc[q]] = "EMBRYO" /\ pc'[loc[q]] = pc[loc[q]]
                   /\ loc[q] # z /\ loc'[q] = loc[q]
        <4>1. loc[q] \in Slot /\ state[loc[q]] = "EMBRYO" /\ loc[q] # z
          BY <2>2, <3>3 DEF EmbryoOwned
        <4>2. loc[q] # p
          BY <1>2, <1>3, <4>1, Mover, Ranges
        <4> QED
          BY <1>4, <2>4, <4>1, <4>2, Ranges
      <3> QED
        BY <1>4, <2>1, <2>2, <2>4, <3>1, <3>2, <3>3, EmbryoStep
    <2> QED
      BY <2>5, <2>6, <2>7
  <1> QED
    BY <1>1, <1>5, <1>6

\* fork() publishes the child or frees the slot.
LEMMA ForkEndInv ==
  ASSUME IInv, TypeOK', NEW c \in CPUS, ForkEnd(c)
  PROVE  IInv'
  <1> USE DEF IInv
  <1>1. PICK p \in Slot :
          \/ /\ Goto(c, p, ForkPublishes, "sysret")
             /\ state' = [state EXCEPT ![loc[p]] = "RUNNABLE"]
          \/ /\ Goto(c, p, ForkUndoes, "sysret")
             /\ state' = [state EXCEPT ![loc[p]] = "UNUSED"]
    BY DEF ForkEnd
  <1>2. PICK k \in {ForkPublishes, ForkUndoes} :
          /\ Goto(c, p, k, "sysret")
          /\ state' = [state EXCEPT ![loc[p]] = IF k \in ForkStacked THEN "RUNNABLE" ELSE "UNUSED"]
    <2>1. ForkPublishes \in ForkStacked /\ ForkUndoes \notin ForkStacked
      BY DEF ForkPublishes, ForkUndoes, ForkStacked
    <2> QED
      BY <1>1, <2>1
  <1>3. /\ k \notin TLocked /\ k \notin InHandler /\ StateAt(k) = "RUNNING"
        /\ k \in ForkOwns /\ k # "away" /\ (k \in PLocked <=> Tree = "A")
    BY <1>2 DEF ForkPublishes, ForkUndoes, PLocked, TLocked, InHandler, StateAt, ForkOwns
  <1>4. /\ "sysret" \notin PLocked /\ "sysret" \notin TLocked /\ "sysret" \notin InHandler
        /\ StateAt("sysret") = "RUNNING" /\ "sysret" \notin ForkOwns
        /\ "sysret" \in Points \ {"none", "away"}
    BY PointNames DEF PLocked, TLocked, InHandler, StateAt, ForkOwns
  <1>5. At(c, p, k) /\ pc[p] = k
    BY <1>2 DEF Goto, At
  <1>6. /\ UNCHANGED <<kstack, tlock, proc, ipc, loc>>
        /\ lock' = IF k \in PLocked THEN NoCpu ELSE lock
    BY <1>3 DEF ForkEnd, ident, frame
  <1>7. /\ pc'[p] = "sysret" /\ pc' \in [Threads -> Points]
        /\ \A u \in Threads \ {p} : pc'[u] = pc[u]
        /\ \A d \in CPUS \ {c} : pc'[Thread(d)] = pc[Thread(d)]
        /\ \A d \in CPUS : pc'[d] = IF d = p THEN "sysret" ELSE pc[d]
    BY <1>2, <1>4, GotoPc, Ranges
  <1>8. Switching'
    BY <1>3, <1>4, <1>5, <1>6, <1>7, GotoSwitching
  <1>9. PICK z \in Slot :
          /\ z = loc[p] /\ state[z] = "EMBRYO"
          /\ pc[z] = IF k \in ForkStacked THEN "forkret" ELSE "none"
          /\ \A q \in Slot \ {p} : CallPoint(q) \in ForkOwns => loc[q] # z
    BY <1>3, <1>5, ForkSlot
  <1>10. ~OnCpu(z) /\ state[p] = "RUNNING" /\ z # p
    BY <1>3, <1>5, <1>9, HiddenOffCpu, Mover, Ranges
  <1>11. /\ state'[z] = IF k \in ForkStacked THEN "RUNNABLE" ELSE "UNUSED"
         /\ state'[p] = "RUNNING" /\ pc'[z] = pc[z]
         /\ \A q \in Slot \ {z} : state'[q] = state[q]
    BY <1>2, <1>7, <1>9, <1>10, Ranges DEF TypeOK
  <1>12. StateMatchesCode'
    <2>1. pc'[z] \in OffCpuPoints(state'[z])
      BY <1>9, <1>11 DEF OffCpuPoints, Parked
    <2>2. kstack'[z] <=> pc'[z] # "none"
      BY <1>6, <1>11 DEF StateMatchesCode
    <2>3. \A q \in Slot \ {p, z} :
            state'[q] = state[q] /\ pc'[q] = pc[q] /\ kstack'[q] = kstack[q]
      BY <1>6, <1>7, <1>11, Ranges
    <2> QED
      BY <1>4, <1>5, <1>6, <1>7, <1>10, <1>11, <2>1, <2>2, <2>3, PairState
  <1>13. EmbryoOwned'
    <2>1. \A q \in Slot \ {p} : CallPoint(q)' = CallPoint(q) /\ loc'[q] = loc[q]
      BY <1>6, <1>7, Ranges DEF CallPoint
    <2>2. CallPoint(p)' = "sysret"
      BY <1>4, <1>7 DEF CallPoint
    <2>3. ASSUME NEW q \in Slot \ {p}, CallPoint(q) \in ForkOwns
          PROVE  state'[loc[q]] = "EMBRYO" /\ pc'[loc[q]] = pc[loc[q]]
      <3>1. loc[q] \in Slot /\ state[loc[q]] = "EMBRYO" /\ loc[q] # z /\ loc[q] # p
        BY <1>9, <1>10, <2>3 DEF EmbryoOwned
      <3> QED
        BY <1>7, <1>11, <3>1, Ranges
    <2> QED
      BY <1>4, <2>1, <2>2, <2>3, EmbryoStep
  <1> QED
    BY <1>8, <1>12, <1>13

\* wait() frees a ZOMBIE, which has left its CPU for good.
LEMMA WaitReapInv ==
  ASSUME IInv, TypeOK', NEW c \in CPUS, WaitReap(c)
  PROVE  IInv'
  <1> USE DEF IInv
  <1>1. PICK p \in Slot, z \in Slot :
          /\ At(c, p, "wait_scan") /\ state[z] = "ZOMBIE"
          /\ state' = [state EXCEPT ![z] = "UNUSED"]
          /\ kstack' = [kstack EXCEPT ![z] = FALSE]
          /\ pc' = [pc EXCEPT ![p] = "sysret", ![z] = "none"]
    BY DEF WaitReap, First, ZombieChildren
  <1>2. /\ "wait_scan" \in PLocked /\ "wait_scan" \notin TLocked
        /\ "wait_scan" \notin InHandler /\ StateAt("wait_scan") = "RUNNING"
    BY DEF PLocked, TLocked, InHandler, StateAt
  <1>3. /\ "sysret" \notin PLocked /\ "sysret" \notin TLocked /\ "sysret" \notin InHandler
        /\ StateAt("sysret") = "RUNNING" /\ "sysret" \notin ForkOwns
        /\ "sysret" \in Points \ {"none", "away"}
        /\ "none" \in Points /\ "none" \notin InHandler /\ "none" \notin ForkOwns
    BY PointNames DEF PLocked, TLocked, InHandler, StateAt, ForkOwns
  <1>4. lock' = NoCpu /\ UNCHANGED <<tlock, proc, ipc, loc>>
    BY DEF WaitReap, frame
  <1>5. lock = c /\ tlock # c /\ state[p] = "RUNNING" /\ p = Thread(c) /\ z # p
    BY <1>1, <1>2, Mover, Ranges DEF At
  <1>6. ~OnCpu(z)
    BY <1>1, <1>5, StoppedOffCpu
  <1>7. /\ pc' \in [Threads -> Points]
        /\ \A d \in CPUS \ {c} : pc'[Thread(d)] = pc[Thread(d)]
        /\ \A d \in CPUS : pc'[d] = IF d = p THEN "sysret" ELSE pc[d]
    <2>1. PairGoto(c, p, "wait_scan", "sysret", z, "none")
      BY <1>1 DEF PairGoto
    <2>2. "sysret" \in Points /\ "none" \in Points
      BY <1>3
    <2> QED
      BY <1>6, <2>1, <2>2, TwoPc
  <1>8. /\ pc'[p] = "sysret" /\ pc'[z] = "none"
        /\ \A u \in Threads \ {p, z} : pc'[u] = pc[u]
    BY <1>1, <1>5, Ranges DEF TypeOK
  <1>9. Switching'
    <2>1. At(c, p, "wait_scan") /\ pc'[p] = "sysret"
      BY <1>1, <1>8
    <2>2. /\ lock' = IF "sysret" \in PLocked THEN c
                     ELSE IF "wait_scan" \in PLocked THEN NoCpu ELSE lock
          /\ tlock' = IF "sysret" \in TLocked THEN c
                      ELSE IF "wait_scan" \in TLocked THEN NoCpu ELSE tlock
      BY <1>2, <1>3, <1>4
    <2>3. "sysret" \notin PLocked /\ "sysret" \notin TLocked
      BY <1>3
    <2> QED
      BY <1>4, <1>7, <2>1, <2>2, <2>3, GotoSwitching
  <1>10. /\ state'[z] = "UNUSED" /\ ~kstack'[z]
         /\ \A q \in Slot \ {z} : state'[q] = state[q] /\ kstack'[q] = kstack[q]
    BY <1>1 DEF TypeOK
  <1>11. StateMatchesCode'
    <2>1. pc'[z] \in OffCpuPoints(state'[z])
      BY <1>8, <1>10 DEF OffCpuPoints
    <2>2. \A q \in Slot \ {p, z} :
            state'[q] = state[q] /\ pc'[q] = pc[q] /\ kstack'[q] = kstack[q]
      BY <1>8, <1>10, Ranges
    <2>3. At(c, p, "wait_scan") /\ state'[p] = StateAt(pc'[p]) /\ pc'[p] # "none"
      BY <1>1, <1>3, <1>5, <1>8, <1>10
    <2>4. kstack'[p] = kstack[p] /\ (kstack'[z] <=> pc'[z] # "none")
      BY <1>5, <1>8, <1>10
    <2> QED
      BY <1>4, <1>5, <1>6, <2>1, <2>2, <2>3, <2>4, PairState
  <1>12. EmbryoOwned'
    <2>1. \A q \in Slot \ {p} : CallPoint(q)' = CallPoint(q) \/ CallPoint(q)' \notin ForkOwns
      BY <1>3, <1>4, <1>8, Ranges DEF CallPoint
    <2>2. CallPoint(p)' = "sysret"
      BY <1>3, <1>8 DEF CallPoint
    <2>3. ASSUME NEW q \in Slot \ {p}, CallPoint(q) \in ForkOwns
          PROVE  state'[loc[q]] = "EMBRYO" /\ pc'[loc[q]] = pc[loc[q]] /\ loc'[q] = loc[q]
      <3>1. loc[q] \in Slot /\ state[loc[q]] = "EMBRYO" /\ loc[q] # z /\ loc[q] # p
        BY <1>1, <1>5, <2>3 DEF EmbryoOwned
      <3> QED
        BY <1>4, <1>8, <1>10, <3>1, Ranges
    <2> QED
      BY <1>3, <2>1, <2>2, <2>3, EmbryoStep
  <1> QED
    BY <1>9, <1>11, <1>12
----------------------------------------------------------------------------
(***************************************************************************)
(* The theorems.                                                           *)
(***************************************************************************)

\* The state userinit() leaves satisfies the invariant.
LEMMA InitIInv == Init => IInv
  <1> SUFFICES ASSUME Init PROVE IInv
    OBVIOUS
  <1>1. TypeOK
    BY InitTypeOK
  <1>2. \A c \in CPUS : proc[c] = Nil /\ Thread(c) = c /\ pc[c] = "loop" /\ c # lock /\ c # tlock
    BY ProcAssumption, Ranges DEF Init, Thread
  <1>3. Switching
    BY <1>2 DEF Switching, LockDiscipline, OneCpu, OnCpuCode, PLocked, TLocked
  <1>4. \A p \in Slot :
          /\ ~OnCpu(p)
          /\ IF p = initproc THEN pc[p] = "forkret" /\ state[p] = "RUNNABLE" /\ kstack[p]
             ELSE pc[p] = "none" /\ state[p] = "UNUSED" /\ ~kstack[p]
    BY <1>2, Ranges DEF Init, OnCpu
  <1>5. StateMatchesCode
    BY <1>4 DEF StateMatchesCode, OffCpuPoints, Parked
  <1>6. EmbryoOwned
    BY <1>4 DEF EmbryoOwned, CallPoint, ForkOwns, InHandler
  <1> QED
    BY <1>1, <1>3, <1>5, <1>6 DEF IInv

\* Every step keeps the invariant.
LEMMA NextIInv == IInv /\ [Next]_vars => IInv'
  <1> SUFFICES ASSUME IInv, [Next]_vars PROVE IInv'
    OBVIOUS
  <1>1. TypeOK'
    BY NextTypeOK DEF IInv
  <1>2. CASE UNCHANGED vars
    BY <1>2 DEF IInv, vars, ptab, ident, locks, frame, TypeOK, Switching, LockDiscipline,
       OneCpu, OnCpuCode, Thread, StateMatchesCode, OnCpu, EmbryoOwned, CallPoint
  <1>3. CASE Next
    <2>1. PICK c \in CPUS :
            KernelStep(c) \/ Acquire(c) \/ TimerTrap(c) \/ Syscall(c) \/ FaultTrap(c)
      BY <1>3 DEF Next
    <2> QED
      BY <1>1, <2>1, SchedulerRunInv, SchedulerReleaseInv, SchedInv,
         SyscallReturnInv, TickIncrementInv, TickWakeupInv, TrapEndInv,
         TrapReturnInv, YieldInv, ReleaseAfterSwtchInv, AllocprocScanInv,
         AllocprocStackInv, ForkCopyInv, ForkEndInv, ExitWakeParentInv,
         ExitZombieInv, WaitReapInv, WaitNoneInv, WaitChildrenInv, WaitSleepInv,
         WaitWakeInv, KillInv, SleepStartInv, SleepTestInv, SleepInv,
         SleepWakeInv, AcquirePtableInv, AcquireTicksInv, TimerTrapInv,
         SyscallInv, FaultTrapInv
         DEF KernelStep, Acquire
  <1> QED
    BY <1>2, <1>3

\* The inductive invariant holds in every reachable state.
THEOREM Invariance == Spec => []IInv
  <1>1. Init => IInv
    BY InitIInv
  <1>2. IInv /\ [Next]_vars => IInv'
    BY NextIInv
  <1> QED
    BY <1>1, <1>2, PTL DEF Spec

\* Every variable of the process table stays in its range, the tick counter
\* and the pids included.
THEOREM TypeCorrect == Spec => []TypeOK
  <1>1. IInv => TypeOK
    BY DEF IInv
  <1> QED
    BY <1>1, Invariance, PTL

\* ptable.lock and tickslock are held exactly in the critical sections, also
\* when swtch() hands ptable.lock from one thread to another.
THEOREM LocksDisciplined == Spec => []LockDiscipline
  <1>1. IInv => LockDiscipline
    BY DEF IInv, Switching
  <1> QED
    BY <1>1, Invariance, PTL

\* No two CPUs ever run on the same kernel stack, and no CPU runs on one that
\* wait() has freed.
THEOREM StacksExclusive == Spec => []StackExclusive
  <1>1. ASSUME IInv, NEW c \in CPUS, proc[c] # Nil
        PROVE  kstack[proc[c]] /\ \A d \in CPUS \ {c} : proc[d] # proc[c]
    <2>1. proc[c] \in Slot /\ pc[proc[c]] # "none"
      BY <1>1 DEF IInv, TypeOK, Switching, OnCpuCode
    <2>2. kstack[proc[c]]
      BY <1>1, <2>1 DEF IInv, StateMatchesCode
    <2>3. \A d \in CPUS \ {c} : proc[d] # proc[c]
      BY <1>1 DEF IInv, Switching, OneCpu
    <2> QED
      BY <2>2, <2>3
  <1>2. IInv => StackExclusive
    BY <1>1 DEF StackExclusive
  <1> QED
    BY <1>2, Invariance, PTL

\* The state field agrees with the code of every process, on a CPU or not.
THEOREM StatesMatch == Spec => []StateMatchesCode
  <1>1. IInv => StateMatchesCode
    BY DEF IInv
  <1> QED
    BY <1>1, Invariance, PTL

\* A slot in EMBRYO belongs to one fork() only, in either tree.
THEOREM EmbryosOwned == Spec => []EmbryoOwned
  <1>1. IInv => EmbryoOwned
    BY DEF IInv
  <1> QED
    BY <1>1, Invariance, PTL

\* A step that changes the state of a slot makes one of these transitions.
LEMMA NextTransition ==
  ASSUME IInv, [Next]_vars, NEW s \in Slot, state'[s] # state[s]
  PROVE  <<state[s], state'[s]>> \in Transitions
  <1>1. state \in [Slot -> ProcStates] /\ loc \in [Slot -> Nat]
    BY DEF IInv, TypeOK
  <1>2. \A ch : Woken(state, ch)[s] # state[s] =>
                 state[s] = "SLEEPING" /\ Woken(state, ch)[s] = "RUNNABLE"
    BY DEF Woken
  <1>3. ~UNCHANGED state
    OBVIOUS
  <1>4. PICK c \in CPUS :
          KernelStep(c) \/ Acquire(c) \/ TimerTrap(c) \/ Syscall(c) \/ FaultTrap(c)
    BY <1>3 DEF Next, vars, ptab
  <1>5. CASE SchedulerRun(c)
    BY <1>1, <1>5 DEF SchedulerRun, Transitions
  <1>6. CASE TickWakeup(c)
    BY <1>2, <1>6 DEF TickWakeup, Transitions
  <1>7. CASE ExitWakeParent(c)
    BY <1>2, <1>7 DEF ExitWakeParent, Transitions
  <1>8. CASE Kill(c)
    BY <1>1, <1>8 DEF Kill, WakeIfAsleep, Transitions
  <1>9. CASE AllocprocScan(c)
    BY <1>1, <1>9 DEF AllocprocScan, First, FreeSlots, Transitions
  <1>10. CASE WaitReap(c)
    BY <1>1, <1>10 DEF WaitReap, First, ZombieChildren, Children, Transitions
  <1>11. CASE ForkEnd(c)
    <2>1. PICK p \in Slot, k \in {ForkPublishes, ForkUndoes}, v \in {"RUNNABLE", "UNUSED"} :
            At(c, p, k) /\ state' = [state EXCEPT ![loc[p]] = v]
      BY <1>11 DEF ForkEnd, Goto
    <2>2. pc[p] \in ForkOwns
      BY <2>1 DEF At, ForkPublishes, ForkUndoes, ForkOwns
    <2>3. loc[p] \in Slot /\ state[loc[p]] = "EMBRYO"
      BY <2>2, ForkSlot DEF IInv
    <2> QED
      BY <1>1, <2>1, <2>3 DEF Transitions
  <1>12. ASSUME NEW p \in Slot, NEW k, At(c, p, k), StateAt(k) = "RUNNING"
         PROVE  state[p] = "RUNNING"
    BY <1>12, Mover, Ranges
  <1>13. CASE Yield(c)
    <2>1. PICK p \in Slot : At(c, p, "yield_cs") /\ state' = [state EXCEPT ![p] = "RUNNABLE"]
      BY <1>13 DEF Yield, Goto
    <2>2. state[p] = "RUNNING"
      BY <1>12, <2>1 DEF StateAt
    <2> QED
      BY <1>1, <2>1, <2>2 DEF Transitions
  <1>14. CASE WaitSleep(c)
    <2>1. PICK p \in Slot : At(c, p, "wait_sleep") /\ state' = [state EXCEPT ![p] = "SLEEPING"]
      BY <1>14 DEF WaitSleep, Goto
    <2>2. state[p] = "RUNNING"
      BY <1>12, <2>1 DEF StateAt
    <2> QED
      BY <1>1, <2>1, <2>2 DEF Transitions
  <1>15. CASE Sleep(c)
    <2>1. PICK p \in Slot : At(c, p, "slp_sleep") /\ state' = [state EXCEPT ![p] = "SLEEPING"]
      BY <1>15 DEF Sleep, Goto
    <2>2. state[p] = "RUNNING"
      BY <1>12, <2>1 DEF StateAt
    <2> QED
      BY <1>1, <2>1, <2>2 DEF Transitions
  <1>16. CASE ExitZombie(c)
    <2>1. PICK p \in Slot, st \in {state, Woken(state, initproc)} :
            At(c, p, "exit_zombie") /\ state' = [st EXCEPT ![p] = "ZOMBIE"]
      BY <1>16 DEF ExitZombie, Goto
    <2>2. state[p] = "RUNNING"
      BY <1>12, <2>1 DEF StateAt
    <2>3. DOMAIN st = Slot
      BY <1>1, <2>1 DEF Woken
    <2>4. s # p => state'[s] = st[s]
      BY <2>1, <2>3
    <2>5. state'[p] = "ZOMBIE"
      BY <2>1, <2>3
    <2> QED
      BY <1>2, <2>1, <2>2, <2>4, <2>5 DEF Transitions
  <1>17. CASE \/ SchedulerRelease(c) \/ Sched(c) \/ SyscallReturn(c) \/ TickIncrement(c)
              \/ TrapEnd(c) \/ TrapReturn(c) \/ ReleaseAfterSwtch(c) \/ AllocprocStack(c)
              \/ ForkCopy(c) \/ WaitNone(c) \/ WaitChildren(c) \/ WaitWake(c)
              \/ SleepStart(c) \/ SleepTest(c) \/ SleepWake(c) \/ Acquire(c)
              \/ TimerTrap(c) \/ Syscall(c) \/ FaultTrap(c)
    BY <1>3, <1>17 DEF SchedulerRelease, Sched, SyscallReturn, TickIncrement, TrapEnd,
       TrapReturn, ReleaseAfterSwtch, AllocprocStack, ForkCopy, WaitNone, WaitChildren,
       WaitWake, SleepStart, SleepTest, SleepWake, Acquire, AcquirePtable, AcquireTicks,
       TimerTrap, Syscall, FaultTrap, ptab
  <1> QED
    BY <1>4, <1>5, <1>6, <1>7, <1>8, <1>9, <1>10, <1>11, <1>13, <1>14, <1>15, <1>16, <1>17
       DEF KernelStep

\* A slot goes through its life cycle only: nobody but the scheduler makes a
\* process RUNNING, nobody but wait() frees one, and a ZOMBIE never runs.
THEOREM LifecycleKept == Spec => Lifecycle
  <1>1. IInv /\ [Next]_vars =>
          [\A s \in Slot : state[s] # state'[s] => <<state[s], state'[s]>> \in Transitions]_vars
    BY NextTransition
  <1>2. Spec => [][Next]_vars
    BY DEF Spec
  <1>3. Spec => [][\A s \in Slot : state[s] # state'[s] =>
                      <<state[s], state'[s]>> \in Transitions]_vars
    BY <1>1, <1>2, Invariance, PTL
  <1> QED
    BY <1>3 DEF Lifecycle

\* No panic of sched() can fire.
THEOREM SchedNeverPanics == Spec => []SchedChecks
  <1>1. ASSUME NEW e \in Scheds
        PROVE  e[1] \in PLocked /\ e[1] \notin TLocked /\ StateAt(e[1]) # "RUNNING"
    BY DEF Scheds, PLocked, TLocked, StateAt
  <1>2. ASSUME IInv, NEW c \in CPUS, NEW p \in Slot, NEW e \in Scheds, At(c, p, e[1])
        PROVE  lock = c /\ tlock # c /\ state[p] # "RUNNING"
    <2>1. PICK k : k = e[1]
      OBVIOUS
    <2>2. At(c, p, k) /\ p \in Threads
      BY <1>2, <2>1, Ranges
    <2> QED
      BY <1>1, <1>2, <2>1, <2>2, Mover
  <1>3. IInv => SchedChecks
    BY <1>2 DEF SchedChecks
  <1> QED
    BY <1>3, Invariance, PTL

----------------------------------------------------------------------------
(***************************************************************************)
(* The processes as a family: parents and children, who sleeps and is      *)
(* woken, pids and getpinfo(), and the process tree ProcTree that the      *)
(* table implements.                                                       *)
(***************************************************************************)

\* What the steps of fork() change, with the slot they own.
LEMMA StackStep ==
  ASSUME IInv, NEW c \in CPUS, AllocprocStack(c)
  PROVE  \E p, q \in Slot :
           /\ q = loc[p] /\ q # p /\ state[q] = "EMBRYO" /\ pc[q] = "none"
           /\ At(c, p, "fork_kalloc") /\ state[p] = "RUNNING"
           /\ \/ pc' = [pc EXCEPT ![p] = "fork_copy", ![q] = "forkret"]
              \/ pc' = [pc EXCEPT ![p] = "fork_undo_acq"]
  <1>1. PICK p \in Slot :
          /\ At(c, p, "fork_kalloc")
          /\ \/ pc' = [pc EXCEPT ![p] = "fork_copy", ![loc[p]] = "forkret"]
             \/ pc' = [pc EXCEPT ![p] = "fork_undo_acq"]
    BY DEF AllocprocStack, Goto
  <1>2. "fork_kalloc" \in ForkOwns \ ForkStacked /\ StateAt("fork_kalloc") = "RUNNING"
    BY DEF ForkOwns, ForkStacked, StateAt
  <1>3. loc[p] \in Slot /\ state[loc[p]] = "EMBRYO" /\ pc[loc[p]] = "none" /\ state[p] = "RUNNING"
    BY <1>1, <1>2, ForkSlot, Mover, Ranges DEF IInv, At
  <1> QED
    BY <1>1, <1>3

\* The same for copyuvm() and what follows it.
LEMMA CopyStep ==
  ASSUME IInv, NEW c \in CPUS, ForkCopy(c)
  PROVE  \E p, q \in Slot :
           /\ q = loc[p] /\ q # p /\ state[q] = "EMBRYO" /\ pc[q] = "forkret"
           /\ At(c, p, "fork_copy") /\ state[p] = "RUNNING"
           /\ \A r \in Slot \ {p} : CallPoint(r) \in ForkOwns => loc[r] # q
           /\ \/ /\ pc' = [pc EXCEPT ![p] = "fork_pub_acq"]
                 /\ parent' = [parent EXCEPT ![q] = p]
              \/ /\ pc' = [pc EXCEPT ![p] = "fork_undo_acq", ![q] = "none"]
                 /\ UNCHANGED parent
  <1>1. PICK p \in Slot :
          /\ At(c, p, "fork_copy")
          /\ \/ /\ pc' = [pc EXCEPT ![p] = "fork_pub_acq"]
                /\ parent' = [parent EXCEPT ![loc[p]] = p]
             \/ /\ pc' = [pc EXCEPT ![p] = "fork_undo_acq", ![loc[p]] = "none"]
                /\ UNCHANGED parent
    BY DEF ForkCopy, Goto
  <1>2. "fork_copy" \in ForkOwns /\ "fork_copy" \in ForkStacked /\ StateAt("fork_copy") = "RUNNING"
    BY DEF ForkOwns, ForkStacked, StateAt
  <1>3. /\ loc[p] \in Slot /\ state[loc[p]] = "EMBRYO" /\ pc[loc[p]] = "forkret"
        /\ state[p] = "RUNNING"
        /\ \A r \in Slot \ {p} : CallPoint(r) \in ForkOwns => loc[r] # loc[p]
    BY <1>1, <1>2, ForkSlot, Mover, Ranges DEF IInv, At
  <1> QED
    BY <1>1, <1>3

\* The same for the end of fork().
ForkPub  == {"fork_pub_acq", "fork_pub"}
ForkUndo == {"fork_undo_acq", "fork_undo"}

\* The child is published, or its slot is given back.
LEMMA EndStep ==
  ASSUME IInv, NEW c \in CPUS, ForkEnd(c)
  PROVE  \E p, q \in Slot :
           /\ q = loc[p] /\ q # p /\ state[q] = "EMBRYO" /\ state[p] = "RUNNING"
           /\ p = Thread(c) /\ pc[p] \in ForkPub \cup ForkUndo
           /\ pc' = [pc EXCEPT ![p] = "sysret"]
           /\ \A r \in Slot \ {p} : CallPoint(r) \in ForkOwns => loc[r] # q
           /\ \/ pc[p] \in ForkPub /\ state' = [state EXCEPT ![q] = "RUNNABLE"]
              \/ pc[p] \in ForkUndo /\ state' = [state EXCEPT ![q] = "UNUSED"]
  <1>1. PICK p \in Slot :
          /\ p = Thread(c) /\ pc[p] \in ForkPub \cup ForkUndo
          /\ pc' = [pc EXCEPT ![p] = "sysret"]
          /\ \/ pc[p] \in ForkPub /\ state' = [state EXCEPT ![loc[p]] = "RUNNABLE"]
             \/ pc[p] \in ForkUndo /\ state' = [state EXCEPT ![loc[p]] = "UNUSED"]
    BY DEF ForkEnd, Goto, At, ForkPublishes, ForkUndoes, ForkPub, ForkUndo
  <1>2. pc[p] \in ForkOwns /\ StateAt(pc[p]) = "RUNNING" /\ At(c, p, pc[p])
    BY <1>1 DEF ForkPub, ForkUndo, ForkOwns, StateAt, At
  <1>3. /\ loc[p] \in Slot /\ state[loc[p]] = "EMBRYO" /\ state[p] = "RUNNING"
        /\ \A r \in Slot \ {p} : CallPoint(r) \in ForkOwns => loc[r] # loc[p]
    BY <1>2, ForkSlot, Mover, Ranges DEF IInv
  <1> QED
    BY <1>1, <1>3

\* A process that is going to give up its CPU is RUNNING and holds the lock.
LEMMA Yields ==
  ASSUME IInv, NEW c \in CPUS, NEW p \in Slot,
         NEW k \in {"yield_cs", "wait_sleep", "slp_sleep", "exit_cs", "exit_zombie", "kill_cs",
                   "wait_scan", "fork_scan"},
         At(c, p, k)
  PROVE  state[p] = "RUNNING" /\ lock = c
  <1>1. StateAt(k) = "RUNNING" /\ k \in PLocked
    BY DEF StateAt, PLocked
  <1> QED
    BY <1>1, Mover, Ranges

\* What yield() and the two ways to sleep() change.
LEMMA ParkStep ==
  ASSUME IInv, NEW c \in CPUS, Yield(c) \/ WaitSleep(c) \/ Sleep(c)
  PROVE  \E p \in Slot, v \in {"RUNNABLE", "SLEEPING"} :
           /\ p = Thread(c) /\ state[p] = "RUNNING" /\ lock = c
           /\ state' = [state EXCEPT ![p] = v]
  BY Yields DEF Yield, WaitSleep, Sleep, Goto, At

\* What kill() changes.
LEMMA KillStep ==
  ASSUME IInv, NEW c \in CPUS, Kill(c)
  PROVE  \E p \in Slot :
           /\ p = Thread(c) /\ pc[p] = "kill_cs" /\ state[p] = "RUNNING" /\ lock = c
           /\ pc' = [pc EXCEPT ![p] = "sysret"]
           /\ \/ \E q \in Slot :
                    /\ pid[q] = loc[p] /\ killed' = [killed EXCEPT ![q] = TRUE]
                    /\ \A s \in Slot :
                          state'[s] = IF s = q /\ state[s] = "SLEEPING" THEN "RUNNABLE"
                                      ELSE state[s]
              \/ UNCHANGED <<killed, state>>
  <1>1. PICK p \in Slot :
          /\ Goto(c, p, "kill_cs", "sysret")
          /\ \/ \E q \in Slot :
                   /\ pid[q] = loc[p]
                   /\ killed' = [killed EXCEPT ![q] = TRUE]
                   /\ state' = [state EXCEPT ![q] = WakeIfAsleep(@)]
             \/ UNCHANGED <<killed, state>>
    BY DEF Kill, First
  <1>2. p = Thread(c) /\ pc[p] = "kill_cs" /\ state[p] = "RUNNING" /\ lock = c
    BY <1>1, Yields DEF Goto, At
  <1>3. ASSUME NEW q \in Slot, state' = [state EXCEPT ![q] = WakeIfAsleep(@)], NEW s \in Slot
        PROVE  state'[s] = IF s = q /\ state[s] = "SLEEPING" THEN "RUNNABLE" ELSE state[s]
    BY <1>3 DEF WakeIfAsleep, IInv, TypeOK
  <1> QED
    BY <1>1, <1>2, <1>3 DEF Goto

\* What exit() changes before it calls sched().
LEMMA ZombieStep ==
  ASSUME IInv, NEW c \in CPUS, ExitZombie(c)
  PROVE  \E p \in Slot :
           /\ p = Thread(c) /\ pc[p] = "exit_zombie" /\ state[p] = "RUNNING" /\ lock = c
           /\ pc' = [pc EXCEPT ![p] = "exit_sched"]
           /\ \A s \in Slot :
                 /\ parent'[s] = IF parent[s] = p THEN initproc ELSE parent[s]
                 /\ state'[s] = IF s = p THEN "ZOMBIE"
                                ELSE IF state[s] = "SLEEPING" /\ chan[s] = initproc
                                        /\ OrphanZombie(p) THEN "RUNNABLE"
                                ELSE state[s]
  <1>1. PICK p \in Slot :
          /\ Goto(c, p, "exit_zombie", "exit_sched")
          /\ LET st == IF OrphanZombie(p) THEN Woken(state, initproc) ELSE state
             IN  state' = [st EXCEPT ![p] = "ZOMBIE"]
          /\ parent' = Reparented(p)
    BY DEF ExitZombie
  <1>2. p = Thread(c) /\ pc[p] = "exit_zombie" /\ state[p] = "RUNNING" /\ lock = c
    BY <1>1, Yields DEF Goto, At
  <1>3. ASSUME NEW s \in Slot
        PROVE  state'[s] = IF s = p THEN "ZOMBIE"
                           ELSE IF state[s] = "SLEEPING" /\ chan[s] = initproc
                                   /\ OrphanZombie(p) THEN "RUNNABLE"
                           ELSE state[s]
    <2>1. DOMAIN state = Slot /\ DOMAIN Woken(state, initproc) = Slot
      BY DEF IInv, TypeOK, Woken
    <2>2. Woken(state, initproc)[s] =
            IF state[s] = "SLEEPING" /\ chan[s] = initproc THEN "RUNNABLE" ELSE state[s]
      BY DEF Woken
    <2> QED
      BY <1>1, <2>1, <2>2
  <1>4. \A s \in Slot : parent'[s] = IF parent[s] = p THEN initproc ELSE parent[s]
    BY <1>1 DEF Reparented
  <1> QED
    BY <1>1, <1>2, <1>3, <1>4 DEF Goto

\* What allocproc() changes when it finds a free slot, and when it does not.
LEMMA AllocStep ==
  ASSUME IInv, NEW c \in CPUS, AllocprocScan(c)
  PROVE  \E p \in Slot :
           /\ p = Thread(c) /\ pc[p] = "fork_scan" /\ state[p] = "RUNNING" /\ lock = c
           /\ \/ \E q \in Slot :
                    /\ state[q] = "UNUSED" /\ q # p
                    /\ pc' = [pc EXCEPT ![p] = "fork_kalloc"]
                    /\ state' = [state EXCEPT ![q] = "EMBRYO"]
                    /\ pid' = [pid EXCEPT ![q] = nextpid]
                    /\ nextpid' = nextpid + 1
                    /\ loc' = [loc EXCEPT ![p] = q]
              \/ /\ pc' = [pc EXCEPT ![p] = "sysret"]
                 /\ UNCHANGED <<state, pid, nextpid, loc>>
  <1>1. PICK p \in Slot :
          /\ At(c, p, "fork_scan")
          /\ \/ \E q \in Slot :
                   /\ state[q] = "UNUSED"
                   /\ pc' = [pc EXCEPT ![p] = "fork_kalloc"]
                   /\ state' = [state EXCEPT ![q] = "EMBRYO"]
                   /\ pid' = [pid EXCEPT ![q] = nextpid]
                   /\ nextpid' = nextpid + 1
                   /\ loc' = [loc EXCEPT ![p] = q]
             \/ /\ pc' = [pc EXCEPT ![p] = "sysret"]
                /\ UNCHANGED <<state, pid, nextpid, loc>>
    BY DEF AllocprocScan, Goto, First, FreeSlots
  <1>2. p = Thread(c) /\ pc[p] = "fork_scan" /\ state[p] = "RUNNING" /\ lock = c
    BY <1>1, Yields DEF At
  <1> QED
    BY <1>1, <1>2


\* What wait() changes when it reaps a child.
LEMMA ReapStep ==
  ASSUME IInv, NEW c \in CPUS, WaitReap(c)
  PROVE  \E p, z \in Slot :
           /\ p = Thread(c) /\ pc[p] = "wait_scan" /\ state[p] = "RUNNING" /\ lock = c
           /\ z # p /\ parent[z] = p /\ state[z] = "ZOMBIE" /\ pc[z] = "dead" /\ ~OnCpu(z)
           /\ state' = [state EXCEPT ![z] = "UNUSED"]
           /\ pid' = [pid EXCEPT ![z] = 0]
           /\ parent' = [parent EXCEPT ![z] = Nil]
           /\ killed' = [killed EXCEPT ![z] = FALSE]
           /\ pc' = [pc EXCEPT ![p] = "sysret", ![z] = "none"]
  <1>1. PICK p, z \in Slot :
          /\ At(c, p, "wait_scan") /\ z \in ZombieChildren(p)
          /\ state' = [state EXCEPT ![z] = "UNUSED"]
          /\ pid' = [pid EXCEPT ![z] = 0]
          /\ parent' = [parent EXCEPT ![z] = Nil]
          /\ killed' = [killed EXCEPT ![z] = FALSE]
          /\ pc' = [pc EXCEPT ![p] = "sysret", ![z] = "none"]
    BY DEF WaitReap, First
  <1>2. p = Thread(c) /\ pc[p] = "wait_scan" /\ state[p] = "RUNNING" /\ lock = c
    BY <1>1, Yields DEF At
  <1>3. parent[z] = p /\ state[z] = "ZOMBIE" /\ z # p
    BY <1>1, <1>2 DEF ZombieChildren, Children
  <1>4. ~OnCpu(z)
    BY <1>2, <1>3, StoppedOffCpu DEF IInv
  <1>5. pc[z] = "dead"
    BY <1>3, <1>4 DEF IInv, StateMatchesCode, OffCpuPoints
  <1> QED
    BY <1>1, <1>2, <1>3, <1>4, <1>5

\* What sched() changes.
LEMMA SchedStep ==
  ASSUME IInv, NEW c \in CPUS, Sched(c)
  PROVE  \E p \in Slot, e \in Scheds :
           /\ p = Thread(c) /\ pc[p] = e[1] /\ proc[c] = p /\ pc[c] = "away" /\ lock = c
           /\ state[p] = StateAt(e[1])
           /\ pc' = [pc EXCEPT ![p] = e[2], ![c] = "back"]
  <1>1. PICK p \in Slot, e \in Scheds :
          At(c, p, e[1]) /\ pc' = [pc EXCEPT ![p] = e[2], ![c] = "back"]
    BY DEF Sched
  <1>2. PICK k : k = e[1]
    OBVIOUS
  <1>3. k \in PLocked
    BY <1>2 DEF Scheds, PLocked
  <1>4. At(c, p, k) /\ p \in Threads
    BY <1>1, <1>2, Ranges
  <1>5. state[p] = StateAt(k) /\ proc[c] = p /\ lock = c
    BY <1>3, <1>4, Mover
  <1>6. pc[c] = "away"
    BY <1>5, Ranges DEF IInv, Switching, LockDiscipline
  <1> QED
    BY <1>1, <1>2, <1>5, <1>6 DEF At

----------------------------------------------------------------------------
(***************************************************************************)
(* init stays.                                                             *)
(***************************************************************************)

\* The states of a process that exists and has not exited.
LiveStates == {"RUNNABLE", "RUNNING", "SLEEPING"}

\* The points of exit(), and of kill().
Exiting == {"exit_acq", "exit_cs", "exit_zombie", "exit_sched", "dead"}
Killing == {"kill_acq", "kill_cs"}

\* init has slot and pid 1, is never killed and never exits, because nobody
\* calls kill(1).
InitStays ==
  /\ state[initproc] \in LiveStates /\ pid[initproc] = 1 /\ killed[initproc] = FALSE
  /\ pc[initproc] \notin Exiting /\ ipc[initproc] \notin Exiting
  /\ \A p \in Slot : CallPoint(p) \in Killing => loc[p] # 1

\* A step keeps init as it is.
LEMMA NextInitStays == IInv /\ TypeOK' /\ InitStays /\ [Next]_vars => InitStays'
<1> SUFFICES ASSUME IInv, TypeOK', InitStays, [Next]_vars PROVE InitStays'
  OBVIOUS
<1> USE Ranges DEF IInv, TypeOK, InitStays, CallPoint, LiveStates, Exiting, Killing,
    InHandler, vars, ptab, ident, locks, frame
<1>1. ASSUME NEW c \in CPUS, AcquirePtable(c) PROVE InitStays'
  BY <1>1, SMTT(60) DEF AcquirePtable, Goto, At, PtableFree, PtableAcquires
<1>2. ASSUME NEW c \in CPUS, AcquireTicks(c) PROVE InitStays'
  BY <1>2, SMTT(60) DEF AcquireTicks, Goto, At, TicksFree, TicksAcquires
<1>3. ASSUME NEW c \in CPUS, SchedulerRun(c) PROVE InitStays'
  BY <1>3, SMTT(60) DEF SchedulerRun, Goto, At
<1>4. ASSUME NEW c \in CPUS, SchedulerRelease(c) PROVE InitStays'
  BY <1>4, SMTT(60) DEF SchedulerRelease, Goto, At
<1>5. ASSUME NEW c \in CPUS, Sched(c) PROVE InitStays'
  BY <1>5, SMTT(60) DEF Sched, Goto, At, Scheds
<1>6. ASSUME NEW c \in CPUS, Syscall(c) PROVE InitStays'
  BY <1>6, ProcAssumption, SMTT(60) DEF Syscall, Goto, At
<1>7. ASSUME NEW c \in CPUS, SyscallReturn(c) PROVE InitStays'
  BY <1>7, SMTT(60) DEF SyscallReturn, Goto, At
<1>8. ASSUME NEW c \in CPUS, FaultTrap(c) PROVE InitStays'
  BY <1>8, SMTT(60) DEF FaultTrap, Goto, At
<1>9. ASSUME NEW c \in CPUS, TimerTrap(c) PROVE InitStays'
  BY <1>9, SMTT(60) DEF TimerTrap, Goto, At, Preemptible
<1>10. ASSUME NEW c \in CPUS, TickIncrement(c) PROVE InitStays'
  BY <1>10, SMTT(60) DEF TickIncrement, Goto, At
<1>11. ASSUME NEW c \in CPUS, TickWakeup(c) PROVE InitStays'
  BY <1>11, SMTT(60) DEF TickWakeup, Goto, At, Woken
<1>12. ASSUME NEW c \in CPUS, TrapEnd(c) PROVE InitStays'
  BY <1>12, SMTT(60) DEF TrapEnd, Goto, At, AfterTrap
<1>13. ASSUME NEW c \in CPUS, TrapReturn(c) PROVE InitStays'
  BY <1>13, SMTT(60) DEF TrapReturn, Goto, At
<1>14. ASSUME NEW c \in CPUS, Yield(c) PROVE InitStays'
  <2>1. PICK p \in Slot, v \in {"RUNNABLE", "SLEEPING"} :
          /\ p = Thread(c) /\ state[p] = "RUNNING" /\ lock = c
          /\ state' = [state EXCEPT ![p] = v]
    BY <1>14, ParkStep
  <2> QED
    BY <1>14, <2>1, SMTT(60) DEF Yield, Goto, At
<1>15. ASSUME NEW c \in CPUS, ReleaseAfterSwtch(c) PROVE InitStays'
  BY <1>15, SMTT(60) DEF ReleaseAfterSwtch, Goto, At
<1>16. ASSUME NEW c \in CPUS, AllocprocScan(c) PROVE InitStays'
  <2>1. PICK p \in Slot :
          /\ p = Thread(c) /\ pc[p] = "fork_scan" /\ state[p] = "RUNNING" /\ lock = c
          /\ \/ \E q \in Slot :
                   /\ state[q] = "UNUSED" /\ q # p
                   /\ pc' = [pc EXCEPT ![p] = "fork_kalloc"]
                   /\ state' = [state EXCEPT ![q] = "EMBRYO"]
                   /\ pid' = [pid EXCEPT ![q] = nextpid]
                   /\ nextpid' = nextpid + 1
                   /\ loc' = [loc EXCEPT ![p] = q]
             \/ /\ pc' = [pc EXCEPT ![p] = "sysret"]
                /\ UNCHANGED <<state, pid, nextpid, loc>>
    BY <1>16, AllocStep
  <2>2. UNCHANGED <<chan, parent, killed, kstack, tlock, proc, ipc, dur, ticks>>
    BY <1>16 DEF AllocprocScan
  <2> QED
    BY <2>1, <2>2, SMTT(60) DEF At
<1>17. ASSUME NEW c \in CPUS, AllocprocStack(c) PROVE InitStays'
  <2>1. PICK p, q \in Slot :
          /\ q = loc[p] /\ q # p /\ state[q] = "EMBRYO" /\ pc[q] = "none"
          /\ At(c, p, "fork_kalloc") /\ state[p] = "RUNNING"
          /\ \/ pc' = [pc EXCEPT ![p] = "fork_copy", ![q] = "forkret"]
             \/ pc' = [pc EXCEPT ![p] = "fork_undo_acq"]
    BY <1>17, StackStep
  <2>2. UNCHANGED <<state, chan, pid, parent, killed, nextpid, lock, tlock, proc, ipc, loc, dur,
                    ticks>>
    BY <1>17 DEF AllocprocStack
  <2> QED
    BY <2>1, <2>2, SMTT(60) DEF At
<1>18. ASSUME NEW c \in CPUS, ForkCopy(c) PROVE InitStays'
  <2>1. PICK p, q \in Slot :
          /\ q = loc[p] /\ q # p /\ state[q] = "EMBRYO" /\ pc[q] = "forkret"
          /\ At(c, p, "fork_copy") /\ state[p] = "RUNNING"
          /\ \A r \in Slot \ {p} : CallPoint(r) \in ForkOwns => loc[r] # q
          /\ \/ /\ pc' = [pc EXCEPT ![p] = "fork_pub_acq"]
                /\ parent' = [parent EXCEPT ![q] = p]
             \/ /\ pc' = [pc EXCEPT ![p] = "fork_undo_acq", ![q] = "none"]
                /\ UNCHANGED parent
    BY <1>18, CopyStep
  <2>2. UNCHANGED <<state, chan, pid, killed, nextpid, lock, tlock, proc, ipc, loc, dur, ticks>>
    BY <1>18 DEF ForkCopy
  <2> QED
    BY <2>1, <2>2, SMTT(60) DEF At
<1>19. ASSUME NEW c \in CPUS, ForkEnd(c) PROVE InitStays'
  <2>1. PICK p, q \in Slot :
          /\ q = loc[p] /\ q # p /\ state[q] = "EMBRYO" /\ state[p] = "RUNNING"
          /\ p = Thread(c) /\ pc[p] \in ForkPub \cup ForkUndo
          /\ pc' = [pc EXCEPT ![p] = "sysret"]
          /\ \A r \in Slot \ {p} : CallPoint(r) \in ForkOwns => loc[r] # q
          /\ \/ pc[p] \in ForkPub /\ state' = [state EXCEPT ![q] = "RUNNABLE"]
             \/ pc[p] \in ForkUndo /\ state' = [state EXCEPT ![q] = "UNUSED"]
    BY <1>19, EndStep
  <2>2. UNCHANGED <<chan, pid, parent, killed, kstack, nextpid, tlock, proc, ipc, loc, dur, ticks>>
    BY <1>19 DEF ForkEnd
  <2> QED
    BY <2>1, <2>2, SMTT(60) DEF At, ForkPub, ForkUndo
<1>20. ASSUME NEW c \in CPUS, ExitWakeParent(c) PROVE InitStays'
  BY <1>20, SMTT(60) DEF ExitWakeParent, Goto, At, Woken
<1>21. ASSUME NEW c \in CPUS, ExitZombie(c) PROVE InitStays'
  <2>1. PICK p \in Slot :
          /\ p = Thread(c) /\ pc[p] = "exit_zombie" /\ state[p] = "RUNNING" /\ lock = c
          /\ pc' = [pc EXCEPT ![p] = "exit_sched"]
          /\ \A s \in Slot :
                /\ parent'[s] = IF parent[s] = p THEN initproc ELSE parent[s]
                /\ state'[s] = IF s = p THEN "ZOMBIE"
                               ELSE IF state[s] = "SLEEPING" /\ chan[s] = initproc
                                       /\ OrphanZombie(p) THEN "RUNNABLE"
                               ELSE state[s]
    BY <1>21, ZombieStep
  <2>2. UNCHANGED <<chan, pid, killed, kstack, nextpid, lock, tlock, proc, ipc, loc, dur, ticks>>
    BY <1>21 DEF ExitZombie
  <2> QED
    BY <2>1, <2>2, SMTT(60) DEF At, OrphanZombie
<1>22. ASSUME NEW c \in CPUS, WaitReap(c) PROVE InitStays'
  BY <1>22, SMTT(60) DEF WaitReap, Goto, At, First, Children, ZombieChildren
<1>23. ASSUME NEW c \in CPUS, WaitNone(c) PROVE InitStays'
  BY <1>23, SMTT(60) DEF WaitNone, Goto, At
<1>24. ASSUME NEW c \in CPUS, WaitChildren(c) PROVE InitStays'
  BY <1>24, SMTT(60) DEF WaitChildren, Goto, At
<1>25. ASSUME NEW c \in CPUS, WaitSleep(c) PROVE InitStays'
  <2>1. PICK p \in Slot, v \in {"RUNNABLE", "SLEEPING"} :
          /\ p = Thread(c) /\ state[p] = "RUNNING" /\ lock = c
          /\ state' = [state EXCEPT ![p] = v]
    BY <1>25, ParkStep
  <2> QED
    BY <1>25, <2>1, SMTT(60) DEF WaitSleep, Goto, At
<1>26. ASSUME NEW c \in CPUS, WaitWake(c) PROVE InitStays'
  BY <1>26, SMTT(60) DEF WaitWake, Goto, At
<1>27. ASSUME NEW c \in CPUS, Kill(c) PROVE InitStays'
  <2>1. PICK p \in Slot :
          /\ p = Thread(c) /\ pc[p] = "kill_cs" /\ state[p] = "RUNNING" /\ lock = c
          /\ pc' = [pc EXCEPT ![p] = "sysret"]
          /\ \/ \E q \in Slot :
                   /\ pid[q] = loc[p] /\ killed' = [killed EXCEPT ![q] = TRUE]
                   /\ \A s \in Slot :
                         state'[s] = IF s = q /\ state[s] = "SLEEPING" THEN "RUNNABLE"
                                     ELSE state[s]
             \/ UNCHANGED <<killed, state>>
    BY <1>27, KillStep
  <2>2. UNCHANGED <<chan, pid, parent, kstack, nextpid, tlock, proc, ipc, loc, dur, ticks>>
    BY <1>27 DEF Kill
  <2> QED
    BY <2>1, <2>2, SMTT(60) DEF At
<1>28. ASSUME NEW c \in CPUS, SleepStart(c) PROVE InitStays'
  BY <1>28, SMTT(60) DEF SleepStart, Goto, At
<1>29. ASSUME NEW c \in CPUS, SleepTest(c) PROVE InitStays'
  BY <1>29, SMTT(60) DEF SleepTest, Goto, At
<1>30. ASSUME NEW c \in CPUS, Sleep(c) PROVE InitStays'
  <2>1. PICK p \in Slot, v \in {"RUNNABLE", "SLEEPING"} :
          /\ p = Thread(c) /\ state[p] = "RUNNING" /\ lock = c
          /\ state' = [state EXCEPT ![p] = v]
    BY <1>30, ParkStep
  <2> QED
    BY <1>30, <2>1, SMTT(60) DEF Sleep, Goto, At
<1>31. ASSUME NEW c \in CPUS, SleepWake(c) PROVE InitStays'
  BY <1>31, SMTT(60) DEF SleepWake, Goto, At
<1>32. CASE UNCHANGED vars
  BY <1>32, SMTT(60)
<1> QED
  BY <1>1, <1>2, <1>3, <1>4, <1>5, <1>6, <1>7, <1>8, <1>9, <1>10, <1>11, <1>12, <1>13,
     <1>14, <1>15, <1>16, <1>17, <1>18, <1>19, <1>20, <1>21, <1>22, <1>23, <1>24, <1>25,
     <1>26, <1>27, <1>28, <1>29, <1>30, <1>31, <1>32 DEF Next, KernelStep, Acquire

----------------------------------------------------------------------------
(***************************************************************************)
(* Parents and children.                                                   *)
(***************************************************************************)

\* Every process but init has a parent that has not exited; a slot that
\* fork() fills gets its parent before it is published, and not before.
Kin ==
  /\ \A s \in Slot : parent[s] # Nil => state[parent[s]] \in LiveStates /\ parent[s] # s
  /\ \A s \in Slot \ {initproc} :
        state[s] \in LiveStates \cup {"ZOMBIE"} => parent[s] # Nil
  /\ \A s \in Slot : state[s] = "UNUSED" => parent[s] = Nil
  /\ parent[initproc] = Nil
  /\ \A p \in Slot : CallPoint(p) \in ForkPub => parent[loc[p]] = p
  /\ \A p \in Slot : CallPoint(p) \in ForkOwns \ ForkPub => parent[loc[p]] = Nil

\* How a system call moves when its thread goes to a point that is not in the
\* timer handler.
LEMMA CallMoves ==
  ASSUME TypeOK, NEW p \in Slot, NEW k \in Points \ InHandler, UNCHANGED ipc,
         pc' = [pc EXCEPT ![p] = k]
  PROVE  CallPoint(p)' = k /\ \A r \in Slot \ {p} : CallPoint(r)' = CallPoint(r)
  BY Ranges DEF TypeOK, CallPoint

\* A step that leaves parents alone, neither ends nor frees a process, and moves
\* no fork() into or past its publication.
KinStill ==
  /\ UNCHANGED parent
  /\ \A s \in Slot : state[s] \in LiveStates => state'[s] \in LiveStates
  /\ \A s \in Slot : state'[s] \in LiveStates \cup {"ZOMBIE"} => state[s] \in LiveStates \cup {"ZOMBIE"}
  /\ \A s \in Slot : state'[s] = "UNUSED" => state[s] = "UNUSED"
  /\ \A p \in Slot : CallPoint(p)' \in ForkOwns =>
        /\ CallPoint(p) \in ForkOwns /\ loc'[p] = loc[p]
        /\ CallPoint(p)' \in ForkPub <=> CallPoint(p) \in ForkPub

\* Such a step keeps parents alive.
LEMMA KinStays ==
  ASSUME IInv, Kin, KinStill
  PROVE  Kin'
  <1>1. ForkPub \subseteq ForkOwns
    BY DEF ForkPub, ForkOwns
  <1>2. \A s \in Slot : parent'[s] # Nil => state'[parent'[s]] \in LiveStates /\ parent'[s] # s
    <2> SUFFICES ASSUME NEW s \in Slot, parent[s] # Nil
                 PROVE  state'[parent[s]] \in LiveStates /\ parent[s] # s
      BY DEF KinStill
    <2>1. PICK q \in Slot : q = parent[s]
      BY DEF IInv, TypeOK
    <2>2. state[q] \in LiveStates /\ q # s
      BY <2>1 DEF Kin
    <2> QED
      BY <2>1, <2>2 DEF KinStill
  <1>3. \A s \in Slot \ {initproc} : state'[s] \in LiveStates \cup {"ZOMBIE"} => parent'[s] # Nil
    BY DEF Kin, KinStill
  <1>4. \A s \in Slot : state'[s] = "UNUSED" => parent'[s] = Nil
    BY DEF Kin, KinStill
  <1>5. parent'[initproc] = Nil
    BY DEF Kin, KinStill
  <1>6. \A p \in Slot : CallPoint(p)' \in ForkPub => parent'[loc'[p]] = p
    BY <1>1 DEF Kin, KinStill
  <1>7. \A p \in Slot : CallPoint(p)' \in ForkOwns \ ForkPub => parent'[loc'[p]] = Nil
    BY DEF Kin, KinStill
  <1> QED
    BY <1>2, <1>3, <1>4, <1>5, <1>6, <1>7 DEF Kin

\* A step keeps parents alive.
LEMMA NextKin == IInv /\ IInv' /\ InitStays /\ Kin /\ [Next]_vars => Kin'
<1> SUFFICES ASSUME IInv, IInv', InitStays, Kin, [Next]_vars PROVE Kin'
  OBVIOUS
<1> USE Ranges DEF IInv, TypeOK, Kin, CallPoint, LiveStates, InHandler, ForkOwns, ForkPub,
    vars, ptab, ident, locks, frame
<1>1. ASSUME NEW c \in CPUS, AcquirePtable(c) PROVE Kin'
  <2>1. KinStill
    BY <1>1, SMTT(60) DEF AcquirePtable, Goto, At, PtableFree, PtableAcquires, KinStill
  <2> QED
    BY <2>1, KinStays
<1>2. ASSUME NEW c \in CPUS, AcquireTicks(c) PROVE Kin'
  <2>1. KinStill
    BY <1>2, SMTT(60) DEF AcquireTicks, Goto, At, TicksFree, TicksAcquires, KinStill
  <2> QED
    BY <2>1, KinStays
<1>3. ASSUME NEW c \in CPUS, SchedulerRun(c) PROVE Kin'
  <2>1. KinStill
    BY <1>3, SMTT(60) DEF SchedulerRun, Goto, At, KinStill
  <2> QED
    BY <2>1, KinStays
<1>4. ASSUME NEW c \in CPUS, SchedulerRelease(c) PROVE Kin'
  <2>1. KinStill
    BY <1>4, SMTT(60) DEF SchedulerRelease, Goto, At, KinStill
  <2> QED
    BY <2>1, KinStays
<1>5. ASSUME NEW c \in CPUS, Sched(c) PROVE Kin'
  <2>1. PICK p \in Slot, e \in Scheds :
          /\ p = Thread(c) /\ pc[p] = e[1] /\ proc[c] = p /\ pc[c] = "away" /\ lock = c
          /\ state[p] = StateAt(e[1])
          /\ pc' = [pc EXCEPT ![p] = e[2], ![c] = "back"]
    BY <1>5, SchedStep
  <2>2. KinStill
    BY <1>5, <2>1, SMTT(60) DEF Sched, Goto, At, Scheds, KinStill
  <2> QED
    BY <2>2, KinStays
<1>6. ASSUME NEW c \in CPUS, Syscall(c) PROVE Kin'
  <2>1. KinStill
    BY <1>6, SMTT(60) DEF Syscall, Goto, At, KinStill
  <2> QED
    BY <2>1, KinStays
<1>7. ASSUME NEW c \in CPUS, SyscallReturn(c) PROVE Kin'
  <2>1. KinStill
    BY <1>7, SMTT(60) DEF SyscallReturn, Goto, At, KinStill
  <2> QED
    BY <2>1, KinStays
<1>8. ASSUME NEW c \in CPUS, FaultTrap(c) PROVE Kin'
  <2>1. KinStill
    BY <1>8, SMTT(60) DEF FaultTrap, Goto, At, KinStill
  <2> QED
    BY <2>1, KinStays
<1>9. ASSUME NEW c \in CPUS, TimerTrap(c) PROVE Kin'
  <2>1. KinStill
    BY <1>9, SMTT(60) DEF TimerTrap, Goto, At, Preemptible, KinStill
  <2> QED
    BY <2>1, KinStays
<1>10. ASSUME NEW c \in CPUS, TickIncrement(c) PROVE Kin'
  <2>1. KinStill
    BY <1>10, SMTT(60) DEF TickIncrement, Goto, At, KinStill
  <2> QED
    BY <2>1, KinStays
<1>11. ASSUME NEW c \in CPUS, TickWakeup(c) PROVE Kin'
  <2>1. KinStill
    BY <1>11, SMTT(60) DEF TickWakeup, Goto, At, Woken, KinStill
  <2> QED
    BY <2>1, KinStays
<1>12. ASSUME NEW c \in CPUS, TrapEnd(c) PROVE Kin'
  <2>1. KinStill
    BY <1>12, SMTT(60) DEF TrapEnd, Goto, At, AfterTrap, KinStill
  <2> QED
    BY <2>1, KinStays
<1>13. ASSUME NEW c \in CPUS, TrapReturn(c) PROVE Kin'
  <2>1. KinStill
    BY <1>13, SMTT(60) DEF TrapReturn, Goto, At, KinStill
  <2> QED
    BY <2>1, KinStays
<1>14. ASSUME NEW c \in CPUS, Yield(c) PROVE Kin'
  <2>1. PICK p \in Slot, v \in {"RUNNABLE", "SLEEPING"} :
          /\ p = Thread(c) /\ state[p] = "RUNNING" /\ lock = c
          /\ state' = [state EXCEPT ![p] = v]
    BY <1>14, ParkStep
  <2>2. KinStill
    BY <1>14, <2>1, SMTT(60) DEF Yield, Goto, At, KinStill
  <2> QED
    BY <2>2, KinStays
<1>15. ASSUME NEW c \in CPUS, ReleaseAfterSwtch(c) PROVE Kin'
  <2>1. KinStill
    BY <1>15, SMTT(60) DEF ReleaseAfterSwtch, Goto, At, KinStill
  <2> QED
    BY <2>1, KinStays
<1>16. ASSUME NEW c \in CPUS, AllocprocScan(c) PROVE Kin'
  <2> HIDE DEF InHandler, ForkOwns, ForkPub, CallPoint
  <2>1. PICK p \in Slot :
          /\ p = Thread(c) /\ pc[p] = "fork_scan" /\ state[p] = "RUNNING" /\ lock = c
          /\ \/ \E q \in Slot :
                   /\ state[q] = "UNUSED" /\ q # p
                   /\ pc' = [pc EXCEPT ![p] = "fork_kalloc"]
                   /\ state' = [state EXCEPT ![q] = "EMBRYO"]
                   /\ pid' = [pid EXCEPT ![q] = nextpid]
                   /\ nextpid' = nextpid + 1
                   /\ loc' = [loc EXCEPT ![p] = q]
             \/ /\ pc' = [pc EXCEPT ![p] = "sysret"]
                /\ UNCHANGED <<state, pid, nextpid, loc>>
    BY <1>16, AllocStep
  <2>2. UNCHANGED <<chan, parent, killed, kstack, tlock, proc, ipc, dur, ticks>>
    BY <1>16 DEF AllocprocScan
  <2>3. CASE UNCHANGED <<state, pid, nextpid, loc>> /\ pc' = [pc EXCEPT ![p] = "sysret"]
    <3>1. CallPoint(p)' = "sysret" /\ \A r \in Slot \ {p} : CallPoint(r)' = CallPoint(r)
      BY <2>2, <2>3, CallMoves, PointNames DEF InHandler
    <3>2. "sysret" \notin ForkOwns
      BY DEF ForkOwns
    <3>3. KinStill
      BY <2>2, <2>3, <3>1, <3>2 DEF KinStill
    <3> QED
      BY <3>3, KinStays
  <2>4. ASSUME NEW q \in Slot, state[q] = "UNUSED", q # p,
               pc' = [pc EXCEPT ![p] = "fork_kalloc"], state' = [state EXCEPT ![q] = "EMBRYO"],
               loc' = [loc EXCEPT ![p] = q]
        PROVE  Kin'
    <3>1. CallPoint(p)' = "fork_kalloc" /\ \A r \in Slot \ {p} : CallPoint(r)' = CallPoint(r)
      BY <2>2, <2>4, CallMoves, PointNames DEF InHandler
    <3>2. "fork_kalloc" \in ForkOwns \ ForkPub /\ ForkPub \subseteq ForkOwns
      BY DEF ForkOwns, ForkPub
    <3>3. parent[q] = Nil
      BY <2>4
    <3>4. \A s \in Slot : state'[s] = IF s = q THEN "EMBRYO" ELSE state[s]
      BY <2>4
    <3>5. \A r \in Slot : loc'[r] = IF r = p THEN q ELSE loc[r]
      BY <2>4
    <3>6. ASSUME NEW s \in Slot, parent'[s] # Nil
          PROVE  state'[parent'[s]] \in LiveStates /\ parent'[s] # s
      <4>1. parent'[s] = parent[s] /\ parent[s] \in Slot \cup {Nil}
        BY <2>2
      <4>2. PICK r \in Slot : r = parent[s]
        BY <3>6, <4>1
      <4>3. state[r] \in LiveStates /\ r # s
        BY <3>6, <4>1, <4>2
      <4>4. state'[r] = state[r]
        BY <2>4, <3>4, <4>3
      <4> QED
        BY <4>1, <4>2, <4>3, <4>4
    <3>7. \A s \in Slot \ {initproc} : state'[s] \in LiveStates \cup {"ZOMBIE"} => parent'[s] # Nil
      BY <2>2, <3>4
    <3>8. \A s \in Slot : state'[s] = "UNUSED" => parent'[s] = Nil
      BY <2>2, <3>4
    <3>9. \A r \in Slot : /\ CallPoint(r)' \in ForkPub => parent'[loc'[r]] = r
                          /\ CallPoint(r)' \in ForkOwns \ ForkPub => parent'[loc'[r]] = Nil
      BY <2>2, <3>1, <3>2, <3>3, <3>5
    <3> QED
      BY <2>2, <3>6, <3>7, <3>8, <3>9
  <2> QED
    BY <2>1, <2>3, <2>4
<1>17. ASSUME NEW c \in CPUS, AllocprocStack(c) PROVE Kin'
  <2>1. PICK p, q \in Slot :
          /\ q = loc[p] /\ q # p /\ state[q] = "EMBRYO" /\ pc[q] = "none"
          /\ At(c, p, "fork_kalloc") /\ state[p] = "RUNNING"
          /\ \/ pc' = [pc EXCEPT ![p] = "fork_copy", ![q] = "forkret"]
             \/ pc' = [pc EXCEPT ![p] = "fork_undo_acq"]
    BY <1>17, StackStep
  <2>2. KinStill
    BY <1>17, <2>1, SMTT(60) DEF AllocprocStack, Goto, At, KinStill
  <2> QED
    BY <2>2, KinStays
<1>18. ASSUME NEW c \in CPUS, ForkCopy(c) PROVE Kin'
  <2> HIDE DEF InHandler, ForkOwns, ForkPub, CallPoint
  <2>1. PICK p, q \in Slot :
          /\ q = loc[p] /\ q # p /\ state[q] = "EMBRYO" /\ pc[q] = "forkret"
          /\ At(c, p, "fork_copy") /\ state[p] = "RUNNING"
          /\ \A r \in Slot \ {p} : CallPoint(r) \in ForkOwns => loc[r] # q
          /\ \/ /\ pc' = [pc EXCEPT ![p] = "fork_pub_acq"]
                /\ parent' = [parent EXCEPT ![q] = p]
             \/ /\ pc' = [pc EXCEPT ![p] = "fork_undo_acq", ![q] = "none"]
                /\ UNCHANGED parent
    BY <1>18, CopyStep
  <2>2. UNCHANGED <<state, chan, pid, killed, nextpid, lock, tlock, proc, ipc, loc, dur, ticks>>
    BY <1>18 DEF ForkCopy
  <2>3. CallPoint(p) = "fork_copy"
    BY <2>1 DEF At, CallPoint, InHandler
  <2>4. /\ CallPoint(p)' \in {"fork_pub_acq", "fork_undo_acq"}
        /\ \A r \in Slot \ {p} : CallPoint(r) \in ForkOwns \/ CallPoint(r)' \in ForkOwns
                                  => CallPoint(r)' = CallPoint(r)
    <3>1. CASE pc' = [pc EXCEPT ![p] = "fork_pub_acq"]
      BY <2>2, <3>1, CallMoves, PointNames DEF InHandler
    <3>2. CASE pc' = [pc EXCEPT ![p] = "fork_undo_acq", ![q] = "none"]
      <4>1. pc'[p] = "fork_undo_acq" /\ pc'[q] = "none"
            /\ \A r \in Slot \ {p, q} : pc'[r] = pc[r]
        BY <2>1, <3>2
      <4>2. "none" \notin InHandler /\ "fork_undo_acq" \notin InHandler /\ "forkret" \notin InHandler
            /\ "none" \notin ForkOwns /\ "forkret" \notin ForkOwns
        BY DEF InHandler, ForkOwns
      <4> QED
        BY <2>1, <2>2, <4>1, <4>2 DEF CallPoint
    <3> QED
      BY <2>1, <3>1, <3>2
  <2>5. parent[q] = Nil
    <3>1. "fork_copy" \in ForkOwns \ ForkPub
      BY DEF ForkOwns, ForkPub
    <3> QED
      BY <2>1, <2>3, <3>1
  <2>6. ASSUME NEW s \in Slot, parent'[s] # Nil
        PROVE  state'[parent'[s]] \in LiveStates /\ parent'[s] # s
    <3>1. CASE parent'[s] = parent[s]
      <4>1. parent[s] \in Slot /\ state[parent[s]] \in LiveStates /\ parent[s] # s
        BY <2>6, <3>1
      <4> QED
        BY <2>2, <3>1, <4>1
    <3>2. CASE s = q /\ parent'[s] = p
      BY <2>1, <2>2, <3>2
    <3> QED
      BY <2>1, <3>1, <3>2
  <2>7. ASSUME NEW s \in Slot \ {initproc}, state'[s] \in LiveStates \cup {"ZOMBIE"}
        PROVE  parent'[s] # Nil
    BY <2>1, <2>2, <2>7
  <2>8. ASSUME NEW s \in Slot, state'[s] = "UNUSED" PROVE parent'[s] = Nil
    BY <2>1, <2>2, <2>8
  <2>9. parent'[initproc] = Nil
    BY <2>1 DEF InitStays
  <2>10. ASSUME NEW r \in Slot
         PROVE  /\ CallPoint(r)' \in ForkPub => parent'[loc'[r]] = r
                /\ CallPoint(r)' \in ForkOwns \ ForkPub => parent'[loc'[r]] = Nil
    <3>1. CASE r = p
      <4>1. "fork_pub_acq" \in ForkPub /\ "fork_undo_acq" \notin ForkPub
        BY DEF ForkPub
      <4>2. /\ pc'[p] = "fork_pub_acq" => CallPoint(p)' = "fork_pub_acq" /\ parent'[q] = p
            /\ pc'[p] = "fork_undo_acq" => CallPoint(p)' = "fork_undo_acq" /\ parent'[q] = Nil
        BY <2>1, <2>5 DEF CallPoint, InHandler
      <4>3. pc'[p] \in {"fork_pub_acq", "fork_undo_acq"}
        BY <2>1
      <4> QED
        BY <2>1, <2>2, <3>1, <4>1, <4>2, <4>3
    <3>2. CASE r # p
      <4>1. ForkPub \subseteq ForkOwns
        BY DEF ForkPub, ForkOwns
      <4>2. SUFFICES ASSUME CallPoint(r)' \in ForkOwns
                     PROVE  CallPoint(r)' = CallPoint(r) /\ parent'[loc'[r]] = parent[loc[r]]
        BY <4>1
      <4>3. CallPoint(r)' = CallPoint(r) /\ loc[r] # q /\ loc[r] \in Slot
        BY <2>1, <2>4, <3>2, <4>2 DEF EmbryoOwned
      <4> QED
        BY <2>1, <2>2, <4>3
    <3> QED
      BY <3>1, <3>2
  <2> QED
    BY <2>6, <2>7, <2>8, <2>9, <2>10
<1>19. ASSUME NEW c \in CPUS, ForkEnd(c) PROVE Kin'
  <2> HIDE DEF InHandler, ForkOwns, ForkPub, CallPoint
  <2>1. PICK p, q \in Slot :
          /\ q = loc[p] /\ q # p /\ state[q] = "EMBRYO" /\ state[p] = "RUNNING"
          /\ p = Thread(c) /\ pc[p] \in ForkPub \cup ForkUndo
          /\ pc' = [pc EXCEPT ![p] = "sysret"]
          /\ \A r \in Slot \ {p} : CallPoint(r) \in ForkOwns => loc[r] # q
          /\ \/ pc[p] \in ForkPub /\ state' = [state EXCEPT ![q] = "RUNNABLE"]
             \/ pc[p] \in ForkUndo /\ state' = [state EXCEPT ![q] = "UNUSED"]
    BY <1>19, EndStep
  <2>2. UNCHANGED <<chan, pid, parent, killed, kstack, nextpid, tlock, proc, ipc, loc, dur, ticks>>
    BY <1>19 DEF ForkEnd
  <2>3. CallPoint(p)' = "sysret" /\ \A r \in Slot \ {p} : CallPoint(r)' = CallPoint(r)
    BY <2>1, <2>2, CallMoves, PointNames DEF InHandler
  <2>4. CallPoint(p) = pc[p]
    BY <2>1 DEF ForkPub, ForkUndo, CallPoint, InHandler
  <2>5. ASSUME NEW s \in Slot, parent'[s] # Nil
        PROVE  state'[parent'[s]] \in LiveStates /\ parent'[s] # s
    <3>1. parent'[s] = parent[s] /\ parent[s] \in Slot
      BY <2>2, <2>5
    <3>2. state[parent[s]] \in LiveStates /\ parent[s] # s
      BY <2>5, <3>1
    <3>3. state'[parent[s]] = state[parent[s]]
      BY <2>1, <3>1, <3>2
    <3> QED
      BY <3>1, <3>2, <3>3
  <2>6. ASSUME NEW s \in Slot \ {initproc}, state'[s] \in LiveStates \cup {"ZOMBIE"}
        PROVE  parent'[s] # Nil
    <3>1. CASE s = q
      <4>1. pc[p] \in ForkPub
        BY <2>1, <2>6, <3>1
      <4>2. parent[q] = p
        BY <2>1, <2>4, <4>1
      <4> QED
        BY <2>2, <3>1, <4>2
    <3>2. CASE s # q
      BY <2>1, <2>2, <2>6, <3>2
    <3> QED
      BY <3>1, <3>2
  <2>7. ASSUME NEW s \in Slot, state'[s] = "UNUSED" PROVE parent'[s] = Nil
    <3>1. CASE s = q
      <4>1. pc[p] \in ForkUndo
        BY <2>1, <2>7, <3>1
      <4>2. pc[p] \in ForkOwns \ ForkPub
        BY <4>1 DEF ForkUndo, ForkOwns, ForkPub
      <4> QED
        BY <2>1, <2>2, <2>4, <3>1, <4>2
    <3>2. CASE s # q
      BY <2>1, <2>2, <2>7, <3>2
    <3> QED
      BY <3>1, <3>2
  <2>8. parent'[initproc] = Nil
    BY <2>2
  <2>9. ASSUME NEW r \in Slot
        PROVE  /\ CallPoint(r)' \in ForkPub => parent'[loc'[r]] = r
               /\ CallPoint(r)' \in ForkOwns \ ForkPub => parent'[loc'[r]] = Nil
    <3>1. "sysret" \notin ForkPub /\ "sysret" \notin ForkOwns
      BY DEF ForkPub, ForkOwns
    <3> QED
      BY <2>2, <2>3, <3>1
  <2> QED
    BY <2>5, <2>6, <2>7, <2>8, <2>9
<1>20. ASSUME NEW c \in CPUS, ExitWakeParent(c) PROVE Kin'
  <2>1. KinStill
    BY <1>20, SMTT(60) DEF ExitWakeParent, Goto, At, Woken, KinStill
  <2> QED
    BY <2>1, KinStays
<1>21. ASSUME NEW c \in CPUS, ExitZombie(c) PROVE Kin'
  <2> HIDE DEF InHandler, ForkOwns, ForkPub, CallPoint
  <2>1. PICK p \in Slot :
          /\ p = Thread(c) /\ pc[p] = "exit_zombie" /\ state[p] = "RUNNING" /\ lock = c
          /\ pc' = [pc EXCEPT ![p] = "exit_sched"]
          /\ \A s \in Slot :
                /\ parent'[s] = IF parent[s] = p THEN initproc ELSE parent[s]
                /\ state'[s] = IF s = p THEN "ZOMBIE"
                               ELSE IF state[s] = "SLEEPING" /\ chan[s] = initproc
                                       /\ OrphanZombie(p) THEN "RUNNABLE"
                               ELSE state[s]
    BY <1>21, ZombieStep
  <2>2. UNCHANGED <<chan, pid, killed, kstack, nextpid, lock, tlock, proc, ipc, loc, dur, ticks>>
    BY <1>21 DEF ExitZombie
  <2>3. CallPoint(p)' = "exit_sched" /\ \A r \in Slot \ {p} : CallPoint(r)' = CallPoint(r)
    BY <2>1, <2>2, CallMoves, PointNames DEF InHandler
  <2>4. p # initproc
    BY <2>1 DEF InitStays, Exiting
  <2>5. state'[initproc] \in LiveStates
    BY <2>1, <2>4 DEF InitStays
  <2>6. ASSUME NEW s \in Slot, parent'[s] # Nil
        PROVE  state'[parent'[s]] \in LiveStates /\ parent'[s] # s
    <3>1. CASE parent[s] = p
      BY <2>1, <2>4, <2>5, <3>1
    <3>2. CASE parent[s] # p
      <4>1. parent'[s] = parent[s] /\ parent[s] \in Slot
        BY <2>1, <2>6, <3>2
      <4>2. state[parent[s]] \in LiveStates /\ parent[s] # s
        BY <2>6, <4>1
      <4>3. state'[parent[s]] \in LiveStates
        BY <2>1, <3>2, <4>1, <4>2
      <4> QED
        BY <4>1, <4>2, <4>3
    <3> QED
      BY <3>1, <3>2
  <2>7. ASSUME NEW s \in Slot \ {initproc}, state'[s] \in LiveStates \cup {"ZOMBIE"}
        PROVE  parent'[s] # Nil
    <3>1. state[s] \in LiveStates \cup {"ZOMBIE"}
      BY <2>1, <2>7
    <3>2. parent[s] # Nil
      BY <3>1
    <3> QED
      BY <2>1, <3>2
  <2>8. ASSUME NEW s \in Slot, state'[s] = "UNUSED" PROVE parent'[s] = Nil
    <3>1. state[s] = "UNUSED"
      BY <2>1, <2>8
    <3> QED
      BY <2>1, <3>1
  <2>9. parent'[initproc] = Nil
    BY <2>1
  <2>10. ASSUME NEW r \in Slot
         PROVE  /\ CallPoint(r)' \in ForkPub => parent'[loc'[r]] = r
                /\ CallPoint(r)' \in ForkOwns \ ForkPub => parent'[loc'[r]] = Nil
    <3>1. SUFFICES ASSUME CallPoint(r)' \in ForkOwns
                   PROVE  /\ CallPoint(r)' = CallPoint(r) /\ r # p
                          /\ loc'[r] = loc[r] /\ loc[r] \in Slot
      <4>1. ForkPub \subseteq ForkOwns
        BY DEF ForkPub, ForkOwns
      <4>2. \A s \in Slot : parent[s] # p => parent'[s] = parent[s]
        BY <2>1
      <4> QED
        BY <2>1, <3>1, <4>1, <4>2
    <3>2. r # p /\ CallPoint(r)' = CallPoint(r)
      BY <2>3, <3>1 DEF ForkOwns
    <3> QED
      BY <2>2, <3>1, <3>2 DEF EmbryoOwned
  <2> QED
    BY <2>6, <2>7, <2>8, <2>9, <2>10
<1>22. ASSUME NEW c \in CPUS, WaitReap(c) PROVE Kin'
  BY <1>22, SMTT(60) DEF WaitReap, Goto, At, First, Children, ZombieChildren
<1>23. ASSUME NEW c \in CPUS, WaitNone(c) PROVE Kin'
  <2>1. KinStill
    BY <1>23, SMTT(60) DEF WaitNone, Goto, At, KinStill
  <2> QED
    BY <2>1, KinStays
<1>24. ASSUME NEW c \in CPUS, WaitChildren(c) PROVE Kin'
  <2>1. KinStill
    BY <1>24, SMTT(60) DEF WaitChildren, Goto, At, KinStill
  <2> QED
    BY <2>1, KinStays
<1>25. ASSUME NEW c \in CPUS, WaitSleep(c) PROVE Kin'
  <2>1. PICK p \in Slot, v \in {"RUNNABLE", "SLEEPING"} :
          /\ p = Thread(c) /\ state[p] = "RUNNING" /\ lock = c
          /\ state' = [state EXCEPT ![p] = v]
    BY <1>25, ParkStep
  <2>2. KinStill
    BY <1>25, <2>1, SMTT(60) DEF WaitSleep, Goto, At, KinStill
  <2> QED
    BY <2>2, KinStays
<1>26. ASSUME NEW c \in CPUS, WaitWake(c) PROVE Kin'
  <2>1. KinStill
    BY <1>26, SMTT(60) DEF WaitWake, Goto, At, KinStill
  <2> QED
    BY <2>1, KinStays
<1>27. ASSUME NEW c \in CPUS, Kill(c) PROVE Kin'
  <2>1. PICK p \in Slot :
          /\ p = Thread(c) /\ pc[p] = "kill_cs" /\ state[p] = "RUNNING" /\ lock = c
          /\ pc' = [pc EXCEPT ![p] = "sysret"]
          /\ \/ \E q \in Slot :
                   /\ pid[q] = loc[p] /\ killed' = [killed EXCEPT ![q] = TRUE]
                   /\ \A s \in Slot :
                         state'[s] = IF s = q /\ state[s] = "SLEEPING" THEN "RUNNABLE"
                                     ELSE state[s]
             \/ UNCHANGED <<killed, state>>
    BY <1>27, KillStep
  <2>2. KinStill
    BY <1>27, <2>1, SMTT(60) DEF Kill, Goto, At, First, WakeIfAsleep, KinStill
  <2> QED
    BY <2>2, KinStays
<1>28. ASSUME NEW c \in CPUS, SleepStart(c) PROVE Kin'
  <2>1. KinStill
    BY <1>28, SMTT(60) DEF SleepStart, Goto, At, KinStill
  <2> QED
    BY <2>1, KinStays
<1>29. ASSUME NEW c \in CPUS, SleepTest(c) PROVE Kin'
  <2>1. KinStill
    BY <1>29, SMTT(60) DEF SleepTest, Goto, At, KinStill
  <2> QED
    BY <2>1, KinStays
<1>30. ASSUME NEW c \in CPUS, Sleep(c) PROVE Kin'
  <2>1. PICK p \in Slot, v \in {"RUNNABLE", "SLEEPING"} :
          /\ p = Thread(c) /\ state[p] = "RUNNING" /\ lock = c
          /\ state' = [state EXCEPT ![p] = v]
    BY <1>30, ParkStep
  <2>2. KinStill
    BY <1>30, <2>1, SMTT(60) DEF Sleep, Goto, At, KinStill
  <2> QED
    BY <2>2, KinStays
<1>31. ASSUME NEW c \in CPUS, SleepWake(c) PROVE Kin'
  <2>1. KinStill
    BY <1>31, SMTT(60) DEF SleepWake, Goto, At, KinStill
  <2> QED
    BY <2>1, KinStays
<1>32. CASE UNCHANGED vars
  BY <1>32, SMTT(60)
<1> QED
  BY <1>1, <1>2, <1>3, <1>4, <1>5, <1>6, <1>7, <1>8, <1>9, <1>10, <1>11, <1>12, <1>13,
     <1>14, <1>15, <1>16, <1>17, <1>18, <1>19, <1>20, <1>21, <1>22, <1>23, <1>24, <1>25,
     <1>26, <1>27, <1>28, <1>29, <1>30, <1>31, <1>32 DEF Next, KernelStep, Acquire

----------------------------------------------------------------------------
(***************************************************************************)
(* Sleeping in wait().                                                     *)
(***************************************************************************)

\* p sleeps in wait(), or is about to with the lock held.
InWait(p) == pc[p] = "wait_sleep" \/ (state[p] = "SLEEPING" /\ chan[p] = p)

\* Whoever sleeps in wait() has children, none of which has exited, and was
\* not killed; a process that has woken its parent and is about to become a
\* ZOMBIE finds it still awake.
Waits ==
  /\ \A p \in Slot : InWait(p) => killed[p] = FALSE /\ \E s \in Slot : parent[s] = p
  /\ \A p, s \in Slot : InWait(p) /\ parent[s] = p => state[s] # "ZOMBIE"
  /\ \A p, s \in Slot : pc[s] = "exit_zombie" /\ parent[s] = p => ~InWait(p)

\* Whoever is at a point with ptable.lock held, and is not the thread that
\* holds it, is off its CPU.
LEMMA Alone ==
  ASSUME IInv, NEW c \in CPUS, lock = c, NEW q \in Slot, q # Thread(c)
  PROVE  pc[q] \notin {"wait_sleep", "exit_zombie", "wait_scan"}
  <1> SUFFICES ASSUME pc[q] \in {"wait_sleep", "exit_zombie", "wait_scan"} PROVE FALSE
    OBVIOUS
  <1>1. pc[q] \in PLocked /\ \A st : pc[q] \notin OffCpuPoints(st)
    BY DEF PLocked, OffCpuPoints, Parked
  <1>2. PICK d \in CPUS : Thread(d) = q
    BY <1>1, OnCpuThread DEF IInv, StateMatchesCode
  <1>3. lock = d
    BY <1>1, <1>2 DEF IInv, Switching, LockDiscipline
  <1> QED
    BY <1>2, <1>3

\* A step keeps the promise of wait().
LEMMA NextWaits == IInv /\ IInv' /\ InitStays /\ Kin /\ Kin' /\ Waits /\ [Next]_vars => Waits'
<1> SUFFICES ASSUME IInv, IInv', InitStays, Kin, Kin', Waits, [Next]_vars PROVE Waits'
  OBVIOUS
<1> USE Ranges DEF IInv, TypeOK, Waits, InWait,
    vars, ptab, ident, locks, frame
<1>1. ASSUME NEW c \in CPUS, AcquirePtable(c) PROVE Waits'
  BY <1>1, SMTT(60) DEF AcquirePtable, Goto, At, PtableFree, PtableAcquires
<1>2. ASSUME NEW c \in CPUS, AcquireTicks(c) PROVE Waits'
  BY <1>2, SMTT(60) DEF AcquireTicks, Goto, At, TicksFree, TicksAcquires
<1>3. ASSUME NEW c \in CPUS, SchedulerRun(c) PROVE Waits'
  BY <1>3, SMTT(60) DEF SchedulerRun, Goto, At
<1>4. ASSUME NEW c \in CPUS, SchedulerRelease(c) PROVE Waits'
  BY <1>4, SMTT(60) DEF SchedulerRelease, Goto, At
<1>5. ASSUME NEW c \in CPUS, Sched(c) PROVE Waits'
  BY <1>5, SMTT(60) DEF Sched, Goto, At, Scheds
<1>6. ASSUME NEW c \in CPUS, Syscall(c) PROVE Waits'
  BY <1>6, SMTT(60) DEF Syscall, Goto, At
<1>7. ASSUME NEW c \in CPUS, SyscallReturn(c) PROVE Waits'
  BY <1>7, SMTT(60) DEF SyscallReturn, Goto, At
<1>8. ASSUME NEW c \in CPUS, FaultTrap(c) PROVE Waits'
  <2>1. PICK p \in Slot : At(c, p, "user") /\ pc' = [pc EXCEPT ![p] = "exit_acq"]
                           /\ killed' = [killed EXCEPT ![p] = TRUE]
    BY <1>8 DEF FaultTrap, Goto
  <2>2. state[p] = "RUNNING"
    <3>1. StateAt("user") = "RUNNING"
      BY DEF StateAt
    <3> QED
      BY <2>1, <3>1, Mover, Ranges
  <2> QED
    BY <1>8, <2>1, <2>2, SMTT(60) DEF FaultTrap, At
<1>9. ASSUME NEW c \in CPUS, TimerTrap(c) PROVE Waits'
  BY <1>9, SMTT(60) DEF TimerTrap, Goto, At, Preemptible
<1>10. ASSUME NEW c \in CPUS, TickIncrement(c) PROVE Waits'
  BY <1>10, SMTT(60) DEF TickIncrement, Goto, At
<1>11. ASSUME NEW c \in CPUS, TickWakeup(c) PROVE Waits'
  BY <1>11, SMTT(60) DEF TickWakeup, Goto, At, Woken
<1>12. ASSUME NEW c \in CPUS, TrapEnd(c) PROVE Waits'
  BY <1>12, SMTT(60) DEF TrapEnd, Goto, At, AfterTrap
<1>13. ASSUME NEW c \in CPUS, TrapReturn(c) PROVE Waits'
  BY <1>13, SMTT(60) DEF TrapReturn, Goto, At, Preemptible
<1>14. ASSUME NEW c \in CPUS, Yield(c) PROVE Waits'
  <2>1. PICK p \in Slot, v \in {"RUNNABLE", "SLEEPING"} :
          /\ p = Thread(c) /\ state[p] = "RUNNING" /\ lock = c
          /\ state' = [state EXCEPT ![p] = v]
    BY <1>14, ParkStep
  <2> QED
    BY <1>14, <2>1, SMTT(60) DEF Yield, Goto, At
<1>15. ASSUME NEW c \in CPUS, ReleaseAfterSwtch(c) PROVE Waits'
  BY <1>15, SMTT(60) DEF ReleaseAfterSwtch, Goto, At
<1>16. ASSUME NEW c \in CPUS, AllocprocScan(c) PROVE Waits'
  <2>1. PICK p \in Slot :
          /\ p = Thread(c) /\ pc[p] = "fork_scan" /\ state[p] = "RUNNING" /\ lock = c
          /\ \/ \E q \in Slot :
                   /\ state[q] = "UNUSED" /\ q # p
                   /\ pc' = [pc EXCEPT ![p] = "fork_kalloc"]
                   /\ state' = [state EXCEPT ![q] = "EMBRYO"]
                   /\ pid' = [pid EXCEPT ![q] = nextpid]
                   /\ nextpid' = nextpid + 1
                   /\ loc' = [loc EXCEPT ![p] = q]
             \/ /\ pc' = [pc EXCEPT ![p] = "sysret"]
                /\ UNCHANGED <<state, pid, nextpid, loc>>
    BY <1>16, AllocStep
  <2> QED
    BY <1>16, <2>1, SMTT(60) DEF AllocprocScan, Goto, At, First, FreeSlots
<1>17. ASSUME NEW c \in CPUS, AllocprocStack(c) PROVE Waits'
  <2>1. PICK p, q \in Slot :
          /\ q = loc[p] /\ q # p /\ state[q] = "EMBRYO" /\ pc[q] = "none"
          /\ At(c, p, "fork_kalloc") /\ state[p] = "RUNNING"
          /\ \/ pc' = [pc EXCEPT ![p] = "fork_copy", ![q] = "forkret"]
             \/ pc' = [pc EXCEPT ![p] = "fork_undo_acq"]
    BY <1>17, StackStep
  <2> QED
    BY <1>17, <2>1, SMTT(60) DEF AllocprocStack, Goto, At
<1>18. ASSUME NEW c \in CPUS, ForkCopy(c) PROVE Waits'
  <2>1. PICK p, q \in Slot :
          /\ q = loc[p] /\ q # p /\ state[q] = "EMBRYO" /\ pc[q] = "forkret"
          /\ At(c, p, "fork_copy") /\ state[p] = "RUNNING"
          /\ \A r \in Slot \ {p} : CallPoint(r) \in ForkOwns => loc[r] # q
          /\ \/ /\ pc' = [pc EXCEPT ![p] = "fork_pub_acq"]
                /\ parent' = [parent EXCEPT ![q] = p]
             \/ /\ pc' = [pc EXCEPT ![p] = "fork_undo_acq", ![q] = "none"]
                /\ UNCHANGED parent
    BY <1>18, CopyStep
  <2>2. UNCHANGED <<state, chan, pid, killed, nextpid, lock, tlock, proc, ipc, loc, dur, ticks>>
    BY <1>18 DEF ForkCopy
  <2>3. parent[q] = Nil
    <3>1. CallPoint(p) = "fork_copy"
      BY <2>1 DEF At, CallPoint, InHandler
    <3>2. "fork_copy" \in ForkOwns \ ForkPub
      BY DEF ForkOwns, ForkPub
    <3> QED
      BY <2>1, <3>1, <3>2 DEF Kin
  <2>4. ASSUME NEW r \in Slot, InWait(r)' PROVE InWait(r) /\ r # p
    BY <2>1, <2>2, <2>4
  <2>5. \A s \in Slot : pc'[s] = "exit_zombie" => pc[s] = "exit_zombie" /\ s # q
    BY <2>1
  <2>6. \A s \in Slot \ {q} : parent'[s] = parent[s]
    BY <2>1
  <2>7. parent'[q] \in {Nil, p} /\ state[q] # "ZOMBIE"
    BY <2>1, <2>3
  <2> QED
    BY <2>2, <2>3, <2>4, <2>5, <2>6, <2>7
<1>19. ASSUME NEW c \in CPUS, ForkEnd(c) PROVE Waits'
  <2>1. PICK p, q \in Slot :
          /\ q = loc[p] /\ q # p /\ state[q] = "EMBRYO" /\ state[p] = "RUNNING"
          /\ p = Thread(c) /\ pc[p] \in ForkPub \cup ForkUndo
          /\ pc' = [pc EXCEPT ![p] = "sysret"]
          /\ \A r \in Slot \ {p} : CallPoint(r) \in ForkOwns => loc[r] # q
          /\ \/ pc[p] \in ForkPub /\ state' = [state EXCEPT ![q] = "RUNNABLE"]
             \/ pc[p] \in ForkUndo /\ state' = [state EXCEPT ![q] = "UNUSED"]
    BY <1>19, EndStep
  <2> QED
    BY <1>19, <2>1, SMTT(60) DEF ForkEnd, Goto, At, ForkPublishes, ForkUndoes
<1>20. ASSUME NEW c \in CPUS, ExitWakeParent(c) PROVE Waits'
  <2>1. PICK p \in Slot : At(c, p, "exit_cs") /\ pc' = [pc EXCEPT ![p] = "exit_zombie"]
                           /\ state' = Woken(state, parent[p])
    BY <1>20 DEF ExitWakeParent, Goto
  <2>2. UNCHANGED <<chan, parent, killed>>
    BY <1>20 DEF ExitWakeParent
  <2>3. p = Thread(c) /\ lock = c
    BY <2>1, Yields DEF At
  <2>4. ASSUME NEW r \in Slot, InWait(r)' PROVE InWait(r) /\ r # parent[p]
    <3>1. pc'[r] # "wait_sleep"
      BY <2>1, <2>3, Alone
    <3>2. state[r] = "SLEEPING" /\ chan[r] # parent[p]
      BY <2>1, <2>2, <2>4, <3>1 DEF Woken
    <3> QED
      BY <2>2, <2>4, <3>1, <3>2
  <2>5. \A s \in Slot : state'[s] = "ZOMBIE" => state[s] = "ZOMBIE"
    BY <2>1 DEF Woken
  <2>6. \A s \in Slot : pc'[s] = "exit_zombie" => s = p
    BY <2>1, <2>3, Alone
  <2> QED
    BY <2>2, <2>4, <2>5, <2>6
<1>21. ASSUME NEW c \in CPUS, ExitZombie(c) PROVE Waits'
  <2>1. PICK p \in Slot :
          /\ p = Thread(c) /\ pc[p] = "exit_zombie" /\ state[p] = "RUNNING" /\ lock = c
          /\ pc' = [pc EXCEPT ![p] = "exit_sched"]
          /\ \A s \in Slot :
                /\ parent'[s] = IF parent[s] = p THEN initproc ELSE parent[s]
                /\ state'[s] = IF s = p THEN "ZOMBIE"
                               ELSE IF state[s] = "SLEEPING" /\ chan[s] = initproc
                                       /\ OrphanZombie(p) THEN "RUNNABLE"
                               ELSE state[s]
    BY <1>21, ZombieStep
  <2>2. UNCHANGED <<chan, pid, killed, kstack, nextpid, lock, tlock, proc, ipc, loc, dur, ticks>>
    BY <1>21 DEF ExitZombie
  <2>3. ASSUME NEW r \in Slot, InWait(r)'
        PROVE  InWait(r) /\ r # p /\ ~(r = initproc /\ OrphanZombie(p))
    <3>1. pc'[r] # "wait_sleep"
      BY <2>1, Alone
    <3>2. state'[r] = "SLEEPING" /\ chan[r] = r
      BY <2>2, <2>3, <3>1
    <3> QED
      BY <2>1, <3>2
  <2>4. ASSUME NEW r \in Slot, NEW s \in Slot, InWait(r)', parent'[s] = r, state'[s] = "ZOMBIE"
        PROVE  FALSE
    <3>1. CASE parent[s] = p
      <4>1. r = initproc /\ state[s] = "ZOMBIE"
        BY <2>1, <2>4, <3>1 DEF Kin
      <4> QED
        BY <2>3, <2>4, <3>1, <4>1 DEF OrphanZombie
    <3>2. CASE parent[s] # p
      <4>1. parent[s] = r
        BY <2>1, <2>4, <3>2
      <4>2. s # p
        BY <2>1, <2>3, <2>4, <4>1
      <4>3. state[s] = "ZOMBIE"
        BY <2>1, <2>4, <4>2
      <4> QED
        BY <2>3, <2>4, <4>1, <4>3
    <3> QED
      BY <3>1, <3>2
  <2>5. ASSUME NEW r \in Slot, InWait(r)' PROVE killed'[r] = FALSE /\ \E s \in Slot : parent'[s] = r
    <3>1. InWait(r) /\ r # p
      BY <2>3, <2>5
    <3>2. PICK s \in Slot : parent[s] = r
      BY <3>1
    <3> QED
      BY <2>1, <2>2, <3>1, <3>2
  <2>6. \A s \in Slot : pc'[s] # "exit_zombie"
    BY <2>1, Alone
  <2> QED
    BY <2>4, <2>5, <2>6
<1>22. ASSUME NEW c \in CPUS, WaitReap(c) PROVE Waits'
  BY <1>22, SMTT(60) DEF WaitReap, Goto, At, First, Children, ZombieChildren
<1>23. ASSUME NEW c \in CPUS, WaitNone(c) PROVE Waits'
  BY <1>23, SMTT(60) DEF WaitNone, Goto, At
<1>24. ASSUME NEW c \in CPUS, WaitChildren(c) PROVE Waits'
  <2>1. PICK p \in Slot : /\ At(c, p, "wait_scan") /\ pc' = [pc EXCEPT ![p] = "wait_sleep"]
                          /\ ZombieChildren(p) = {} /\ Children(p) # {} /\ ~killed[p]
    BY <1>24 DEF WaitChildren, Goto
  <2>2. UNCHANGED <<state, chan, parent, killed>>
    BY <1>24 DEF WaitChildren, ptab, ident
  <2>3. p = Thread(c) /\ lock = c
    BY <2>1, Yields DEF At
  <2>4. \A s \in Slot : pc'[s] # "exit_zombie"
    BY <2>1, <2>3, Alone
  <2>5. \A r \in Slot \ {p} : InWait(r)' => InWait(r)
    BY <2>1, <2>2
  <2>6. /\ killed[p] = FALSE /\ \E s \in Slot : parent[s] = p
        /\ \A s \in Slot : parent[s] = p => state[s] # "ZOMBIE"
    <3>1. killed[p] = FALSE
      BY <2>1
    <3>2. \E s \in Slot : parent[s] = p
      <4>1. PICK s : s \in Children(p)
        BY <2>1
      <4> QED
        BY <4>1 DEF Children
    <3>3. \A s \in Slot : s \notin ZombieChildren(p)
      BY <2>1
    <3> QED
      BY <3>1, <3>2, <3>3 DEF Children, ZombieChildren
  <2> QED
    BY <2>2, <2>4, <2>5, <2>6
<1>25. ASSUME NEW c \in CPUS, WaitSleep(c) PROVE Waits'
  <2>1. PICK p \in Slot, v \in {"RUNNABLE", "SLEEPING"} :
          /\ p = Thread(c) /\ state[p] = "RUNNING" /\ lock = c
          /\ state' = [state EXCEPT ![p] = v]
    BY <1>25, ParkStep
  <2> QED
    BY <1>25, <2>1, SMTT(60) DEF WaitSleep, Goto, At
<1>26. ASSUME NEW c \in CPUS, WaitWake(c) PROVE Waits'
  BY <1>26, SMTT(60) DEF WaitWake, Goto, At, Nil
<1>27. ASSUME NEW c \in CPUS, Kill(c) PROVE Waits'
  <2>1. PICK p \in Slot :
          /\ p = Thread(c) /\ pc[p] = "kill_cs" /\ state[p] = "RUNNING" /\ lock = c
          /\ pc' = [pc EXCEPT ![p] = "sysret"]
          /\ \/ \E q \in Slot :
                   /\ pid[q] = loc[p] /\ killed' = [killed EXCEPT ![q] = TRUE]
                   /\ \A s \in Slot :
                         state'[s] = IF s = q /\ state[s] = "SLEEPING" THEN "RUNNABLE"
                                     ELSE state[s]
             \/ UNCHANGED <<killed, state>>
    BY <1>27, KillStep
  <2>2. UNCHANGED <<chan, pid, parent, kstack, nextpid, tlock, proc, ipc, loc, dur, ticks>>
    BY <1>27 DEF Kill
  <2>3. ASSUME NEW r \in Slot, InWait(r)' PROVE InWait(r) /\ killed'[r] = killed[r]
    <3>1. pc'[r] # "wait_sleep"
      BY <2>1, Alone
    <3>2. state'[r] = "SLEEPING" /\ chan[r] = r
      BY <2>2, <2>3, <3>1
    <3> QED
      BY <2>1, <3>2
  <2>4. \A s \in Slot : state'[s] = "ZOMBIE" => state[s] = "ZOMBIE"
    BY <2>1
  <2>5. \A s \in Slot : pc'[s] # "exit_zombie"
    BY <2>1, Alone
  <2> QED
    BY <2>2, <2>3, <2>4, <2>5
<1>28. ASSUME NEW c \in CPUS, SleepStart(c) PROVE Waits'
  BY <1>28, SMTT(60) DEF SleepStart, Goto, At
<1>29. ASSUME NEW c \in CPUS, SleepTest(c) PROVE Waits'
  BY <1>29, SMTT(60) DEF SleepTest, Goto, At
<1>30. ASSUME NEW c \in CPUS, Sleep(c) PROVE Waits'
  <2>1. PICK p \in Slot, v \in {"RUNNABLE", "SLEEPING"} :
          /\ p = Thread(c) /\ state[p] = "RUNNING" /\ lock = c
          /\ state' = [state EXCEPT ![p] = v]
    BY <1>30, ParkStep
  <2> QED
    BY <1>30, <2>1, SMTT(60) DEF Sleep, Goto, At
<1>31. ASSUME NEW c \in CPUS, SleepWake(c) PROVE Waits'
  BY <1>31, SMTT(60) DEF SleepWake, Goto, At, Nil
<1>32. CASE UNCHANGED vars
  BY <1>32, SMTT(60)
<1> QED
  BY <1>1, <1>2, <1>3, <1>4, <1>5, <1>6, <1>7, <1>8, <1>9, <1>10, <1>11, <1>12, <1>13,
     <1>14, <1>15, <1>16, <1>17, <1>18, <1>19, <1>20, <1>21, <1>22, <1>23, <1>24, <1>25,
     <1>26, <1>27, <1>28, <1>29, <1>30, <1>31, <1>32 DEF Next, KernelStep, Acquire

----------------------------------------------------------------------------
(***************************************************************************)
(* Sleeping in sys_sleep().                                                *)
(***************************************************************************)

\* The timer handler has advanced ticks and has yet to wake the sleepers.
Waking  == {"tick_wake_acq", "tick_wake"}
WakeDue == \E c \in CPUS : pc[Thread(c)] \in Waking

\* A process that sleeps on ticks, or is about to with tickslock held.
Dozing == {"slp_plock", "slp_sleep"}
OnTicks(p) == state[p] = "SLEEPING" /\ chan[p] = TicksChan

\* Whoever is about to sleep has time left, and whoever sleeps has time left
\* or is about to be woken.
Timely ==
  /\ \A p \in Slot : pc[p] \in Dozing => Elapsed(p) < dur[p]
  /\ \A p \in Slot : OnTicks(p) => Elapsed(p) < dur[p] \/ WakeDue

\* A process at one of these points of its system call is RUNNING.
LEMMA InCall ==
  ASSUME IInv
  PROVE  \A c \in CPUS, p \in Slot :
           (p = Thread(c) /\ pc[p] \in {"user", "sysret", "fork_scan", "slp_start", "slp_sleep"})
             => state[p] = "RUNNING"
  <1> SUFFICES ASSUME NEW c \in CPUS, NEW p \in Slot, p = Thread(c),
                      pc[p] \in {"user", "sysret", "fork_scan", "slp_start", "slp_sleep"}
               PROVE  state[p] = "RUNNING"
    OBVIOUS
  <1>1. StateAt(pc[p]) = "RUNNING" /\ At(c, p, pc[p])
    BY DEF StateAt, At
  <1> QED
    BY <1>1, Mover, Ranges

\* A step that neither advances ticks, nor wakes sleepers, nor sends anybody to
\* sleep on ticks.
Timeless ==
  /\ \A u \in Threads : pc[u] \in Waking => pc'[u] \in Waking
  /\ \A d \in CPUS : pc[Thread(d)] \in Waking => Thread(d)' = Thread(d)
  /\ \A p \in Slot : pc'[p] \in Dozing => pc[p] \in Dozing /\ loc'[p] = loc[p] /\ dur'[p] = dur[p]
  /\ \A p \in Slot : OnTicks(p)' => OnTicks(p) /\ loc'[p] = loc[p] /\ dur'[p] = dur[p]
  /\ UNCHANGED ticks

\* Such a step keeps the promise of sys_sleep().
LEMMA TimelessKeeps ==
  ASSUME IInv, Timely, Timeless
  PROVE  Timely'
  <1>1. \A p \in Slot : loc'[p] = loc[p] => Elapsed(p)' = Elapsed(p)
    BY DEF Elapsed, Timeless
  <1>2. WakeDue => WakeDue'
    <2> SUFFICES ASSUME NEW d \in CPUS, pc[Thread(d)] \in Waking PROVE pc'[Thread(d)'] \in Waking
      BY DEF WakeDue
    <2> QED
      BY ThreadType DEF Timeless, IInv
  <1>3. \A p \in Slot : pc'[p] \in Dozing => Elapsed(p)' < dur'[p]
    BY <1>1 DEF Timeless, Timely
  <1>4. \A p \in Slot : OnTicks(p)' => (Elapsed(p)' < dur'[p] \/ WakeDue')
    BY <1>1, <1>2 DEF Timeless, Timely
  <1> QED
    BY <1>3, <1>4 DEF Timely

\* A step keeps the promise of sys_sleep().
LEMMA NextTimely == IInv /\ Timely /\ [Next]_vars => Timely'
<1> SUFFICES ASSUME IInv, Timely, [Next]_vars PROVE Timely'
  OBVIOUS
<1> USE Ranges DEF IInv, TypeOK
<1>1. ASSUME NEW c \in CPUS, AcquirePtable(c) PROVE Timely'
  <2>1. Timeless
    BY <1>1, InCall, SMTT(60) DEF AcquirePtable, Goto, At, PtableFree, PtableAcquires,
       Timeless, OnTicks, Waking, Dozing, Thread, ptab, ident, locks, frame
  <2> QED
    BY <2>1, TimelessKeeps
<1>2. ASSUME NEW c \in CPUS, AcquireTicks(c) PROVE Timely'
  <2>1. Timeless
    BY <1>2, InCall, SMTT(60) DEF AcquireTicks, Goto, At, TicksFree, TicksAcquires,
       Timeless, OnTicks, Waking, Dozing, Thread, ptab, ident, locks, frame
  <2> QED
    BY <2>1, TimelessKeeps
<1>3. ASSUME NEW c \in CPUS, SchedulerRun(c) PROVE Timely'
  <2>1. Timeless
    BY <1>3, InCall, SMTT(60) DEF SchedulerRun, Goto, At, Timeless, OnTicks, Waking,
       Dozing, Thread, ptab, ident, locks, frame
  <2> QED
    BY <2>1, TimelessKeeps
<1>4. ASSUME NEW c \in CPUS, SchedulerRelease(c) PROVE Timely'
  <2>1. Timeless
    BY <1>4, InCall, SMTT(60) DEF SchedulerRelease, Goto, At, Timeless, OnTicks, Waking,
       Dozing, Thread, ptab, ident, locks, frame
  <2> QED
    BY <2>1, TimelessKeeps
<1>5. ASSUME NEW c \in CPUS, Sched(c) PROVE Timely'
  <2>1. PICK p \in Slot, e \in Scheds :
          /\ p = Thread(c) /\ pc[p] = e[1] /\ proc[c] = p /\ pc[c] = "away" /\ lock = c
          /\ state[p] = StateAt(e[1])
          /\ pc' = [pc EXCEPT ![p] = e[2], ![c] = "back"]
    BY <1>5, SchedStep
  <2>2. Timeless
    BY <1>5, <2>1, SMTT(60) DEF Sched, Goto, At, Scheds, Timeless, OnTicks, Waking,
       Dozing, Thread, ptab, ident, locks, frame
  <2> QED
    BY <2>2, TimelessKeeps
<1>6. ASSUME NEW c \in CPUS, Syscall(c) PROVE Timely'
  <2>1. Timeless
    BY <1>6, InCall, SMTT(60) DEF Syscall, Goto, At, Timeless, OnTicks, Waking, Dozing,
       Thread, ptab, ident, locks, frame
  <2> QED
    BY <2>1, TimelessKeeps
<1>7. ASSUME NEW c \in CPUS, SyscallReturn(c) PROVE Timely'
  <2>1. Timeless
    BY <1>7, InCall, SMTT(60) DEF SyscallReturn, Goto, At, Timeless, OnTicks, Waking,
       Dozing, Thread, ptab, ident, locks, frame
  <2> QED
    BY <2>1, TimelessKeeps
<1>8. ASSUME NEW c \in CPUS, FaultTrap(c) PROVE Timely'
  <2>1. Timeless
    BY <1>8, InCall, SMTT(60) DEF FaultTrap, Goto, At, Timeless, OnTicks, Waking, Dozing,
       Thread, ptab, ident, locks, frame
  <2> QED
    BY <2>1, TimelessKeeps
<1>9. ASSUME NEW c \in CPUS, TimerTrap(c) PROVE Timely'
  <2>1. Timeless
    BY <1>9, InCall, SMTT(60) DEF TimerTrap, Goto, At, Preemptible, Timeless, OnTicks,
       Waking, Dozing, Thread, ptab, ident, locks, frame
  <2> QED
    BY <2>1, TimelessKeeps
<1>10. ASSUME NEW c \in CPUS, TickIncrement(c) PROVE Timely'
  <2>1. PICK t \in Threads : At(c, t, "tick_inc") /\ pc' = [pc EXCEPT ![t] = "tick_wake_acq"]
    BY <1>10 DEF TickIncrement, Goto
  <2>2. UNCHANGED <<proc, state, chan>>
    BY <1>10 DEF TickIncrement, ptab
  <2>3. WakeDue'
    <3>1. t = Thread(c) /\ Thread(c)' = Thread(c)
      BY <2>1, <2>2 DEF At, Thread
    <3>2. pc'[Thread(c)'] = "tick_wake_acq"
      BY <2>1, <3>1
    <3> QED
      BY <3>2 DEF WakeDue, Waking
  <2>4. ASSUME NEW p \in Slot, pc'[p] \in Dozing PROVE FALSE
    <3>1. pc[p] \in Dozing /\ p # t
      BY <2>1, <2>4 DEF Dozing
    <3>2. pc[p] \in TLocked /\ \A st : pc[p] \notin OffCpuPoints(st)
      BY <3>1 DEF Dozing, TLocked, OffCpuPoints, Parked
    <3>3. PICK d \in CPUS : Thread(d) = p
      BY <3>2, OnCpuThread DEF StateMatchesCode
    <3>4. tlock = d
      BY <3>2, <3>3 DEF Switching, LockDiscipline
    <3>5. tlock = c
      BY <2>1, Mover DEF TLocked
    <3> QED
      BY <2>1, <3>1, <3>3, <3>4, <3>5 DEF At
  <2> QED
    BY <2>3, <2>4 DEF Timely
<1>11. ASSUME NEW c \in CPUS, TickWakeup(c) PROVE Timely'
  <2>1. PICK t \in Threads : At(c, t, "tick_wake") /\ pc' = [pc EXCEPT ![t] = "trap_end"]
    BY <1>11 DEF TickWakeup, Goto
  <2>2. state' = Woken(state, TicksChan) /\ UNCHANGED <<chan, loc, dur, ticks>>
    BY <1>11 DEF TickWakeup, frame
  <2>3. \A p \in Slot : ~OnTicks(p)'
    BY <2>2 DEF Woken, OnTicks
  <2>4. \A p \in Slot : pc'[p] \in Dozing => pc[p] \in Dozing
    BY <2>1 DEF Dozing
  <2>5. \A p \in Slot : Elapsed(p)' = Elapsed(p)
    BY <2>2 DEF Elapsed
  <2> QED
    BY <2>2, <2>3, <2>4, <2>5 DEF Timely
<1>12. ASSUME NEW c \in CPUS, TrapEnd(c) PROVE Timely'
  <2>1. Timeless
    BY <1>12, InCall, SMTT(60) DEF TrapEnd, Goto, At, AfterTrap, Preemptible, Timeless,
       OnTicks, Waking, Dozing, Thread, ptab, ident, locks, frame
  <2> QED
    BY <2>1, TimelessKeeps
<1>13. ASSUME NEW c \in CPUS, TrapReturn(c) PROVE Timely'
  <2>1. Timeless
    BY <1>13, InCall, SMTT(60) DEF TrapReturn, Goto, At, Preemptible, Timeless, OnTicks,
       Waking, Dozing, Thread, ptab, ident, locks, frame
  <2> QED
    BY <2>1, TimelessKeeps
<1>14. ASSUME NEW c \in CPUS, Yield(c) PROVE Timely'
  <2>1. PICK p \in Slot, v \in {"RUNNABLE", "SLEEPING"} :
          /\ p = Thread(c) /\ state[p] = "RUNNING" /\ lock = c
          /\ state' = [state EXCEPT ![p] = v]
    BY <1>14, ParkStep
  <2>2. Timeless
    BY <1>14, <2>1, SMTT(60) DEF Yield, Goto, At, Timeless, OnTicks, Waking, Dozing,
       Thread, ptab, ident, locks, frame
  <2> QED
    BY <2>2, TimelessKeeps
<1>15. ASSUME NEW c \in CPUS, ReleaseAfterSwtch(c) PROVE Timely'
  <2>1. Timeless
    BY <1>15, InCall, SMTT(60) DEF ReleaseAfterSwtch, Goto, At, Timeless, OnTicks,
       Waking, Dozing, Thread, ptab, ident, locks, frame
  <2> QED
    BY <2>1, TimelessKeeps
<1>16. ASSUME NEW c \in CPUS, AllocprocScan(c) PROVE Timely'
  <2>1. PICK p \in Slot :
          /\ p = Thread(c) /\ pc[p] = "fork_scan" /\ state[p] = "RUNNING" /\ lock = c
          /\ \/ \E q \in Slot :
                   /\ state[q] = "UNUSED" /\ q # p
                   /\ pc' = [pc EXCEPT ![p] = "fork_kalloc"]
                   /\ state' = [state EXCEPT ![q] = "EMBRYO"]
                   /\ pid' = [pid EXCEPT ![q] = nextpid]
                   /\ nextpid' = nextpid + 1
                   /\ loc' = [loc EXCEPT ![p] = q]
             \/ /\ pc' = [pc EXCEPT ![p] = "sysret"]
                /\ UNCHANGED <<state, pid, nextpid, loc>>
    BY <1>16, AllocStep
  <2>2. Timeless
    BY <1>16, <2>1, SMTT(60) DEF AllocprocScan, Goto, At, First, FreeSlots, Timeless,
       OnTicks, Waking, Dozing, Thread, ptab, ident, locks, frame
  <2> QED
    BY <2>2, TimelessKeeps
<1>17. ASSUME NEW c \in CPUS, AllocprocStack(c) PROVE Timely'
  <2>1. PICK p, q \in Slot :
          /\ q = loc[p] /\ q # p /\ state[q] = "EMBRYO" /\ pc[q] = "none"
          /\ At(c, p, "fork_kalloc") /\ state[p] = "RUNNING"
          /\ \/ pc' = [pc EXCEPT ![p] = "fork_copy", ![q] = "forkret"]
             \/ pc' = [pc EXCEPT ![p] = "fork_undo_acq"]
    BY <1>17, StackStep
  <2>2. Timeless
    BY <1>17, <2>1, SMTT(60) DEF AllocprocStack, Goto, At, Timeless, OnTicks, Waking,
       Dozing, Thread, ptab, ident, locks, frame
  <2> QED
    BY <2>2, TimelessKeeps
<1>18. ASSUME NEW c \in CPUS, ForkCopy(c) PROVE Timely'
  <2>1. PICK p, q \in Slot :
          /\ q = loc[p] /\ q # p /\ state[q] = "EMBRYO" /\ pc[q] = "forkret"
          /\ At(c, p, "fork_copy") /\ state[p] = "RUNNING"
          /\ \A r \in Slot \ {p} : CallPoint(r) \in ForkOwns => loc[r] # q
          /\ \/ /\ pc' = [pc EXCEPT ![p] = "fork_pub_acq"]
                /\ parent' = [parent EXCEPT ![q] = p]
             \/ /\ pc' = [pc EXCEPT ![p] = "fork_undo_acq", ![q] = "none"]
                /\ UNCHANGED parent
    BY <1>18, CopyStep
  <2>2. Timeless
    BY <1>18, <2>1, SMTT(60) DEF ForkCopy, Goto, At, Timeless, OnTicks, Waking, Dozing,
       Thread, ptab, ident, locks, frame
  <2> QED
    BY <2>2, TimelessKeeps
<1>19. ASSUME NEW c \in CPUS, ForkEnd(c) PROVE Timely'
  <2>1. PICK p, q \in Slot :
          /\ q = loc[p] /\ q # p /\ state[q] = "EMBRYO" /\ state[p] = "RUNNING"
          /\ p = Thread(c) /\ pc[p] \in ForkPub \cup ForkUndo
          /\ pc' = [pc EXCEPT ![p] = "sysret"]
          /\ \A r \in Slot \ {p} : CallPoint(r) \in ForkOwns => loc[r] # q
          /\ \/ pc[p] \in ForkPub /\ state' = [state EXCEPT ![q] = "RUNNABLE"]
             \/ pc[p] \in ForkUndo /\ state' = [state EXCEPT ![q] = "UNUSED"]
    BY <1>19, EndStep
  <2>2. Timeless
    BY <1>19, <2>1, SMTT(60) DEF ForkEnd, Goto, At, ForkPub, ForkUndo, Timeless, OnTicks,
       Waking, Dozing, Thread, ptab, ident, locks, frame
  <2> QED
    BY <2>2, TimelessKeeps
<1>20. ASSUME NEW c \in CPUS, ExitWakeParent(c) PROVE Timely'
  <2>1. Timeless
    BY <1>20, InCall, SMTT(60) DEF ExitWakeParent, Goto, At, Woken, Timeless, OnTicks,
       Waking, Dozing, Thread, ptab, ident, locks, frame
  <2> QED
    BY <2>1, TimelessKeeps
<1>21. ASSUME NEW c \in CPUS, ExitZombie(c) PROVE Timely'
  <2>1. PICK p \in Slot :
          /\ p = Thread(c) /\ pc[p] = "exit_zombie" /\ state[p] = "RUNNING" /\ lock = c
          /\ pc' = [pc EXCEPT ![p] = "exit_sched"]
          /\ \A s \in Slot :
                /\ parent'[s] = IF parent[s] = p THEN initproc ELSE parent[s]
                /\ state'[s] = IF s = p THEN "ZOMBIE"
                               ELSE IF state[s] = "SLEEPING" /\ chan[s] = initproc
                                       /\ OrphanZombie(p) THEN "RUNNABLE"
                               ELSE state[s]
    BY <1>21, ZombieStep
  <2>2. Timeless
    BY <1>21, <2>1, SMTT(60) DEF ExitZombie, Goto, At, Woken, Reparented, Timeless,
       OnTicks, Waking, Dozing, Thread, ptab, ident, locks, frame
  <2> QED
    BY <2>2, TimelessKeeps
<1>22. ASSUME NEW c \in CPUS, WaitReap(c) PROVE Timely'
  <2>1. PICK p, z \in Slot :
          /\ p = Thread(c) /\ pc[p] = "wait_scan" /\ state[p] = "RUNNING" /\ lock = c
          /\ z # p /\ parent[z] = p /\ state[z] = "ZOMBIE" /\ pc[z] = "dead" /\ ~OnCpu(z)
          /\ state' = [state EXCEPT ![z] = "UNUSED"]
          /\ pid' = [pid EXCEPT ![z] = 0]
          /\ parent' = [parent EXCEPT ![z] = Nil]
          /\ killed' = [killed EXCEPT ![z] = FALSE]
          /\ pc' = [pc EXCEPT ![p] = "sysret", ![z] = "none"]
    BY <1>22, ReapStep
  <2>2. Timeless
    BY <1>22, <2>1, SMTT(60) DEF WaitReap, Goto, At, First, Children, ZombieChildren,
       Timeless, OnTicks, Waking, Dozing, Thread, ptab, ident, locks, frame
  <2> QED
    BY <2>2, TimelessKeeps
<1>23. ASSUME NEW c \in CPUS, WaitNone(c) PROVE Timely'
  <2>1. Timeless
    BY <1>23, InCall, SMTT(60) DEF WaitNone, Goto, At, Timeless, OnTicks, Waking, Dozing,
       Thread, ptab, ident, locks, frame
  <2> QED
    BY <2>1, TimelessKeeps
<1>24. ASSUME NEW c \in CPUS, WaitChildren(c) PROVE Timely'
  <2>1. Timeless
    BY <1>24, InCall, SMTT(60) DEF WaitChildren, Goto, At, Timeless, OnTicks, Waking,
       Dozing, Thread, ptab, ident, locks, frame
  <2> QED
    BY <2>1, TimelessKeeps
<1>25. ASSUME NEW c \in CPUS, WaitSleep(c) PROVE Timely'
  <2>1. PICK p \in Slot, v \in {"RUNNABLE", "SLEEPING"} :
          /\ p = Thread(c) /\ state[p] = "RUNNING" /\ lock = c
          /\ state' = [state EXCEPT ![p] = v]
    BY <1>25, ParkStep
  <2>2. Timeless
    BY <1>25, <2>1, SMTT(60) DEF WaitSleep, Goto, At, Timeless, OnTicks, Waking, Dozing,
       Thread, ptab, ident, locks, frame
  <2> QED
    BY <2>2, TimelessKeeps
<1>26. ASSUME NEW c \in CPUS, WaitWake(c) PROVE Timely'
  <2>1. Timeless
    BY <1>26, InCall, SMTT(60) DEF WaitWake, Goto, At, Timeless, OnTicks, Waking, Dozing,
       Thread, ptab, ident, locks, frame
  <2> QED
    BY <2>1, TimelessKeeps
<1>27. ASSUME NEW c \in CPUS, Kill(c) PROVE Timely'
  <2>1. PICK p \in Slot :
          /\ p = Thread(c) /\ pc[p] = "kill_cs" /\ state[p] = "RUNNING" /\ lock = c
          /\ pc' = [pc EXCEPT ![p] = "sysret"]
          /\ \/ \E q \in Slot :
                   /\ pid[q] = loc[p] /\ killed' = [killed EXCEPT ![q] = TRUE]
                   /\ \A s \in Slot :
                         state'[s] = IF s = q /\ state[s] = "SLEEPING" THEN "RUNNABLE"
                                     ELSE state[s]
             \/ UNCHANGED <<killed, state>>
    BY <1>27, KillStep
  <2>2. Timeless
    BY <1>27, <2>1, SMTT(60) DEF Kill, Goto, At, First, WakeIfAsleep, Timeless, OnTicks,
       Waking, Dozing, Thread, ptab, ident, locks, frame
  <2> QED
    BY <2>2, TimelessKeeps
<1>28. ASSUME NEW c \in CPUS, SleepStart(c) PROVE Timely'
  <2>1. Timeless
    BY <1>28, InCall, SMTT(60) DEF SleepStart, Goto, At, Timeless, OnTicks, Waking,
       Dozing, Thread, ptab, ident, locks, frame
  <2> QED
    BY <2>1, TimelessKeeps
<1>29. ASSUME NEW c \in CPUS, SleepTest(c) PROVE Timely'
  <2>1. PICK p \in Slot :
          /\ At(c, p, "slp_test")
          /\ \/ pc' = [pc EXCEPT ![p] = "sysret"]
             \/ Elapsed(p) < dur[p] /\ pc' = [pc EXCEPT ![p] = "slp_plock"]
    BY <1>29 DEF SleepTest, Goto
  <2>2. UNCHANGED <<proc, state, chan, loc, dur, ticks>>
    BY <1>29 DEF SleepTest, ptab, frame
  <2>3. \A r \in Slot : pc'[r] \in Dozing => Elapsed(r) < dur[r]
    BY <2>1 DEF Timely, Dozing
  <2>4. \A r \in Slot : Elapsed(r)' = Elapsed(r) /\ OnTicks(r)' = OnTicks(r)
    BY <2>2 DEF Elapsed, OnTicks
  <2>5. WakeDue => WakeDue'
    <3> SUFFICES ASSUME NEW d \in CPUS, pc[Thread(d)] \in Waking PROVE pc'[Thread(d)'] \in Waking
      BY DEF WakeDue
    <3>1. Thread(d)' = Thread(d) /\ Thread(d) # p
      BY <2>1, <2>2 DEF Thread, At, Waking
    <3> QED
      BY <2>1, <3>1, ThreadType
  <2> QED
    BY <2>2, <2>3, <2>4, <2>5 DEF Timely
<1>30. ASSUME NEW c \in CPUS, Sleep(c) PROVE Timely'
  <2>1. PICK p \in Slot :
          /\ At(c, p, "slp_sleep") /\ pc' = [pc EXCEPT ![p] = "slp_sched"]
          /\ chan' = [chan EXCEPT ![p] = TicksChan] /\ state' = [state EXCEPT ![p] = "SLEEPING"]
    BY <1>30 DEF Sleep, Goto
  <2>2. UNCHANGED <<proc, loc, dur, ticks>>
    BY <1>30 DEF Sleep, frame
  <2>3. Elapsed(p) < dur[p]
    BY <2>1 DEF At, Timely, Dozing
  <2>4. \A r \in Slot : Elapsed(r)' = Elapsed(r)
    BY <2>2 DEF Elapsed
  <2>5. \A r \in Slot : pc'[r] \in Dozing => pc[r] \in Dozing
    BY <2>1 DEF Dozing
  <2>6. \A r \in Slot \ {p} : OnTicks(r)' = OnTicks(r)
    BY <2>1 DEF OnTicks
  <2>7. WakeDue => WakeDue'
    <3> SUFFICES ASSUME NEW d \in CPUS, pc[Thread(d)] \in Waking PROVE pc'[Thread(d)'] \in Waking
      BY DEF WakeDue
    <3>1. Thread(d)' = Thread(d) /\ Thread(d) # p
      BY <2>1, <2>2 DEF Thread, At, Waking
    <3> QED
      BY <2>1, <3>1, ThreadType
  <2> QED
    BY <2>2, <2>3, <2>4, <2>5, <2>6, <2>7 DEF Timely
<1>31. ASSUME NEW c \in CPUS, SleepWake(c) PROVE Timely'
  <2>1. Timeless
    BY <1>31, InCall, SMTT(60) DEF SleepWake, Goto, At, Timeless, OnTicks, Waking,
       Dozing, Thread, ptab, ident, locks, frame
  <2> QED
    BY <2>1, TimelessKeeps
<1>32. CASE UNCHANGED vars
  <2>1. Timeless
    BY <1>32, SMTT(60) DEF vars, Timeless, OnTicks, Waking, Dozing, Thread, ptab, ident,
       locks, frame
  <2> QED
    BY <2>1, TimelessKeeps
<1> QED
  BY <1>1, <1>2, <1>3, <1>4, <1>5, <1>6, <1>7, <1>8, <1>9, <1>10, <1>11, <1>12, <1>13,
     <1>14, <1>15, <1>16, <1>17, <1>18, <1>19, <1>20, <1>21, <1>22, <1>23, <1>24, <1>25,
     <1>26, <1>27, <1>28, <1>29, <1>30, <1>31, <1>32 DEF Next, KernelStep, Acquire

----------------------------------------------------------------------------
(***************************************************************************)
(* Sleep channels, and the slot that fork() is about to publish.           *)
(***************************************************************************)

\* Whoever sleeps does so in wait() or in sys_sleep(), and the slot fork() is
\* about to publish is the only one being set up that has a parent.
Bonds ==
  /\ \A p \in Slot : state[p] = "SLEEPING" => chan[p] \in {p, TicksChan}
  /\ \A p, s \in Slot : state[s] = "EMBRYO" /\ parent[s] = p => CallPoint(p) \in ForkPub
  /\ \A p, s \in Slot : state[s] = "EMBRYO" /\ parent[s] = p => loc[p] = s

\* A step keeps it so.
LEMMA NextBonds == IInv /\ IInv' /\ InitStays /\ Kin /\ Kin' /\ Bonds /\ [Next]_vars => Bonds'
<1> SUFFICES ASSUME IInv, IInv', InitStays, Kin, Kin', Bonds, [Next]_vars PROVE Bonds'
  OBVIOUS
<1> USE Ranges DEF IInv, TypeOK, Bonds, CallPoint, ForkPub, InHandler,
    vars, ptab, ident, locks, frame
<1>1. ASSUME NEW c \in CPUS, AcquirePtable(c) PROVE Bonds'
  BY <1>1, SMTT(60) DEF AcquirePtable, Goto, At, PtableFree, PtableAcquires
<1>2. ASSUME NEW c \in CPUS, AcquireTicks(c) PROVE Bonds'
  BY <1>2, SMTT(60) DEF AcquireTicks, Goto, At, TicksFree, TicksAcquires
<1>3. ASSUME NEW c \in CPUS, SchedulerRun(c) PROVE Bonds'
  BY <1>3, SMTT(60) DEF SchedulerRun, Goto, At
<1>4. ASSUME NEW c \in CPUS, SchedulerRelease(c) PROVE Bonds'
  BY <1>4, SMTT(60) DEF SchedulerRelease, Goto, At
<1>5. ASSUME NEW c \in CPUS, Sched(c) PROVE Bonds'
  BY <1>5, SMTT(60) DEF Sched, Goto, At, Scheds
<1>6. ASSUME NEW c \in CPUS, Syscall(c) PROVE Bonds'
  BY <1>6, SMTT(60) DEF Syscall, Goto, At
<1>7. ASSUME NEW c \in CPUS, SyscallReturn(c) PROVE Bonds'
  BY <1>7, SMTT(60) DEF SyscallReturn, Goto, At
<1>8. ASSUME NEW c \in CPUS, FaultTrap(c) PROVE Bonds'
  BY <1>8, SMTT(60) DEF FaultTrap, Goto, At
<1>9. ASSUME NEW c \in CPUS, TimerTrap(c) PROVE Bonds'
  BY <1>9, SMTT(60) DEF TimerTrap, Goto, At, Preemptible
<1>10. ASSUME NEW c \in CPUS, TickIncrement(c) PROVE Bonds'
  BY <1>10, SMTT(60) DEF TickIncrement, Goto, At
<1>11. ASSUME NEW c \in CPUS, TickWakeup(c) PROVE Bonds'
  BY <1>11, SMTT(60) DEF TickWakeup, Goto, At, Woken
<1>12. ASSUME NEW c \in CPUS, TrapEnd(c) PROVE Bonds'
  BY <1>12, SMTT(60) DEF TrapEnd, Goto, At, AfterTrap
<1>13. ASSUME NEW c \in CPUS, TrapReturn(c) PROVE Bonds'
  BY <1>13, SMTT(60) DEF TrapReturn, Goto, At, Preemptible
<1>14. ASSUME NEW c \in CPUS, Yield(c) PROVE Bonds'
  <2>1. PICK p \in Slot, v \in {"RUNNABLE", "SLEEPING"} :
          /\ p = Thread(c) /\ state[p] = "RUNNING" /\ lock = c
          /\ state' = [state EXCEPT ![p] = v]
    BY <1>14, ParkStep
  <2> QED
    BY <1>14, <2>1, SMTT(60) DEF Yield, Goto, At
<1>15. ASSUME NEW c \in CPUS, ReleaseAfterSwtch(c) PROVE Bonds'
  BY <1>15, SMTT(60) DEF ReleaseAfterSwtch, Goto, At
<1>16. ASSUME NEW c \in CPUS, AllocprocScan(c) PROVE Bonds'
  <2>1. PICK p \in Slot :
          /\ p = Thread(c) /\ pc[p] = "fork_scan" /\ state[p] = "RUNNING" /\ lock = c
          /\ \/ \E q \in Slot :
                   /\ state[q] = "UNUSED" /\ q # p
                   /\ pc' = [pc EXCEPT ![p] = "fork_kalloc"]
                   /\ state' = [state EXCEPT ![q] = "EMBRYO"]
                   /\ pid' = [pid EXCEPT ![q] = nextpid]
                   /\ nextpid' = nextpid + 1
                   /\ loc' = [loc EXCEPT ![p] = q]
             \/ /\ pc' = [pc EXCEPT ![p] = "sysret"]
                /\ UNCHANGED <<state, pid, nextpid, loc>>
    BY <1>16, AllocStep
  <2>2. UNCHANGED <<chan, parent, killed, kstack, tlock, proc, ipc, dur, ticks>>
    BY <1>16 DEF AllocprocScan
  <2>3. \A q \in Slot : state[q] = "UNUSED" => parent[q] = Nil
    BY DEF Kin
  <2> QED
    BY <2>1, <2>2, <2>3, SMTT(60)
<1>17. ASSUME NEW c \in CPUS, AllocprocStack(c) PROVE Bonds'
  <2>1. PICK p, q \in Slot :
          /\ q = loc[p] /\ q # p /\ state[q] = "EMBRYO" /\ pc[q] = "none"
          /\ At(c, p, "fork_kalloc") /\ state[p] = "RUNNING"
          /\ \/ pc' = [pc EXCEPT ![p] = "fork_copy", ![q] = "forkret"]
             \/ pc' = [pc EXCEPT ![p] = "fork_undo_acq"]
    BY <1>17, StackStep
  <2> QED
    BY <1>17, <2>1, SMTT(60) DEF AllocprocStack, Goto, At
<1>18. ASSUME NEW c \in CPUS, ForkCopy(c) PROVE Bonds'
  <2>1. PICK p, q \in Slot :
          /\ q = loc[p] /\ q # p /\ state[q] = "EMBRYO" /\ pc[q] = "forkret"
          /\ At(c, p, "fork_copy") /\ state[p] = "RUNNING"
          /\ \A r \in Slot \ {p} : CallPoint(r) \in ForkOwns => loc[r] # q
          /\ \/ /\ pc' = [pc EXCEPT ![p] = "fork_pub_acq"]
                /\ parent' = [parent EXCEPT ![q] = p]
             \/ /\ pc' = [pc EXCEPT ![p] = "fork_undo_acq", ![q] = "none"]
                /\ UNCHANGED parent
    BY <1>18, CopyStep
  <2> QED
    BY <1>18, <2>1, SMTT(60) DEF ForkCopy, Goto, At
<1>19. ASSUME NEW c \in CPUS, ForkEnd(c) PROVE Bonds'
  <2>1. PICK p, q \in Slot :
          /\ q = loc[p] /\ q # p /\ state[q] = "EMBRYO" /\ state[p] = "RUNNING"
          /\ p = Thread(c) /\ pc[p] \in ForkPub \cup ForkUndo
          /\ pc' = [pc EXCEPT ![p] = "sysret"]
          /\ \A r \in Slot \ {p} : CallPoint(r) \in ForkOwns => loc[r] # q
          /\ \/ pc[p] \in ForkPub /\ state' = [state EXCEPT ![q] = "RUNNABLE"]
             \/ pc[p] \in ForkUndo /\ state' = [state EXCEPT ![q] = "UNUSED"]
    BY <1>19, EndStep
  <2> QED
    BY <1>19, <2>1, SMTT(60) DEF ForkEnd, Goto, At, ForkPublishes, ForkUndoes
<1>20. ASSUME NEW c \in CPUS, ExitWakeParent(c) PROVE Bonds'
  BY <1>20, SMTT(60) DEF ExitWakeParent, Goto, At, Woken
<1>21. ASSUME NEW c \in CPUS, ExitZombie(c) PROVE Bonds'
  <2>1. PICK p \in Slot :
          /\ p = Thread(c) /\ pc[p] = "exit_zombie" /\ state[p] = "RUNNING" /\ lock = c
          /\ pc' = [pc EXCEPT ![p] = "exit_sched"]
          /\ \A s \in Slot :
                /\ parent'[s] = IF parent[s] = p THEN initproc ELSE parent[s]
                /\ state'[s] = IF s = p THEN "ZOMBIE"
                               ELSE IF state[s] = "SLEEPING" /\ chan[s] = initproc
                                       /\ OrphanZombie(p) THEN "RUNNABLE"
                               ELSE state[s]
    BY <1>21, ZombieStep
  <2> QED
    BY <1>21, <2>1, SMTT(60) DEF ExitZombie, Goto, At, Woken, Reparented
<1>22. ASSUME NEW c \in CPUS, WaitReap(c) PROVE Bonds'
  <2>1. PICK p, z \in Slot :
          /\ p = Thread(c) /\ pc[p] = "wait_scan" /\ state[p] = "RUNNING" /\ lock = c
          /\ z # p /\ parent[z] = p /\ state[z] = "ZOMBIE" /\ pc[z] = "dead" /\ ~OnCpu(z)
          /\ state' = [state EXCEPT ![z] = "UNUSED"]
          /\ pid' = [pid EXCEPT ![z] = 0]
          /\ parent' = [parent EXCEPT ![z] = Nil]
          /\ killed' = [killed EXCEPT ![z] = FALSE]
          /\ pc' = [pc EXCEPT ![p] = "sysret", ![z] = "none"]
    BY <1>22, ReapStep
  <2>2. UNCHANGED <<chan, ipc, loc>>
    BY <1>22 DEF WaitReap, frame
  <2> QED
    BY <2>1, <2>2, SMTT(60)
<1>23. ASSUME NEW c \in CPUS, WaitNone(c) PROVE Bonds'
  BY <1>23, SMTT(60) DEF WaitNone, Goto, At
<1>24. ASSUME NEW c \in CPUS, WaitChildren(c) PROVE Bonds'
  BY <1>24, SMTT(60) DEF WaitChildren, Goto, At
<1>25. ASSUME NEW c \in CPUS, WaitSleep(c) PROVE Bonds'
  <2>1. PICK p \in Slot, v \in {"RUNNABLE", "SLEEPING"} :
          /\ p = Thread(c) /\ state[p] = "RUNNING" /\ lock = c
          /\ state' = [state EXCEPT ![p] = v]
    BY <1>25, ParkStep
  <2> QED
    BY <1>25, <2>1, SMTT(60) DEF WaitSleep, Goto, At
<1>26. ASSUME NEW c \in CPUS, WaitWake(c) PROVE Bonds'
  <2>1. PICK p \in Slot : /\ At(c, p, "wait_ret") /\ pc' = [pc EXCEPT ![p] = "wait_scan"]
                          /\ chan' = [chan EXCEPT ![p] = 0]
    BY <1>26 DEF WaitWake, Goto
  <2>2. state[p] = "RUNNING"
    <3>1. StateAt("wait_ret") = "RUNNING"
      BY DEF StateAt
    <3> QED
      BY <2>1, <3>1, Mover, Ranges
  <2>3. UNCHANGED <<state, parent, ipc, loc>>
    BY <1>26 DEF WaitWake, ident, frame
  <2> QED
    BY <2>1, <2>2, <2>3, SMTT(60) DEF At
<1>27. ASSUME NEW c \in CPUS, Kill(c) PROVE Bonds'
  <2>1. PICK p \in Slot :
          /\ p = Thread(c) /\ pc[p] = "kill_cs" /\ state[p] = "RUNNING" /\ lock = c
          /\ pc' = [pc EXCEPT ![p] = "sysret"]
          /\ \/ \E q \in Slot :
                   /\ pid[q] = loc[p] /\ killed' = [killed EXCEPT ![q] = TRUE]
                   /\ \A s \in Slot :
                         state'[s] = IF s = q /\ state[s] = "SLEEPING" THEN "RUNNABLE"
                                     ELSE state[s]
             \/ UNCHANGED <<killed, state>>
    BY <1>27, KillStep
  <2> QED
    BY <1>27, <2>1, SMTT(60) DEF Kill, Goto, At, First, WakeIfAsleep
<1>28. ASSUME NEW c \in CPUS, SleepStart(c) PROVE Bonds'
  BY <1>28, SMTT(60) DEF SleepStart, Goto, At
<1>29. ASSUME NEW c \in CPUS, SleepTest(c) PROVE Bonds'
  BY <1>29, SMTT(60) DEF SleepTest, Goto, At
<1>30. ASSUME NEW c \in CPUS, Sleep(c) PROVE Bonds'
  <2>1. PICK p \in Slot, v \in {"RUNNABLE", "SLEEPING"} :
          /\ p = Thread(c) /\ state[p] = "RUNNING" /\ lock = c
          /\ state' = [state EXCEPT ![p] = v]
    BY <1>30, ParkStep
  <2> QED
    BY <1>30, <2>1, SMTT(60) DEF Sleep, Goto, At
<1>31. ASSUME NEW c \in CPUS, SleepWake(c) PROVE Bonds'
  <2>1. PICK p \in Slot : /\ At(c, p, "slp_ret") /\ pc' = [pc EXCEPT ![p] = "slp_reacq"]
                          /\ chan' = [chan EXCEPT ![p] = 0]
    BY <1>31 DEF SleepWake, Goto
  <2>2. state[p] = "RUNNING"
    <3>1. StateAt("slp_ret") = "RUNNING"
      BY DEF StateAt
    <3> QED
      BY <2>1, <3>1, Mover, Ranges
  <2>3. UNCHANGED <<state, parent, ipc, loc>>
    BY <1>31 DEF SleepWake, ident, frame
  <2> QED
    BY <2>1, <2>2, <2>3, SMTT(60) DEF At
<1>32. CASE UNCHANGED vars
  BY <1>32, SMTT(60)
<1> QED
  BY <1>1, <1>2, <1>3, <1>4, <1>5, <1>6, <1>7, <1>8, <1>9, <1>10, <1>11, <1>12, <1>13,
     <1>14, <1>15, <1>16, <1>17, <1>18, <1>19, <1>20, <1>21, <1>22, <1>23, <1>24, <1>25,
     <1>26, <1>27, <1>28, <1>29, <1>30, <1>31, <1>32 DEF Next, KernelStep, Acquire

----------------------------------------------------------------------------
(***************************************************************************)
(* The theorems about parents and sleepers.                                *)
(***************************************************************************)

\* The inductive invariant: everything below follows from it.
Family == IInv /\ InitStays /\ Kin /\ Waits /\ Timely /\ Bonds

\* It holds when init is the only process.
LEMMA InitFamily == Init => Family
  <1> SUFFICES ASSUME Init PROVE Family
    OBVIOUS
  <1>1. IInv
    BY InitIInv
  <1>2. /\ \A s \in Slot : /\ state[s] = IF s = initproc THEN "RUNNABLE" ELSE "UNUSED"
                           /\ pid[s] = IF s = initproc THEN 1 ELSE 0
                           /\ parent[s] = Nil /\ killed[s] = FALSE
                           /\ pc[s] = IF s = initproc THEN "forkret" ELSE "none"
                           /\ ipc[s] = "loop"
        /\ initproc \in Slot
    BY Ranges DEF Init
  <1>3. \A s \in Slot : CallPoint(s) \in {"forkret", "none"}
    BY <1>2 DEF CallPoint, InHandler
  <1>4. InitStays
    BY <1>2, <1>3 DEF InitStays, LiveStates, Exiting, Killing
  <1>5. Kin
    BY <1>2, <1>3 DEF Kin, LiveStates, ForkOwns, ForkPub
  <1>6. Waits
    BY <1>2 DEF Waits, InWait
  <1>7. Timely
    BY <1>2 DEF Timely, Dozing, OnTicks
  <1>8. Bonds
    BY <1>2 DEF Bonds
  <1> QED
    BY <1>1, <1>4, <1>5, <1>6, <1>7, <1>8 DEF Family

\* A step keeps all of it.
LEMMA NextFamily == Family /\ [Next]_vars => Family'
  <1> SUFFICES ASSUME Family, [Next]_vars PROVE Family'
    OBVIOUS
  <1>1. IInv /\ InitStays /\ Kin /\ Waits /\ Timely /\ Bonds
    BY DEF Family
  <1>2. IInv'
    BY <1>1, NextIInv
  <1>3. TypeOK'
    BY <1>2 DEF IInv
  <1>4. InitStays'
    BY <1>1, <1>3, NextInitStays
  <1>5. Kin'
    BY <1>1, <1>2, NextKin
  <1>6. Waits'
    BY <1>1, <1>2, <1>5, NextWaits
  <1>7. Timely'
    BY <1>1, NextTimely
  <1>8. Bonds'
    BY <1>1, <1>2, <1>5, NextBonds
  <1> QED
    BY <1>2, <1>4, <1>5, <1>6, <1>7, <1>8 DEF Family

\* In every reachable state init is alive, every parent is, and nobody sleeps
\* through what it waits for.
THEOREM FamilyKept == Spec => []Family
  <1>1. Init => Family
    BY InitFamily
  <1>2. Family /\ [Next]_vars => Family'
    BY NextFamily
  <1> QED
    BY <1>1, <1>2, PTL DEF Spec

\* fork(), exit() and wait(): every process but init has a parent, and the
\* parent has not exited, on any number of CPUs and slots.
THEOREM ParentsAlive == Spec => []ParentAlive
  <1>1. Family => ParentAlive
    BY DEF Family, Kin, ParentAlive, IInv, TypeOK, ProcStates, LiveStates
  <1> QED
    BY <1>1, FamilyKept, PTL

\* exit() and wait(): whenever ptable.lock is free, whoever sleeps in wait()
\* has children, none of them has exited, and it was not killed.
THEOREM WaitsNotMissed == Spec => []WaitNotMissed
  <1>1. Family => WaitNotMissed
    <2> SUFFICES ASSUME Family, NEW p \in Slot, state[p] = "SLEEPING", chan[p] = p
                 PROVE  /\ Children(p) # {} /\ ~killed[p]
                        /\ \A s \in Children(p) : state[s] # "ZOMBIE"
      BY DEF WaitNotMissed
    <2>1. InWait(p)
      BY DEF InWait
    <2>2. PICK s \in Slot : parent[s] = p
      BY <2>1 DEF Family, Waits
    <2>3. s \in Children(p)
      BY <2>2 DEF Children
    <2>4. ~killed[p]
      BY <2>1 DEF Family, Waits
    <2> QED
      BY <2>1, <2>3, <2>4 DEF Family, Waits, Children
  <1> QED
    BY <1>1, FamilyKept, PTL

\* sys_sleep() and the timer interrupt: a process whose time has come is asleep
\* only while the handler that advanced ticks is about to wake it, whatever the
\* width of the counter.
THEOREM TicksNotMissed == Spec => []TickNotMissed
  <1>1. Family => TickNotMissed
    <2> SUFFICES ASSUME Family, NEW p \in Slot, OnTicks(p), Elapsed(p) >= dur[p]
                 PROVE  WakeDue
      BY DEF TickNotMissed, OnTicks, WakeDue, Waking
    <2>1. Elapsed(p) \in Nat /\ dur[p] \in Nat
      <3>1. ticks + TickMod - loc[p] \in Int /\ TickMod \in Nat \ {0}
        BY ProcAssumption DEF Family, IInv, TypeOK
      <3> QED
        BY <3>1 DEF Elapsed, Family, IInv, TypeOK
    <2>2. Elapsed(p) < dur[p] \/ WakeDue
      BY DEF Family, Timely
    <2> QED
      BY <2>1, <2>2
  <1> QED
    BY <1>1, FamilyKept, PTL

----------------------------------------------------------------------------
(***************************************************************************)
(* Pids and getpinfo().                                                    *)
(***************************************************************************)

\* No two slots share a pid, free slots of failed forks included, and every
\* process has one.
Pids ==
  /\ \A s \in Slot : pid[s] < nextpid
  /\ \A s, r \in Slot : s # r /\ pid[s] = pid[r] => pid[s] = 0
  /\ \A s \in Slot : state[s] # "UNUSED" => pid[s] # 0
  /\ nextpid # 0

\* A step keeps it so.
LEMMA NextPids == IInv /\ Pids /\ [Next]_vars => Pids'
<1> SUFFICES ASSUME IInv, Pids, [Next]_vars PROVE Pids'
  OBVIOUS
<1> USE Ranges DEF IInv, TypeOK, Pids,
    vars, ptab, ident, locks, frame
<1>1. ASSUME NEW c \in CPUS, AcquirePtable(c) PROVE Pids'
  BY <1>1, SMTT(60) DEF AcquirePtable, Goto, At, PtableFree, PtableAcquires
<1>2. ASSUME NEW c \in CPUS, AcquireTicks(c) PROVE Pids'
  BY <1>2, SMTT(60) DEF AcquireTicks, Goto, At, TicksFree, TicksAcquires
<1>3. ASSUME NEW c \in CPUS, SchedulerRun(c) PROVE Pids'
  BY <1>3, SMTT(60) DEF SchedulerRun, Goto, At
<1>4. ASSUME NEW c \in CPUS, SchedulerRelease(c) PROVE Pids'
  BY <1>4, SMTT(60) DEF SchedulerRelease, Goto, At
<1>5. ASSUME NEW c \in CPUS, Sched(c) PROVE Pids'
  BY <1>5, SMTT(60) DEF Sched, Goto, At, Scheds
<1>6. ASSUME NEW c \in CPUS, Syscall(c) PROVE Pids'
  BY <1>6, SMTT(60) DEF Syscall, Goto, At
<1>7. ASSUME NEW c \in CPUS, SyscallReturn(c) PROVE Pids'
  BY <1>7, SMTT(60) DEF SyscallReturn, Goto, At
<1>8. ASSUME NEW c \in CPUS, FaultTrap(c) PROVE Pids'
  BY <1>8, SMTT(60) DEF FaultTrap, Goto, At
<1>9. ASSUME NEW c \in CPUS, TimerTrap(c) PROVE Pids'
  BY <1>9, SMTT(60) DEF TimerTrap, Goto, At, Preemptible
<1>10. ASSUME NEW c \in CPUS, TickIncrement(c) PROVE Pids'
  BY <1>10, SMTT(60) DEF TickIncrement, Goto, At
<1>11. ASSUME NEW c \in CPUS, TickWakeup(c) PROVE Pids'
  BY <1>11, SMTT(60) DEF TickWakeup, Goto, At, Woken
<1>12. ASSUME NEW c \in CPUS, TrapEnd(c) PROVE Pids'
  BY <1>12, SMTT(60) DEF TrapEnd, Goto, At, AfterTrap
<1>13. ASSUME NEW c \in CPUS, TrapReturn(c) PROVE Pids'
  BY <1>13, SMTT(60) DEF TrapReturn, Goto, At
<1>14. ASSUME NEW c \in CPUS, Yield(c) PROVE Pids'
  <2>1. PICK p \in Slot, v \in {"RUNNABLE", "SLEEPING"} :
          /\ p = Thread(c) /\ state[p] = "RUNNING" /\ lock = c
          /\ state' = [state EXCEPT ![p] = v]
    BY <1>14, ParkStep
  <2> QED
    BY <1>14, <2>1, SMTT(60) DEF Yield, Goto, At
<1>15. ASSUME NEW c \in CPUS, ReleaseAfterSwtch(c) PROVE Pids'
  BY <1>15, SMTT(60) DEF ReleaseAfterSwtch, Goto, At
<1>16. ASSUME NEW c \in CPUS, AllocprocScan(c) PROVE Pids'
  <2>1. PICK p \in Slot :
          \/ \E q \in Slot :
               /\ state' = [state EXCEPT ![q] = "EMBRYO"]
               /\ pid' = [pid EXCEPT ![q] = nextpid] /\ nextpid' = nextpid + 1
          \/ UNCHANGED <<state, pid, nextpid>>
    BY <1>16, AllocStep
  <2>2. CASE UNCHANGED <<state, pid, nextpid>>
    BY <2>2
  <2>3. ASSUME NEW q \in Slot, state' = [state EXCEPT ![q] = "EMBRYO"],
               pid' = [pid EXCEPT ![q] = nextpid], nextpid' = nextpid + 1
        PROVE  Pids'
    <3>1. \A s \in Slot : pid'[s] = IF s = q THEN nextpid ELSE pid[s]
      BY <2>3
    <3>2. \A s \in Slot \ {q} : state'[s] = state[s]
      BY <2>3
    <3>3. \A s \in Slot : pid[s] \in Nat /\ nextpid \in Nat
      OBVIOUS
    <3> QED
      BY <2>3, <3>1, <3>2, <3>3
  <2> QED
    BY <2>1, <2>2, <2>3
<1>17. ASSUME NEW c \in CPUS, AllocprocStack(c) PROVE Pids'
  <2>1. PICK p, q \in Slot :
          /\ q = loc[p] /\ q # p /\ state[q] = "EMBRYO" /\ pc[q] = "none"
          /\ At(c, p, "fork_kalloc") /\ state[p] = "RUNNING"
          /\ \/ pc' = [pc EXCEPT ![p] = "fork_copy", ![q] = "forkret"]
             \/ pc' = [pc EXCEPT ![p] = "fork_undo_acq"]
    BY <1>17, StackStep
  <2> QED
    BY <1>17, <2>1, SMTT(60) DEF AllocprocStack, Goto, At
<1>18. ASSUME NEW c \in CPUS, ForkCopy(c) PROVE Pids'
  <2>1. PICK p, q \in Slot :
          /\ q = loc[p] /\ q # p /\ state[q] = "EMBRYO" /\ pc[q] = "forkret"
          /\ At(c, p, "fork_copy") /\ state[p] = "RUNNING"
          /\ \A r \in Slot \ {p} : CallPoint(r) \in ForkOwns => loc[r] # q
          /\ \/ /\ pc' = [pc EXCEPT ![p] = "fork_pub_acq"]
                /\ parent' = [parent EXCEPT ![q] = p]
             \/ /\ pc' = [pc EXCEPT ![p] = "fork_undo_acq", ![q] = "none"]
                /\ UNCHANGED parent
    BY <1>18, CopyStep
  <2> QED
    BY <1>18, <2>1, SMTT(60) DEF ForkCopy, Goto, At
<1>19. ASSUME NEW c \in CPUS, ForkEnd(c) PROVE Pids'
  <2>1. PICK p, q \in Slot :
          /\ q = loc[p] /\ q # p /\ state[q] = "EMBRYO" /\ state[p] = "RUNNING"
          /\ p = Thread(c) /\ pc[p] \in ForkPub \cup ForkUndo
          /\ pc' = [pc EXCEPT ![p] = "sysret"]
          /\ \A r \in Slot \ {p} : CallPoint(r) \in ForkOwns => loc[r] # q
          /\ \/ pc[p] \in ForkPub /\ state' = [state EXCEPT ![q] = "RUNNABLE"]
             \/ pc[p] \in ForkUndo /\ state' = [state EXCEPT ![q] = "UNUSED"]
    BY <1>19, EndStep
  <2> QED
    BY <1>19, <2>1, SMTT(60) DEF ForkEnd, Goto, At, ForkPublishes, ForkUndoes
<1>20. ASSUME NEW c \in CPUS, ExitWakeParent(c) PROVE Pids'
  BY <1>20, SMTT(60) DEF ExitWakeParent, Goto, At, Woken
<1>21. ASSUME NEW c \in CPUS, ExitZombie(c) PROVE Pids'
  <2>1. PICK p \in Slot :
          /\ p = Thread(c) /\ pc[p] = "exit_zombie" /\ state[p] = "RUNNING" /\ lock = c
          /\ pc' = [pc EXCEPT ![p] = "exit_sched"]
          /\ \A s \in Slot :
                /\ parent'[s] = IF parent[s] = p THEN initproc ELSE parent[s]
                /\ state'[s] = IF s = p THEN "ZOMBIE"
                               ELSE IF state[s] = "SLEEPING" /\ chan[s] = initproc
                                       /\ OrphanZombie(p) THEN "RUNNABLE"
                               ELSE state[s]
    BY <1>21, ZombieStep
  <2> QED
    BY <1>21, <2>1, SMTT(60) DEF ExitZombie, Goto, At, Woken, Reparented
<1>22. ASSUME NEW c \in CPUS, WaitReap(c) PROVE Pids'
  BY <1>22, SMTT(60) DEF WaitReap, Goto, At, First, Children, ZombieChildren
<1>23. ASSUME NEW c \in CPUS, WaitNone(c) PROVE Pids'
  BY <1>23, SMTT(60) DEF WaitNone, Goto, At
<1>24. ASSUME NEW c \in CPUS, WaitChildren(c) PROVE Pids'
  BY <1>24, SMTT(60) DEF WaitChildren, Goto, At
<1>25. ASSUME NEW c \in CPUS, WaitSleep(c) PROVE Pids'
  <2>1. PICK p \in Slot, v \in {"RUNNABLE", "SLEEPING"} :
          /\ p = Thread(c) /\ state[p] = "RUNNING" /\ lock = c
          /\ state' = [state EXCEPT ![p] = v]
    BY <1>25, ParkStep
  <2> QED
    BY <1>25, <2>1, SMTT(60) DEF WaitSleep, Goto, At
<1>26. ASSUME NEW c \in CPUS, WaitWake(c) PROVE Pids'
  BY <1>26, SMTT(60) DEF WaitWake, Goto, At
<1>27. ASSUME NEW c \in CPUS, Kill(c) PROVE Pids'
  <2>1. PICK p \in Slot :
          /\ p = Thread(c) /\ pc[p] = "kill_cs" /\ state[p] = "RUNNING" /\ lock = c
          /\ pc' = [pc EXCEPT ![p] = "sysret"]
          /\ \/ \E q \in Slot :
                   /\ pid[q] = loc[p] /\ killed' = [killed EXCEPT ![q] = TRUE]
                   /\ \A s \in Slot :
                         state'[s] = IF s = q /\ state[s] = "SLEEPING" THEN "RUNNABLE"
                                     ELSE state[s]
             \/ UNCHANGED <<killed, state>>
    BY <1>27, KillStep
  <2> QED
    BY <1>27, <2>1, SMTT(60) DEF Kill, Goto, At, First, WakeIfAsleep
<1>28. ASSUME NEW c \in CPUS, SleepStart(c) PROVE Pids'
  BY <1>28, SMTT(60) DEF SleepStart, Goto, At
<1>29. ASSUME NEW c \in CPUS, SleepTest(c) PROVE Pids'
  BY <1>29, SMTT(60) DEF SleepTest, Goto, At
<1>30. ASSUME NEW c \in CPUS, Sleep(c) PROVE Pids'
  <2>1. PICK p \in Slot, v \in {"RUNNABLE", "SLEEPING"} :
          /\ p = Thread(c) /\ state[p] = "RUNNING" /\ lock = c
          /\ state' = [state EXCEPT ![p] = v]
    BY <1>30, ParkStep
  <2> QED
    BY <1>30, <2>1, SMTT(60) DEF Sleep, Goto, At
<1>31. ASSUME NEW c \in CPUS, SleepWake(c) PROVE Pids'
  BY <1>31, SMTT(60) DEF SleepWake, Goto, At
<1>32. CASE UNCHANGED vars
  BY <1>32, SMTT(60)
<1> QED
  BY <1>1, <1>2, <1>3, <1>4, <1>5, <1>6, <1>7, <1>8, <1>9, <1>10, <1>11, <1>12, <1>13,
     <1>14, <1>15, <1>16, <1>17, <1>18, <1>19, <1>20, <1>21, <1>22, <1>23, <1>24, <1>25,
     <1>26, <1>27, <1>28, <1>29, <1>30, <1>31, <1>32 DEF Next, KernelStep, Acquire

\* Every step keeps the invariant and the pids, in every reachable state.
THEOREM PidsUnique == Spec => [](IInv /\ Pids)
  <1>1. Init => Pids
    BY Ranges DEF Init, Pids
  <1> QED
    BY <1>1, InitIInv, NextIInv, NextPids, PTL DEF Spec

\* What a step can do to the table while somebody else holds ptable.lock: a
\* live process stays alive and keeps its pid.
LiveKept == \A s \in Slot : Live(s) => Live(s)' /\ pid'[s] = pid[s]

LEMMA LiveUnlocked ==
  ASSUME IInv, [Next]_vars, lock = NoCpu, lock' = NoCpu
  PROVE  LiveKept
<1>1. \A c \in CPUS : \A t, k : At(c, t, k) => k \notin PLocked
  BY ProcAssumption DEF IInv, Switching, LockDiscipline, At
<1>2. /\ PLocked = {"fork_scan", "fork_pub", "fork_undo", "exit_cs", "exit_zombie",
            "exit_sched", "wait_scan", "wait_sleep", "wait_sched", "wait_ret",
            "kill_cs", "slp_sleep", "slp_sched", "slp_ret", "yield_cs",
            "yield_sched", "yield_ret", "forkret", "tick_wake", "scan", "back"}
      /\ NoCpu \notin CPUS
  BY ProcAssumption DEF PLocked
<1>3. ASSUME UNCHANGED <<state, pid>> PROVE LiveKept
  BY <1>3 DEF LiveKept, Live
<1>4. CASE UNCHANGED vars
  BY <1>3, <1>4 DEF vars, ptab, ident
<1>5. ASSUME NEW c \in CPUS, ForkEnd(c) PROVE LiveKept
  <2>1. PICK q \in Slot :
          /\ state[q] = "EMBRYO"
          /\ state' = [state EXCEPT ![q] = "RUNNABLE"] \/ state' = [state EXCEPT ![q] = "UNUSED"]
    BY <1>5, EndStep
  <2>2. \A s \in Slot \ {q} : state'[s] = state[s]
    BY <2>1 DEF IInv, TypeOK
  <2>3. ~Live(q) /\ UNCHANGED pid
    BY <1>5, <2>1 DEF Live, ForkEnd, ident
  <2> QED
    BY <2>2, <2>3 DEF LiveKept, Live
<1>6. ASSUME NEW c \in CPUS,
             \/ SchedulerRun(c) \/ SchedulerRelease(c) \/ Sched(c) \/ Yield(c)
             \/ ReleaseAfterSwtch(c) \/ AllocprocScan(c) \/ ExitWakeParent(c)
             \/ ExitZombie(c) \/ WaitReap(c) \/ WaitNone(c) \/ WaitChildren(c)
             \/ WaitSleep(c) \/ WaitWake(c) \/ Kill(c) \/ Sleep(c) \/ SleepWake(c)
             \/ TickWakeup(c) \/ AcquirePtable(c)
      PROVE  FALSE
  <2>1. CASE AcquirePtable(c)
    BY <1>2, <2>1 DEF AcquirePtable
  <2>2. CASE SchedulerRun(c) \/ SchedulerRelease(c) \/ Yield(c) \/ ReleaseAfterSwtch(c)
    BY <1>1, <1>2, <2>2 DEF SchedulerRun, SchedulerRelease, Yield, ReleaseAfterSwtch, Goto
  <2>3. CASE Sched(c)
    BY <1>1, <1>2, <2>3 DEF Sched, Scheds
  <2>4. CASE AllocprocScan(c) \/ ExitWakeParent(c) \/ ExitZombie(c) \/ WaitReap(c)
    BY <1>1, <1>2, <2>4 DEF AllocprocScan, ExitWakeParent, ExitZombie, WaitReap, Goto
  <2>5. CASE WaitNone(c) \/ WaitChildren(c) \/ WaitSleep(c) \/ WaitWake(c) \/ Kill(c)
    BY <1>1, <1>2, <2>5 DEF WaitNone, WaitChildren, WaitSleep, WaitWake, Kill, Goto
  <2>6. CASE Sleep(c) \/ SleepWake(c) \/ TickWakeup(c)
    BY <1>1, <1>2, <2>6 DEF Sleep, SleepWake, TickWakeup, Goto
  <2> QED
    BY <1>6, <2>1, <2>2, <2>3, <2>4, <2>5, <2>6
<1>7. ASSUME NEW c \in CPUS,
             \/ AcquireTicks(c) \/ Syscall(c) \/ SyscallReturn(c) \/ FaultTrap(c)
             \/ TimerTrap(c) \/ TickIncrement(c) \/ TrapEnd(c) \/ TrapReturn(c)
             \/ AllocprocStack(c) \/ ForkCopy(c) \/ SleepStart(c) \/ SleepTest(c)
      PROVE  UNCHANGED <<state, pid>>
  BY <1>7 DEF AcquireTicks, Syscall, SyscallReturn, FaultTrap, TimerTrap, TickIncrement,
     TrapEnd, TrapReturn, AllocprocStack, ForkCopy, SleepStart, SleepTest, ptab, ident
<1>8. CASE Next
  <2>1. PICK c \in CPUS :
          KernelStep(c) \/ Acquire(c) \/ TimerTrap(c) \/ Syscall(c) \/ FaultTrap(c)
    BY <1>8 DEF Next
  <2> QED
    BY <1>3, <1>5, <1>6, <1>7, <2>1 DEF KernelStep, Acquire
<1> QED
  BY <1>4, <1>8

\* getpinfo() changes nothing of the table, and while it runs the rest of the
\* kernel does what it does at any other time.
THEOREM PinfoOnlyReads == PinfoSpec => Spec
  <1>1. PinfoInit => Init
    BY DEF PinfoInit
  <1>2. [PinfoNext]_pvars => [Next]_vars
    BY DEF PinfoNext, pvars, Others, Next, GetpinfoStart, GetpinfoSlot, GetpinfoEnd
  <1> QED
    BY <1>1, <1>2, PTL DEF PinfoSpec, Spec

\* What a call has done so far: it has passed the slots below at, has an
\* entry for each process among them that was alive when it began, and each
\* entry in use is of one live process among them.
Scanned ==
  /\ reader # NoCpu => lock = NoCpu
  /\ at \in 1..(NPROC + 1) /\ idx \in 1..at
  /\ pInfo \in [Slot -> [inuse : BOOLEAN, pid : Nat]]
  /\ written \subseteq Slot /\ \A e \in written : e < idx
  /\ before \subseteq Slot /\ \A s \in before : Live(s)
  /\ reader = NoCpu => at = 1 /\ idx = 1 /\ written = {} /\ before = {}
  /\ \A s \in before : s < at => \E e \in Reported : pInfo[e].pid = pid[s]
  /\ \A e \in Reported : \E s \in Slot : s < at /\ Live(s) /\ pInfo[e].pid = pid[s]
  /\ \A e, f \in Reported : pInfo[e].pid = pInfo[f].pid => e = f

\* A step keeps it so: the slot it reads is of a process that no earlier
\* entry names, because no two slots share a pid.
LEMMA NextScanned == IInv /\ Pids /\ Scanned /\ [PinfoNext]_pvars => Scanned'
<1> SUFFICES ASSUME IInv, Pids, Scanned, [PinfoNext]_pvars PROVE Scanned'
  OBVIOUS
<1>0. NPROC \in Nat \ {0} /\ Slot = 1..NPROC /\ NoCpu \notin CPUS
  BY ProcAssumption DEF Slot
<1>1. ASSUME UNCHANGED <<scanning, pInfo>>, reader # NoCpu => lock' = NoCpu,
             LiveKept \/ reader = NoCpu
      PROVE  Scanned'
  <2>1. UNCHANGED <<reader, at, idx, written, before, pInfo>> /\ Reported' = Reported
    BY <1>1 DEF scanning, Reported
  <2>2. CASE reader = NoCpu
    <3>1. Reported = {} /\ before = {}
      BY <2>2 DEF Scanned, Reported
    <3> QED
      BY <2>1, <2>2, <3>1 DEF Scanned
  <2>3. CASE reader # NoCpu /\ LiveKept
    BY <1>1, <2>1, <2>3 DEF Scanned, LiveKept
  <2> QED
    BY <1>1, <2>2, <2>3
<1>2. CASE UNCHANGED pvars
  <2>1. LiveKept
    BY <1>2 DEF LiveKept, Live, pvars, vars, ptab, ident
  <2> QED
    BY <1>1, <1>2, <2>1 DEF pvars, vars, locks, Scanned
<1>3. CASE Others
  <2>1. Next
    BY <1>3 DEF Others, Next
  <2>2. LiveKept \/ reader = NoCpu
    BY <1>3, <2>1, LiveUnlocked DEF Others, Scanned
  <2> QED
    BY <1>1, <1>3, <2>2 DEF Others
<1>4. ASSUME NEW c \in CPUS, GetpinfoStart(c) PROVE Scanned'
  <2>1. /\ reader = NoCpu /\ lock = NoCpu /\ reader' = c
        /\ before' = {s \in Slot : Live(s)}
        /\ UNCHANGED <<vars, at, idx, pInfo, written>>
    BY <1>4 DEF GetpinfoStart, PtableFree
  <2>2. UNCHANGED <<state, pid, lock>>
    BY <2>1 DEF vars, ptab, ident, locks
  <2>3. Reported' = Reported /\ written = {} /\ Reported = {} /\ at = 1
    BY <2>1 DEF Reported, Scanned
  <2>4. \A s \in before' : Live(s)' /\ ~(s < at)
    BY <1>0, <2>1, <2>2, <2>3 DEF Live
  <2> QED
    BY <1>0, <2>1, <2>2, <2>3, <2>4 DEF Scanned
<1>5. ASSUME NEW c \in CPUS, GetpinfoEnd(c) PROVE Scanned'
  <2>1. /\ reader' = NoCpu /\ at' = 1 /\ idx' = 1 /\ written' = {} /\ before' = {}
        /\ UNCHANGED pInfo
    BY <1>5 DEF GetpinfoEnd
  <2>2. Reported' = {}
    BY <2>1 DEF Reported
  <2> QED
    BY <1>0, <2>1, <2>2 DEF Scanned
<1>6. ASSUME NEW c \in CPUS, GetpinfoSlot(c) PROVE Scanned'
  <2>1. reader = c /\ at \in Slot /\ idx' = NextEntry /\ at' = at + 1
        /\ UNCHANGED <<state, pid, lock, reader, before>>
    BY <1>6 DEF GetpinfoSlot, vars, ptab, ident, locks
  <2>2. idx' \in {idx, idx + 1} /\ (~Skipped(at) => idx' = idx + 1) /\ idx \in Slot
    BY <1>0, <2>1 DEF NextEntry, Scanned
  <2>3. \A s \in Slot : Live(s)' = Live(s) /\ (s < at' <=> s < at \/ s = at)
    BY <1>0, <2>1 DEF Live
  <2>4. at' \in 1..(NPROC + 1) /\ idx' \in 1..at' /\ reader # NoCpu
    BY <1>0, <2>1, <2>2 DEF Scanned
  <2>5. CASE Skipped(at)
    <3>1. UNCHANGED <<pInfo, written>> /\ ~Live(at) /\ Reported' = Reported
      BY <1>6, <2>5 DEF GetpinfoSlot, Skipped, Live, Reported
    <3>2. \A e \in written : e < idx'
      BY <1>0, <2>2 DEF Scanned
    <3> QED
      BY <2>1, <2>3, <2>4, <3>1, <3>2 DEF Scanned
  <2>6. CASE ~Skipped(at)
    <3> DEFINE new == [inuse |-> state[at] # "UNUSED", pid |-> pid[at]]
    <3>1. pInfo' = [pInfo EXCEPT ![idx] = new] /\ written' = written \cup {idx}
      BY <1>6, <2>6 DEF GetpinfoSlot
    <3>2. new \in [inuse : BOOLEAN, pid : Nat] /\ (new.inuse <=> Live(at)) /\ new.pid = pid[at]
      BY <2>1, <2>6 DEF Live, Skipped, IInv, TypeOK, ProcStates
    <3> HIDE DEF new
    <3>3. /\ pInfo' \in [Slot -> [inuse : BOOLEAN, pid : Nat]]
          /\ pInfo'[idx] = new /\ \A e \in written : e # idx /\ pInfo'[e] = pInfo[e]
      BY <1>0, <2>2, <3>1, <3>2 DEF Scanned
    <3>4. Reported' = IF Live(at) THEN Reported \cup {idx} ELSE Reported
      BY <3>1, <3>2, <3>3 DEF Reported
    <3>5. written' \subseteq Slot /\ \A e \in written' : e < idx'
      BY <1>0, <2>2, <2>6, <3>1 DEF Scanned
    <3>6. \A e \in Reported : e \in written
      BY DEF Reported
    <3>7. ASSUME NEW e \in Reported, Live(at) PROVE pInfo[e].pid # pid[at]
      <4>1. PICK s \in Slot : s < at /\ Live(s) /\ pInfo[e].pid = pid[s]
        BY DEF Scanned
      <4>2. pid[at] # 0 /\ s # at
        BY <1>0, <2>1, <3>7, <4>1 DEF Pids, Live
      <4> QED
        BY <2>1, <4>1, <4>2 DEF Pids
    <3>8. ASSUME NEW s \in before', s < at' PROVE \E e \in Reported' : pInfo'[e].pid = pid'[s]
      <4>1. CASE s < at
        BY <2>1, <3>3, <3>4, <3>6, <4>1 DEF Scanned
      <4>2. CASE s = at
        BY <2>1, <3>2, <3>3, <3>4, <4>2 DEF Scanned
      <4> QED
        BY <2>1, <2>3, <3>8, <4>1, <4>2 DEF Scanned
    <3>9. ASSUME NEW e \in Reported'
          PROVE  \E s \in Slot : s < at' /\ Live(s)' /\ pInfo'[e].pid = pid'[s]
      <4>1. CASE e \in Reported
        BY <2>1, <2>3, <3>3, <3>6, <4>1 DEF Scanned
      <4>2. CASE e = idx /\ Live(at)
        BY <2>1, <2>3, <3>2, <3>3, <4>2
      <4> QED
        BY <3>4, <3>9, <4>1, <4>2
    <3>10. ASSUME NEW e \in Reported', NEW f \in Reported', pInfo'[e].pid = pInfo'[f].pid
           PROVE  e = f
      <4>1. CASE e \in Reported /\ f \in Reported
        BY <3>3, <3>6, <3>10, <4>1 DEF Scanned
      <4>2. CASE e = idx \/ f = idx
        BY <3>2, <3>3, <3>4, <3>6, <3>7, <3>10, <4>2
      <4> QED
        BY <3>4, <4>1, <4>2
    <3> QED
      BY <2>1, <2>3, <2>4, <3>3, <3>5, <3>8, <3>9, <3>10 DEF Scanned
  <2> QED
    BY <2>5, <2>6
<1> QED
  BY <1>2, <1>3, <1>4, <1>5, <1>6 DEF PinfoNext

\* getpinfo() stays inside struct pstat, misses no process that was alive
\* all along, and reports live processes only and none twice: for any number
\* of slots and CPUs, in both trees, although in B forks publish and free
\* their slots under its eyes.
THEOREM SnapshotsExact == PinfoSpec => []SnapshotExact
  <1>1. PinfoInit => Scanned
    <2> SUFFICES ASSUME PinfoInit PROVE Scanned
      OBVIOUS
    <2>1. NPROC \in Nat /\ Reported = {}
      BY ProcAssumption DEF PinfoInit, Reported
    <2> QED
      BY <2>1 DEF PinfoInit, Scanned
  <1>2. IInv /\ Pids /\ Scanned /\ [PinfoNext]_pvars => Scanned'
    BY NextScanned
  <1>3. Scanned => SnapshotExact
    <2> SUFFICES ASSUME Scanned, Finished PROVE SnapshotExact
      BY DEF SnapshotExact
    <2>1. \A s \in Slot : s < at
      BY ProcAssumption DEF Finished, Slot
    <2> QED
      BY <2>1 DEF SnapshotExact, Scanned
  <1> QED
    BY <1>1, <1>2, <1>3, PinfoOnlyReads, PidsUnique, PTL DEF PinfoSpec

----------------------------------------------------------------------------
(***************************************************************************)
(* The process tree.                                                       *)
(***************************************************************************)

\* The tree shows each slot as it did before the step.
SameTree ==
  \A s \in Slot : statusBar'[s] = statusBar[s] /\ parBar'[s] = parBar[s]

\* One slot changes its status, or its parent.
StatusSet(q, v) == \A s \in Slot : statusBar'[s] = IF s = q THEN v ELSE statusBar[s]
ParSet(q, v)    == \A s \in Slot : parBar'[s] = IF s = q THEN v ELSE parBar[s]

\* statusBar and parBar are functions on the slots.
LEMMA BarsAre ==
  /\ statusBar = [s \in Slot |-> statusBar[s]] /\ statusBar' = [s \in Slot |-> statusBar'[s]]
  /\ parBar = [s \in Slot |-> parBar[s]] /\ parBar' = [s \in Slot |-> parBar'[s]]
<1>1. statusBar = [s \in Slot |-> statusBar[s]] /\ parBar = [s \in Slot |-> parBar[s]]
  BY DEF statusBar, parBar
<1>2. statusBar' = [s \in Slot |-> statusBar'[s]] /\ parBar' = [s \in Slot |-> parBar'[s]]
  BY DEF statusBar, parBar
<1> QED
  BY <1>1, <1>2

\* A table that shows the same tree is a stutter of the tree.
LEMMA TreeStutters ==
  ASSUME SameTree
  PROVE  [Tree_!TreeNext]_<<statusBar, parBar>>
<1>1. statusBar' = statusBar /\ parBar' = parBar
  BY BarsAre DEF SameTree
<1> QED
  BY <1>1

\* The pointwise effects as the tree states them.
LEMMA BarsSet ==
  ASSUME NEW q \in Slot, NEW v
  PROVE  /\ StatusSet(q, v) => statusBar' = [statusBar EXCEPT ![q] = v]
         /\ ParSet(q, v) => parBar' = [parBar EXCEPT ![q] = v]
         /\ (\A s \in Slot : parBar'[s] = parBar[s]) => parBar' = parBar
  BY BarsAre DEF StatusSet, ParSet

\* Every step of the table is a step of the tree or none.
LEMMA NextTree ==
  ASSUME IInv, IInv', InitStays, Kin, Waits, Waits', Bonds, [Next]_vars
  PROVE  [Tree_!TreeNext]_<<statusBar, parBar>>
<1> USE Ranges DEF IInv, TypeOK
<1>1. ASSUME NEW c \in CPUS, AcquirePtable(c) PROVE [Tree_!TreeNext]_<<statusBar, parBar>>
  <2>1. SameTree
    BY <1>1, SMTT(60) DEF AcquirePtable, ptab, ident, SameTree, statusBar, parBar, Hidden
  <2> QED
    BY <2>1, TreeStutters
<1>2. ASSUME NEW c \in CPUS, AcquireTicks(c) PROVE [Tree_!TreeNext]_<<statusBar, parBar>>
  <2>1. SameTree
    BY <1>2, SMTT(60) DEF AcquireTicks, ptab, ident, SameTree, statusBar, parBar, Hidden
  <2> QED
    BY <2>1, TreeStutters
<1>3. ASSUME NEW c \in CPUS, SchedulerRun(c) PROVE [Tree_!TreeNext]_<<statusBar, parBar>>
  <2>1. SameTree
    BY <1>3, SMTT(60) DEF SchedulerRun, Goto, ptab, ident, SameTree, statusBar, parBar, Hidden
  <2> QED
    BY <2>1, TreeStutters
<1>4. ASSUME NEW c \in CPUS, SchedulerRelease(c) PROVE [Tree_!TreeNext]_<<statusBar, parBar>>
  <2>1. SameTree
    BY <1>4, SMTT(60) DEF SchedulerRelease, ptab, ident, SameTree, statusBar, parBar, Hidden
  <2> QED
    BY <2>1, TreeStutters
<1>5. ASSUME NEW c \in CPUS, Sched(c) PROVE [Tree_!TreeNext]_<<statusBar, parBar>>
  <2>1. SameTree
    BY <1>5, SMTT(60) DEF Sched, ptab, ident, SameTree, statusBar, parBar, Hidden
  <2> QED
    BY <2>1, TreeStutters
<1>6. ASSUME NEW c \in CPUS, Syscall(c) PROVE [Tree_!TreeNext]_<<statusBar, parBar>>
  <2>1. SameTree
    BY <1>6, SMTT(60) DEF Syscall, ptab, ident, SameTree, statusBar, parBar, Hidden
  <2> QED
    BY <2>1, TreeStutters
<1>7. ASSUME NEW c \in CPUS, SyscallReturn(c) PROVE [Tree_!TreeNext]_<<statusBar, parBar>>
  <2>1. SameTree
    BY <1>7, SMTT(60) DEF SyscallReturn, ptab, ident, SameTree, statusBar, parBar, Hidden
  <2> QED
    BY <2>1, TreeStutters
<1>8. ASSUME NEW c \in CPUS, FaultTrap(c) PROVE [Tree_!TreeNext]_<<statusBar, parBar>>
  <2>1. SameTree
    BY <1>8, SMTT(60) DEF FaultTrap, ptab, ident, SameTree, statusBar, parBar, Hidden
  <2> QED
    BY <2>1, TreeStutters
<1>9. ASSUME NEW c \in CPUS, TimerTrap(c) PROVE [Tree_!TreeNext]_<<statusBar, parBar>>
  <2>1. SameTree
    BY <1>9, SMTT(60) DEF TimerTrap, ptab, ident, SameTree, statusBar, parBar, Hidden
  <2> QED
    BY <2>1, TreeStutters
<1>10. ASSUME NEW c \in CPUS, TickIncrement(c) PROVE [Tree_!TreeNext]_<<statusBar, parBar>>
  <2>1. SameTree
    BY <1>10, SMTT(60) DEF TickIncrement, ptab, ident, SameTree, statusBar, parBar, Hidden
  <2> QED
    BY <2>1, TreeStutters
<1>11. ASSUME NEW c \in CPUS, TickWakeup(c) PROVE [Tree_!TreeNext]_<<statusBar, parBar>>
  <2>1. SameTree
    BY <1>11, SMTT(60) DEF TickWakeup, Woken, ptab, ident, SameTree, statusBar, parBar, Hidden
  <2> QED
    BY <2>1, TreeStutters
<1>12. ASSUME NEW c \in CPUS, TrapEnd(c) PROVE [Tree_!TreeNext]_<<statusBar, parBar>>
  <2>1. SameTree
    BY <1>12, SMTT(60) DEF TrapEnd, ptab, ident, SameTree, statusBar, parBar, Hidden
  <2> QED
    BY <2>1, TreeStutters
<1>13. ASSUME NEW c \in CPUS, TrapReturn(c) PROVE [Tree_!TreeNext]_<<statusBar, parBar>>
  <2>1. SameTree
    BY <1>13, SMTT(60) DEF TrapReturn, ptab, ident, SameTree, statusBar, parBar, Hidden
  <2> QED
    BY <2>1, TreeStutters
<1>14. ASSUME NEW c \in CPUS, Yield(c) PROVE [Tree_!TreeNext]_<<statusBar, parBar>>
  <2>1. PICK p \in Slot, v \in {"RUNNABLE", "SLEEPING"} :
          /\ p = Thread(c) /\ state[p] = "RUNNING" /\ lock = c
          /\ state' = [state EXCEPT ![p] = v]
    BY <1>14, ParkStep
  <2>2. SameTree
    BY <1>14, <2>1, SMTT(60) DEF Yield, Goto, At, ptab, ident, SameTree, statusBar, parBar, Hidden
  <2> QED
    BY <2>2, TreeStutters
<1>15. ASSUME NEW c \in CPUS, ReleaseAfterSwtch(c) PROVE [Tree_!TreeNext]_<<statusBar, parBar>>
  <2>1. SameTree
    BY <1>15, SMTT(60) DEF ReleaseAfterSwtch, ptab, ident, SameTree, statusBar, parBar, Hidden
  <2> QED
    BY <2>1, TreeStutters
<1>16. ASSUME NEW c \in CPUS, AllocprocScan(c) PROVE [Tree_!TreeNext]_<<statusBar, parBar>>
  <2>1. PICK p \in Slot :
          /\ p = Thread(c) /\ pc[p] = "fork_scan" /\ state[p] = "RUNNING" /\ lock = c
          /\ \/ \E q \in Slot :
                   /\ state[q] = "UNUSED" /\ q # p
                   /\ pc' = [pc EXCEPT ![p] = "fork_kalloc"]
                   /\ state' = [state EXCEPT ![q] = "EMBRYO"]
                   /\ pid' = [pid EXCEPT ![q] = nextpid]
                   /\ nextpid' = nextpid + 1
                   /\ loc' = [loc EXCEPT ![p] = q]
             \/ /\ pc' = [pc EXCEPT ![p] = "sysret"]
                /\ UNCHANGED <<state, pid, nextpid, loc>>
    BY <1>16, AllocStep
  <2>2. SameTree
    BY <1>16, <2>1, SMTT(60) DEF AllocprocScan, Goto, At, ptab, ident, SameTree,
       statusBar, parBar, Hidden
  <2> QED
    BY <2>2, TreeStutters
<1>17. ASSUME NEW c \in CPUS, AllocprocStack(c) PROVE [Tree_!TreeNext]_<<statusBar, parBar>>
  <2>1. PICK p, q \in Slot :
          /\ q = loc[p] /\ q # p /\ state[q] = "EMBRYO" /\ pc[q] = "none"
          /\ At(c, p, "fork_kalloc") /\ state[p] = "RUNNING"
          /\ \/ pc' = [pc EXCEPT ![p] = "fork_copy", ![q] = "forkret"]
             \/ pc' = [pc EXCEPT ![p] = "fork_undo_acq"]
    BY <1>17, StackStep
  <2>2. SameTree
    BY <1>17, <2>1, SMTT(60) DEF AllocprocStack, Goto, At, ptab, ident, SameTree,
       statusBar, parBar, Hidden
  <2> QED
    BY <2>2, TreeStutters
<1>18. ASSUME NEW c \in CPUS, ForkCopy(c) PROVE [Tree_!TreeNext]_<<statusBar, parBar>>
  <2>1. PICK p, q \in Slot :
          /\ q = loc[p] /\ q # p /\ state[q] = "EMBRYO" /\ pc[q] = "forkret"
          /\ At(c, p, "fork_copy") /\ state[p] = "RUNNING"
          /\ \A r \in Slot \ {p} : CallPoint(r) \in ForkOwns => loc[r] # q
          /\ \/ /\ pc' = [pc EXCEPT ![p] = "fork_pub_acq"]
                /\ parent' = [parent EXCEPT ![q] = p]
             \/ /\ pc' = [pc EXCEPT ![p] = "fork_undo_acq", ![q] = "none"]
                /\ UNCHANGED parent
    BY <1>18, CopyStep
  <2>2. SameTree
    BY <1>18, <2>1, SMTT(60) DEF ForkCopy, Goto, At, ptab, ident, SameTree, statusBar,
       parBar, Hidden
  <2> QED
    BY <2>2, TreeStutters
<1>19. ASSUME NEW c \in CPUS, ForkEnd(c) PROVE [Tree_!TreeNext]_<<statusBar, parBar>>
  <2>1. PICK p, q \in Slot :
          /\ q = loc[p] /\ q # p /\ state[q] = "EMBRYO" /\ state[p] = "RUNNING"
          /\ p = Thread(c) /\ pc[p] \in ForkPub \cup ForkUndo
          /\ pc' = [pc EXCEPT ![p] = "sysret"]
          /\ \A r \in Slot \ {p} : CallPoint(r) \in ForkOwns => loc[r] # q
          /\ \/ pc[p] \in ForkPub /\ state' = [state EXCEPT ![q] = "RUNNABLE"]
             \/ pc[p] \in ForkUndo /\ state' = [state EXCEPT ![q] = "UNUSED"]
    BY <1>19, EndStep
  <2>2. UNCHANGED <<chan, pid, parent, killed, kstack, nextpid, tlock, proc, ipc, loc, dur, ticks>>
    BY <1>19 DEF frame, ident, locks, ForkEnd
  <2>3. CASE pc[p] \in ForkPub /\ state' = [state EXCEPT ![q] = "RUNNABLE"]
    <3>1. parent[q] = p
      <4>1. CallPoint(p) = pc[p]
        BY <2>3 DEF ForkPub, CallPoint, InHandler
      <4> QED
        BY <2>1, <2>3, <4>1 DEF Kin
    <3>2. StatusSet(q, "live") /\ ParSet(q, p)
      BY <2>1, <2>2, <2>3, <3>1 DEF StatusSet, ParSet, statusBar, parBar, Hidden
    <3>3. statusBar[p] = "live" /\ statusBar[q] = "free"
      BY <2>1 DEF statusBar, Hidden
    <3>4. statusBar' = [statusBar EXCEPT ![q] = "live"] /\ parBar' = [parBar EXCEPT ![q] = p]
      BY <3>2, BarsSet
    <3>5. Tree_!TreeFork(p, q)
      BY <3>3, <3>4 DEF Tree_!TreeFork
    <3> QED
      BY <3>5 DEF Tree_!TreeNext, Tree_!Procs, Slot
  <2>4. CASE state' = [state EXCEPT ![q] = "UNUSED"]
    <3>1. SameTree
      BY <2>1, <2>2, <2>4 DEF SameTree, statusBar, parBar, Hidden
    <3> QED
      BY <3>1, TreeStutters
  <2> QED
    BY <2>1, <2>3, <2>4
<1>20. ASSUME NEW c \in CPUS, ExitWakeParent(c) PROVE [Tree_!TreeNext]_<<statusBar, parBar>>
  <2>1. PICK p \in Slot : state' = Woken(state, parent[p])
    BY <1>20 DEF ExitWakeParent
  <2>2. UNCHANGED <<chan, parent>>
    BY <1>20 DEF ExitWakeParent, ident
  <2>3. \A s \in Slot : state'[s] = IF state[s] = "SLEEPING" /\ chan[s] = parent[p]
                                    THEN "RUNNABLE" ELSE state[s]
    BY <2>1 DEF Woken
  <2>4. \A s \in Slot : state[s] = "SLEEPING" /\ chan[s] = parent[p] => s = parent[p]
    <3>1. parent[p] # TicksChan
      <4>1. parent[p] \in Slot \cup {Nil}
        OBVIOUS
      <4>2. TicksChan \notin Slot \cup {Nil}
        BY ProcAssumption DEF TicksChan, Slot, Nil
      <4> QED
        BY <4>1, <4>2
    <3> QED
      BY <3>1 DEF Bonds
  <2>5. CASE \E q \in Slot : q = parent[p] /\ state[q] = "SLEEPING" /\ chan[q] = q
    <3>1. PICK q \in Slot : q = parent[p] /\ state[q] = "SLEEPING" /\ chan[q] = q
      BY <2>5
    <3>2. StatusSet(q, "live") /\ \A s \in Slot : parBar'[s] = parBar[s]
      BY <2>2, <2>3, <2>4, <3>1 DEF StatusSet, statusBar, parBar, Hidden
    <3>3. statusBar[q] = "waiting"
      BY <3>1 DEF statusBar, Hidden
    <3>4. statusBar' = [statusBar EXCEPT ![q] = "live"] /\ parBar' = parBar
      BY <3>2, BarsSet
    <3>5. Tree_!TreeWake(q)
      BY <3>3, <3>4 DEF Tree_!TreeWake
    <3> QED
      BY <3>5 DEF Tree_!TreeNext, Tree_!Procs, Slot
  <2>6. CASE ~ \E q \in Slot : q = parent[p] /\ state[q] = "SLEEPING" /\ chan[q] = q
    <3>1. UNCHANGED state
      <4>1. \A s \in Slot : state'[s] = state[s]
        BY <2>3, <2>4, <2>6
      <4>2. DOMAIN state = Slot /\ DOMAIN state' = Slot
        BY <2>1 DEF Woken
      <4>3. state = [s \in Slot |-> state[s]] /\ state' = [s \in Slot |-> state'[s]]
        BY <2>1 DEF Woken
      <4> QED
        BY <4>1, <4>3
    <3>2. SameTree
      BY <2>2, <3>1 DEF SameTree, statusBar, parBar, Hidden
    <3> QED
      BY <3>2, TreeStutters
  <2> QED
    BY <2>5, <2>6
<1>21. ASSUME NEW c \in CPUS, ExitZombie(c) PROVE [Tree_!TreeNext]_<<statusBar, parBar>>
  <2>1. PICK p \in Slot :
          /\ p = Thread(c) /\ pc[p] = "exit_zombie" /\ state[p] = "RUNNING" /\ lock = c
          /\ pc' = [pc EXCEPT ![p] = "exit_sched"]
          /\ \A s \in Slot :
                /\ parent'[s] = IF parent[s] = p THEN initproc ELSE parent[s]
                /\ state'[s] = IF s = p THEN "ZOMBIE"
                               ELSE IF state[s] = "SLEEPING" /\ chan[s] = initproc
                                       /\ OrphanZombie(p) THEN "RUNNABLE"
                               ELSE state[s]
    BY <1>21, ZombieStep
  <2>2. UNCHANGED <<chan, pid, killed, kstack, nextpid, lock, tlock, proc, ipc, loc, dur, ticks>>
    BY <1>21 DEF frame, ident, locks, ExitZombie
  <2>3. p # initproc
    BY <2>1 DEF InitStays, Exiting
  <2>4. /\ parBar[p] \in Slot /\ parBar[p] = parent[p] /\ statusBar[p] = "live"
        /\ statusBar[parBar[p]] = "live"
    <3>1. parent[p] # Nil /\ parBar[p] = parent[p] /\ statusBar[p] = "live"
      BY <2>1, <2>3 DEF Kin, LiveStates, parBar, statusBar, Hidden
    <3>2. PICK q \in Slot : q = parent[p]
      BY <3>1
    <3>3. state[q] \in LiveStates /\ ~InWait(q)
      BY <2>1, <3>1, <3>2 DEF Kin, Waits
    <3>4. statusBar[q] = "live"
      BY <3>3 DEF LiveStates, InWait, statusBar, Hidden
    <3> QED
      BY <3>1, <3>2, <3>4
  <2>5. (\E s \in Tree_!Kids(p) : statusBar[s] = "zombie") <=> OrphanZombie(p)
    <3>1. \A s \in Slot : (parBar[s] = p /\ statusBar[s] = "zombie")
                             <=> (parent[s] = p /\ state[s] = "ZOMBIE")
      BY DEF parBar, statusBar, Hidden
    <3> QED
      BY <3>1 DEF OrphanZombie, Tree_!Kids, Tree_!Procs, Slot
  <2>6. \A s \in Slot : state[s] = "SLEEPING" /\ chan[s] = initproc => s = initproc
    <3>1. TicksChan # initproc
      BY ProcAssumption DEF TicksChan, initproc
    <3> QED
      BY <3>1 DEF Bonds
  <2>7. state[initproc] \in LiveStates
    BY DEF InitStays
  <2>8. \A s \in Slot : statusBar'[s] = IF s = p THEN "zombie"
                                        ELSE IF s = initproc /\ OrphanZombie(p) THEN "live"
                                        ELSE statusBar[s]
    BY <2>1, <2>2, <2>6, <2>7 DEF statusBar, Hidden, LiveStates
  <2>9. statusBar' = [statusBar EXCEPT ![p] = "zombie",
                        ![initproc] = IF OrphanZombie(p) THEN "live" ELSE statusBar[initproc]]
    <3>1. p \in Slot /\ initproc \in Slot
      BY Ranges
    <3> QED
      BY <2>3, <2>8, <3>1, BarsAre
  <2>10. \A s \in Slot : parBar'[s] = IF parBar[s] = p THEN initproc ELSE parBar[s]
    BY <2>1 DEF parBar, Hidden
  <2>11. parBar' = [s \in Slot |-> IF parBar[s] = p THEN initproc ELSE parBar[s]]
    BY <2>10, BarsAre
  <2>12. Tree_!TreeExit(p)
    BY <2>3, <2>4, <2>5, <2>9, <2>11
       DEF Tree_!TreeExit, Tree_!Root, Tree_!Procs, Slot, initproc
  <2> QED
    BY <2>12 DEF Tree_!TreeNext, Tree_!Procs, Slot
<1>22. ASSUME NEW c \in CPUS, WaitReap(c) PROVE [Tree_!TreeNext]_<<statusBar, parBar>>
  <2>1. PICK p, z \in Slot :
          /\ p = Thread(c) /\ pc[p] = "wait_scan" /\ state[p] = "RUNNING" /\ lock = c
          /\ z # p /\ parent[z] = p /\ state[z] = "ZOMBIE" /\ pc[z] = "dead" /\ ~OnCpu(z)
          /\ state' = [state EXCEPT ![z] = "UNUSED"]
          /\ pid' = [pid EXCEPT ![z] = 0]
          /\ parent' = [parent EXCEPT ![z] = Nil]
          /\ killed' = [killed EXCEPT ![z] = FALSE]
          /\ pc' = [pc EXCEPT ![p] = "sysret", ![z] = "none"]
    BY <1>22, ReapStep
  <2>2. UNCHANGED chan
    BY <1>22 DEF WaitReap
  <2>3. StatusSet(z, "free") /\ ParSet(z, Nil)
    BY <2>1, <2>2 DEF StatusSet, ParSet, statusBar, parBar, Hidden
  <2>4. statusBar' = [statusBar EXCEPT ![z] = "free"] /\ parBar' = [parBar EXCEPT ![z] = Nil]
    BY <2>3, BarsSet
  <2>5. statusBar[p] = "live" /\ statusBar[z] = "zombie" /\ parBar[z] = p
    BY <2>1 DEF statusBar, parBar, Hidden
  <2>6. Tree_!TreeReap(p, z)
    BY <2>4, <2>5 DEF Tree_!TreeReap, Tree_!None, Nil
  <2> QED
    BY <2>6 DEF Tree_!TreeNext, Tree_!Procs, Slot
<1>23. ASSUME NEW c \in CPUS, WaitNone(c) PROVE [Tree_!TreeNext]_<<statusBar, parBar>>
  <2>1. SameTree
    BY <1>23, SMTT(60) DEF WaitNone, ptab, ident, SameTree, statusBar, parBar, Hidden
  <2> QED
    BY <2>1, TreeStutters
<1>24. ASSUME NEW c \in CPUS, WaitChildren(c) PROVE [Tree_!TreeNext]_<<statusBar, parBar>>
  <2>1. SameTree
    BY <1>24, SMTT(60) DEF WaitChildren, ptab, ident, SameTree, statusBar, parBar, Hidden
  <2> QED
    BY <2>1, TreeStutters
<1>25. ASSUME NEW c \in CPUS, WaitSleep(c) PROVE [Tree_!TreeNext]_<<statusBar, parBar>>
  <2>1. PICK p \in Slot :
          /\ At(c, p, "wait_sleep")
          /\ chan' = [chan EXCEPT ![p] = p] /\ state' = [state EXCEPT ![p] = "SLEEPING"]
    BY <1>25 DEF WaitSleep, Goto
  <2>2. UNCHANGED parent
    BY <1>25 DEF WaitSleep, ident
  <2>3. state[p] = "RUNNING" /\ InWait(p) /\ CallPoint(p) = "wait_sleep"
    BY <2>1, Yields DEF At, InWait, CallPoint, InHandler
  <2>4. Tree_!Kids(p) # {}
    <3>1. PICK s \in Slot : parent[s] = p
      BY <2>3 DEF Waits
    <3>2. state[s] # "UNUSED" /\ state[s] # "EMBRYO"
      BY <2>3, <3>1 DEF Kin, Bonds, ForkPub, Nil, Slot
    <3>3. parBar[s] = p
      BY <3>1, <3>2 DEF parBar, Hidden
    <3> QED
      BY <3>3 DEF Tree_!Kids, Tree_!Procs, Slot
  <2>5. \A s \in Tree_!Kids(p) : statusBar[s] # "zombie"
    <3> SUFFICES ASSUME NEW s \in Slot, parBar[s] = p PROVE statusBar[s] # "zombie"
      BY DEF Tree_!Kids, Tree_!Procs, Slot
    <3>1. parent[s] = p
      BY DEF parBar, Nil, Slot
    <3>2. state[s] # "ZOMBIE"
      BY <2>3, <3>1 DEF Waits
    <3> QED
      BY <3>2 DEF statusBar
  <2>6. StatusSet(p, "waiting") /\ \A s \in Slot : parBar'[s] = parBar[s]
    BY <2>1, <2>2, <2>3 DEF StatusSet, statusBar, parBar, Hidden
  <2>7. statusBar' = [statusBar EXCEPT ![p] = "waiting"] /\ parBar' = parBar
    BY <2>6, BarsSet
  <2>8. statusBar[p] = "live"
    BY <2>3 DEF statusBar, Hidden
  <2>9. Tree_!TreeWait(p)
    BY <2>4, <2>5, <2>7, <2>8 DEF Tree_!TreeWait
  <2> QED
    BY <2>9 DEF Tree_!TreeNext, Tree_!Procs, Slot
<1>26. ASSUME NEW c \in CPUS, WaitWake(c) PROVE [Tree_!TreeNext]_<<statusBar, parBar>>
  <2>1. PICK p \in Slot : At(c, p, "wait_ret") /\ chan' = [chan EXCEPT ![p] = 0]
    BY <1>26 DEF WaitWake, Goto
  <2>2. state[p] = "RUNNING"
    <3>1. StateAt("wait_ret") = "RUNNING"
      BY DEF StateAt
    <3> QED
      BY <2>1, <3>1, Mover, Ranges
  <2>3. UNCHANGED <<state, parent>>
    BY <1>26 DEF WaitWake, ident
  <2>4. SameTree
    BY <2>1, <2>2, <2>3 DEF SameTree, statusBar, parBar, Hidden
  <2> QED
    BY <2>4, TreeStutters
<1>27. ASSUME NEW c \in CPUS, Kill(c) PROVE [Tree_!TreeNext]_<<statusBar, parBar>>
  <2>1. PICK p \in Slot :
          /\ p = Thread(c) /\ pc[p] = "kill_cs" /\ state[p] = "RUNNING" /\ lock = c
          /\ pc' = [pc EXCEPT ![p] = "sysret"]
          /\ \/ \E q \in Slot :
                   /\ pid[q] = loc[p] /\ killed' = [killed EXCEPT ![q] = TRUE]
                   /\ \A s \in Slot :
                         state'[s] = IF s = q /\ state[s] = "SLEEPING" THEN "RUNNABLE"
                                     ELSE state[s]
             \/ UNCHANGED <<killed, state>>
    BY <1>27, KillStep
  <2>2. UNCHANGED <<chan, pid, parent, kstack, nextpid, tlock, proc, ipc, loc, dur, ticks>>
    BY <1>27 DEF frame, ident, locks, Kill
  <2>3. CASE UNCHANGED <<killed, state>>
    <3>1. SameTree
      BY <2>2, <2>3 DEF SameTree, statusBar, parBar, Hidden
    <3> QED
      BY <3>1, TreeStutters
  <2>4. ASSUME NEW q \in Slot,
               \A s \in Slot : state'[s] = IF s = q /\ state[s] = "SLEEPING" THEN "RUNNABLE"
                                           ELSE state[s]
        PROVE  [Tree_!TreeNext]_<<statusBar, parBar>>
    <3>1. CASE statusBar[q] = "waiting"
      <4>1. state[q] = "SLEEPING"
        BY <3>1 DEF statusBar, Hidden
      <4>2. StatusSet(q, "live") /\ \A s \in Slot : parBar'[s] = parBar[s]
        BY <2>2, <2>4, <4>1 DEF StatusSet, statusBar, parBar, Hidden
      <4>3. statusBar' = [statusBar EXCEPT ![q] = "live"] /\ parBar' = parBar
        BY <4>2, BarsSet
      <4>4. Tree_!TreeWake(q)
        BY <3>1, <4>3 DEF Tree_!TreeWake
      <4> QED
        BY <4>4 DEF Tree_!TreeNext, Tree_!Procs, Slot
    <3>2. CASE statusBar[q] # "waiting"
      <4>1. SameTree
        BY <2>2, <2>4, <3>2 DEF SameTree, statusBar, parBar, Hidden
      <4> QED
        BY <4>1, TreeStutters
    <3> QED
      BY <3>1, <3>2
  <2> QED
    BY <2>1, <2>3, <2>4
<1>28. ASSUME NEW c \in CPUS, SleepStart(c) PROVE [Tree_!TreeNext]_<<statusBar, parBar>>
  <2>1. SameTree
    BY <1>28, SMTT(60) DEF SleepStart, ptab, ident, SameTree, statusBar, parBar, Hidden
  <2> QED
    BY <2>1, TreeStutters
<1>29. ASSUME NEW c \in CPUS, SleepTest(c) PROVE [Tree_!TreeNext]_<<statusBar, parBar>>
  <2>1. SameTree
    BY <1>29, SMTT(60) DEF SleepTest, ptab, ident, SameTree, statusBar, parBar, Hidden
  <2> QED
    BY <2>1, TreeStutters
<1>30. ASSUME NEW c \in CPUS, Sleep(c) PROVE [Tree_!TreeNext]_<<statusBar, parBar>>
  <2>1. PICK p \in Slot, v \in {"RUNNABLE", "SLEEPING"} :
          /\ p = Thread(c) /\ state[p] = "RUNNING" /\ lock = c
          /\ state' = [state EXCEPT ![p] = v]
    BY <1>30, ParkStep
  <2>2. SameTree
    BY <1>30, <2>1, SMTT(60) DEF Sleep, Goto, At, ptab, ident, SameTree, statusBar, parBar, Hidden
  <2> QED
    BY <2>2, TreeStutters
<1>31. ASSUME NEW c \in CPUS, SleepWake(c) PROVE [Tree_!TreeNext]_<<statusBar, parBar>>
  <2>1. PICK p \in Slot : At(c, p, "slp_ret") /\ chan' = [chan EXCEPT ![p] = 0]
    BY <1>31 DEF SleepWake, Goto
  <2>2. state[p] = "RUNNING"
    <3>1. StateAt("slp_ret") = "RUNNING"
      BY DEF StateAt
    <3> QED
      BY <2>1, <3>1, Mover, Ranges
  <2>3. UNCHANGED <<state, parent>>
    BY <1>31 DEF SleepWake, ident
  <2>4. SameTree
    BY <2>1, <2>2, <2>3 DEF SameTree, statusBar, parBar, Hidden
  <2> QED
    BY <2>4, TreeStutters
<1>32. CASE UNCHANGED vars
  <2>1. SameTree
    BY <1>32, SMTT(60) DEF vars, ptab, ident, SameTree, statusBar, parBar, Hidden
  <2> QED
    BY <2>1, TreeStutters
<1> QED
  BY <1>1, <1>2, <1>3, <1>4, <1>5, <1>6, <1>7, <1>8, <1>9, <1>10, <1>11, <1>12, <1>13,
     <1>14, <1>15, <1>16, <1>17, <1>18, <1>19, <1>20, <1>21, <1>22, <1>23, <1>24, <1>25,
     <1>26, <1>27, <1>28, <1>29, <1>30, <1>31, <1>32 DEF Next, KernelStep, Acquire

\* At start only init is there.
LEMMA InitTree == Init => Tree_!TreeInit
  <1> SUFFICES ASSUME Init PROVE Tree_!TreeInit
    OBVIOUS
  <1>1. \A s \in Slot : /\ state[s] = IF s = initproc THEN "RUNNABLE" ELSE "UNUSED"
                        /\ parent[s] = Nil
    BY DEF Init
  <1>2. /\ \A s \in Slot : statusBar[s] = IF s = initproc THEN "live" ELSE "free"
        /\ \A s \in Slot : parBar[s] = Nil
    BY <1>1 DEF statusBar, parBar, Hidden
  <1> QED
    BY <1>2, BarsAre DEF Tree_!TreeInit, Tree_!Procs, Tree_!Root, Tree_!None, Slot, Nil, initproc

\* The table implements the process tree: every step of fork(), exit(), wait(),
\* kill() and the scheduler, on any number of CPUs and slots and in both trees
\* of the repository, is one step of ProcTree or none.
THEOREM TreeImplemented == Spec => ImplementsTree
  <1>1. Init => Tree_!TreeInit
    BY InitTree
  <1>2. Family /\ Family' /\ [Next]_vars => [Tree_!TreeNext]_<<statusBar, parBar>>
    BY NextTree DEF Family
  <1> QED
    BY <1>1, <1>2, FamilyKept, PTL DEF Spec, ImplementsTree, Tree_!TreeSpec, Tree_!treeVars

\* What user programs rely on, as an invariant of the tree: it is sound, and init
\* has not exited.
SoundTree ==
  /\ \A p \in Slot : statusBar[p] = "waiting" => \E s \in Slot : parBar[s] = p
  /\ \A p, s \in Slot : statusBar[p] = "waiting" /\ parBar[s] = p => statusBar[s] # "zombie"
  /\ \A s \in Slot : parBar[s] \in Slot \cup {Nil}
  /\ \A p, s \in Slot : parBar[s] = p => statusBar[p] \in {"live", "waiting"}
  /\ \A s \in Slot : statusBar[s] = "free" => parBar[s] = Nil
  /\ \A s \in Slot : parBar[s] # s
  /\ statusBar[initproc] \in {"live", "waiting"} /\ parBar[initproc] = Nil

\* Every step of the tree keeps it.
LEMMA NextSound ==
  ASSUME SoundTree, [Tree_!TreeNext]_<<statusBar, parBar>>
  PROVE  SoundTree'
<1> USE Ranges, BarsAre DEF SoundTree, Nil, Slot
<1> HIDE DEF statusBar, parBar
<1>1. Slot = Tree_!Procs /\ initproc = Tree_!Root /\ Nil = Tree_!None
  BY DEF Tree_!Procs, Tree_!Root, Tree_!None, initproc
<1>0. Nil \notin Slot /\ initproc \in Slot
  BY Ranges DEF Nil, Slot
<1>2. ASSUME NEW p \in Slot, Tree_!TreeExit(p) PROVE SoundTree'
  <2>1. p # initproc /\ statusBar[p] = "live"
    BY <1>1, <1>2 DEF Tree_!TreeExit
  <2>2. statusBar[parBar[p]] = "live"
    BY <1>2 DEF Tree_!TreeExit
  <2>3. PICK inherits \in BOOLEAN : inherits <=> \E s \in Slot : parBar[s] = p /\ statusBar[s] = "zombie"
    OBVIOUS
  <2>4. \A s \in Slot : statusBar'[s] = IF s = p THEN "zombie"
                                        ELSE IF s = initproc /\ inherits THEN "live"
                                        ELSE statusBar[s]
    <3>1. statusBar' = [statusBar EXCEPT ![p] = "zombie",
                          ![initproc] = IF inherits THEN "live" ELSE statusBar[initproc]]
      BY <1>1, <1>2, <2>3 DEF Tree_!TreeExit, Tree_!Kids
    <3> QED
      BY <1>0, <2>1, <3>1
  <2>5. \A s \in Slot : parBar'[s] = IF parBar[s] = p THEN initproc ELSE parBar[s]
    BY <1>1, <1>2 DEF Tree_!TreeExit
  <2> HIDE DEF Nil, Slot, initproc
  <2>6. \A q \in Slot : statusBar'[q] = "waiting" =>
           statusBar[q] = "waiting" /\ q # p /\ ~(q = initproc /\ inherits)
    BY <2>4
  <2>7. ASSUME NEW q \in Slot, statusBar'[q] = "waiting" PROVE \E s \in Slot : parBar'[s] = q
    <3>1. PICK s \in Slot : parBar[s] = q
      BY <2>6, <2>7
    <3> QED
      BY <2>5, <2>6, <2>7, <3>1
  <2>8. ASSUME NEW q \in Slot, NEW s \in Slot, statusBar'[q] = "waiting", parBar'[s] = q,
               statusBar'[s] = "zombie"
        PROVE  FALSE
    <3>1. CASE parBar[s] = p
      <4>1. q = initproc
        BY <2>5, <2>8, <3>1
      <4>2. s # p
        BY <3>1
      <4> QED
        BY <2>3, <2>4, <2>6, <2>8, <3>1, <4>1
    <3>2. CASE parBar[s] # p
      <4>1. parBar[s] = q
        BY <2>5, <2>8, <3>2
      <4>2. s # p
        BY <2>2, <2>6, <2>8, <4>1
      <4> QED
        BY <2>4, <2>6, <2>8, <4>1, <4>2
    <3> QED
      BY <3>1, <3>2
  <2>9. \A q, s \in Slot : parBar'[s] = q => statusBar'[q] \in {"live", "waiting"}
    BY <1>0, <2>1, <2>4, <2>5
  <2>10. \A s \in Slot : parBar'[s] \in Slot \cup {Nil}
    BY <1>0, <2>5
  <2>11. statusBar'[initproc] \in {"live", "waiting"}
    BY <1>0, <2>1, <2>4
  <2>12. \A s \in Slot : statusBar'[s] = "free" => parBar'[s] = Nil
    BY <1>0, <2>4, <2>5
  <2>13. \A s \in Slot : parBar'[s] # s
    BY <1>0, <2>5
  <2>14. parBar'[initproc] = Nil
    BY <1>0, <2>1, <2>5
  <2> QED
    BY <2>7, <2>8, <2>9, <2>10, <2>11, <2>12, <2>13, <2>14
<1>3. ASSUME NEW p \in Slot, Tree_!TreeWait(p) PROVE SoundTree'
  <2>1. \A s \in Slot : statusBar'[s] = IF s = p THEN "waiting" ELSE statusBar[s]
    BY <1>3 DEF Tree_!TreeWait
  <2>2. parBar' = parBar /\ statusBar[p] = "live"
    BY <1>3 DEF Tree_!TreeWait
  <2>3. PICK s \in Slot : parBar[s] = p
    <3>1. PICK s : s \in Tree_!Kids(p)
      BY <1>3 DEF Tree_!TreeWait
    <3> QED
      BY <1>1, <3>1 DEF Tree_!Kids
  <2>4. \A q \in Slot : parBar[q] = p => statusBar[q] # "zombie"
    BY <1>1, <1>3 DEF Tree_!TreeWait, Tree_!Kids
  <2> HIDE DEF Nil, Slot, initproc
  <2> QED
    BY <1>0, <2>1, <2>2, <2>3, <2>4
<1>4. ASSUME NEW p \in Slot, Tree_!TreeWake(p) PROVE SoundTree'
  BY <1>1, <1>4 DEF Tree_!TreeWake
<1>5. ASSUME NEW p \in Slot, NEW q \in Slot, Tree_!TreeFork(p, q) PROVE SoundTree'
  <2>1. /\ \A s \in Slot : statusBar'[s] = IF s = q THEN "live" ELSE statusBar[s]
        /\ \A s \in Slot : parBar'[s] = IF s = q THEN p ELSE parBar[s]
        /\ statusBar[p] = "live" /\ statusBar[q] = "free"
    BY <1>5 DEF Tree_!TreeFork
  <2>2. parBar[q] = Nil
    BY <2>1
  <2> HIDE DEF Nil, Slot, initproc
  <2> QED
    BY <1>0, <2>1, <2>2
<1>6. ASSUME NEW p \in Slot, NEW q \in Slot, Tree_!TreeReap(p, q) PROVE SoundTree'
  <2>1. /\ \A s \in Slot : statusBar'[s] = IF s = q THEN "free" ELSE statusBar[s]
        /\ \A s \in Slot : parBar'[s] = IF s = q THEN Nil ELSE parBar[s]
        /\ statusBar[p] = "live" /\ statusBar[q] = "zombie" /\ parBar[q] = p
    BY <1>1, <1>6 DEF Tree_!TreeReap
  <2> HIDE DEF Nil, Slot, initproc
  <2> QED
    BY <1>0, <2>1
<1>7. CASE UNCHANGED <<statusBar, parBar>>
  BY <1>7
<1> QED
  BY <1>1, <1>2, <1>3, <1>4, <1>5, <1>6, <1>7 DEF Tree_!TreeNext

\* fork(), exit() and wait(), as user programs see them: whoever is blocked in
\* wait() has children and none of them has exited, and every parent is alive,
\* in every state and not only when ptable.lock is free.
THEOREM TreesSound == Spec => []Tree_!TreeSound
  <1>1. Init => SoundTree
    <2> SUFFICES ASSUME Init PROVE SoundTree
      OBVIOUS
    <2>1. Tree_!TreeInit
      BY InitTree
    <2>2. \A s \in Slot : parBar[s] = Nil /\ statusBar[s] = IF s = initproc THEN "live" ELSE "free"
      BY <2>1 DEF Tree_!TreeInit, Tree_!Procs, Tree_!Root, Tree_!None, Slot, Nil, initproc
    <2>3. Nil \notin Slot /\ initproc \in Slot
      BY Ranges DEF Nil, Slot
    <2> QED
      BY <2>2, <2>3 DEF SoundTree
  <1>2. Family /\ Family' /\ [Next]_vars => [Tree_!TreeNext]_<<statusBar, parBar>>
    BY NextTree DEF Family
  <1>3. SoundTree /\ [Tree_!TreeNext]_<<statusBar, parBar>> => SoundTree'
    BY NextSound
  <1>4. SoundTree => Tree_!TreeSound
    <2> SUFFICES ASSUME SoundTree PROVE Tree_!TreeSound
      OBVIOUS
    <2>1. Slot = Tree_!Procs /\ Nil = Tree_!None
      BY DEF Tree_!Procs, Tree_!None, Slot, Nil
    <2>2. ASSUME NEW p \in Slot, statusBar[p] = "waiting"
          PROVE  Tree_!Kids(p) # {} /\ \A s \in Tree_!Kids(p) : statusBar[s] # "zombie"
      <3>1. PICK s \in Slot : parBar[s] = p
        BY <2>2 DEF SoundTree
      <3>2. s \in Tree_!Kids(p)
        BY <2>1, <3>1 DEF Tree_!Kids
      <3> QED
        BY <2>1, <2>2, <3>2 DEF SoundTree, Tree_!Kids
    <2>3. ASSUME NEW p \in Slot, parBar[p] # Nil PROVE Tree_!Alive(parBar[p])
      BY <2>3 DEF SoundTree, Tree_!Alive
    <2> QED
      BY <2>1, <2>2, <2>3 DEF Tree_!TreeSound
  <1> QED
    BY <1>1, <1>2, <1>3, <1>4, FamilyKept, PTL DEF Spec

=============================================================================
