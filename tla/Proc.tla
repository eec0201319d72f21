------------------------------- MODULE Proc -------------------------------
(***************************************************************************)
(* The process table of xv6 (kernel/proc.c) with the trap path that drives *)
(* it (kernel/trap.c) and the sleeping system call (kernel/sysproc.c), on  *)
(* several CPUs.                                                           *)
(*                                                                         *)
(* The kernel threads are the processes, identified by their slot, and one *)
(* scheduler thread per CPU, identified by the CPU.  CPU c executes the    *)
(* thread of proc[c], or its scheduler when proc[c] = Nil; pc[t] is where  *)
(* thread t stands.  One action is what a CPU does between two points at   *)
(* which another CPU or an interrupt can make a difference: taking a       *)
(* spinlock, the body of a critical section, swtch().                      *)
(*                                                                         *)
(* Tree selects the variant of the repository: "A" (lottery scheduler) or  *)
(* "B" (priority scheduler).  They share this code except that B writes    *)
(* p->state in allocproc() and fork() without ptable.lock.  WHICH runnable *)
(* process is picked is left open here; see Lottery and Priority.          *)
(***************************************************************************)
EXTENDS Naturals

CONSTANTS
    NPROC,      \* slots of ptable.proc
    CPUS,       \* the processors
    BootCpu,    \* the processor with cpu->id == 0, which counts ticks; an
                \* instance whose CPUS leave it out has no clock
    NoCpu,      \* "not held" value of a spinlock
    Tree,       \* "A" or "B"
    MaxPid,     \* bound: no fork is started once nextpid exceeds it
    TickMod,    \* the width of the uint ticks counter (2^32 in the code)
    KillArgs,   \* arguments user code passes to kill()
    SleepArgs,  \* arguments user code passes to sleep()
    Events,     \* the system calls user code makes in this instance, and the
                \* traps that occur
    Never       \* pairs of a pid and a system call: calls that this process
                \* does not make in this instance

ASSUME ProcAssumption ==
    /\ NPROC \in Nat \ {0}
    /\ CPUS \cap (0..NPROC) = {}
    /\ NoCpu \notin CPUS
    /\ Tree \in {"A", "B"}
    /\ MaxPid \in Nat
    /\ TickMod \in Nat \ {0}
    /\ SleepArgs \subseteq Nat
    /\ KillArgs \subseteq Nat \ {1}       \* kill(1) panics: "init exiting"
    /\ Events \subseteq {"fork", "exit", "wait", "kill", "sleep", "fault", "timer"}

Slot == 1..NPROC
Nil  == 0                   \* the null struct proc pointer
initproc  == 1              \* the slot userinit() obtains from allocproc()
TicksChan == NPROC + 1      \* the sleep channel &ticks
Threads   == Slot \cup CPUS

VARIABLES
    \* struct proc, one function per field
    state, pid, parent, killed, chan, kstack,
    nextpid,
    \* spinlocks ptable.lock and tickslock: the CPU that holds it, or NoCpu
    lock, tlock,
    \* cpu->proc
    proc,
    \* per thread: where its kernel code stands, and where the code stood
    \* that the timer interrupted
    pc, ipc,
    \* per process: locals of the system call (np, pid or ticks0; and n)
    loc, dur,
    ticks

ident == <<pid, parent, killed, kstack, nextpid>>
ptab  == <<state, chan, ident>>
locks == <<lock, tlock>>
frame == <<ipc, loc, dur>>
vars  == <<ptab, locks, proc, pc, frame, ticks>>

(***************************************************************************)
(* Control points.                                                         *)
(***************************************************************************)

\* Points at which ptable.lock is held: after acquire(), and after swtch(),
\* which hands the held lock from one thread to the other.
PLocked == {"fork_scan", "fork_pub", "fork_undo", "exit_cs", "exit_zombie",
            "exit_sched", "wait_scan", "wait_sleep", "wait_sched", "wait_ret",
            "kill_cs", "slp_sleep", "slp_sched", "slp_ret", "yield_cs",
            "yield_sched", "yield_ret", "forkret", "tick_wake", "scan", "back"}

\* Points at which tickslock is held.
TLocked == {"slp_start", "slp_test", "slp_plock", "slp_sleep",
            "tick_inc", "tick_wake_acq", "tick_wake"}

\* Points of a process that is not on a CPU: after swtch() left it.
Parked == {"forkret", "wait_ret", "slp_ret", "yield_ret"}

\* Points at which interrupts are enabled: user mode, system call code
\* (T_SYSCALL is a trap gate, tvinit) that holds no spinlock, and the
\* scheduler after sti().
Preemptible == {"user", "sysret", "fork_acq", "fork_kalloc", "fork_copy",
                "fork_pub_acq", "fork_undo_acq", "exit_acq", "wait_acq",
                "kill_acq", "slp_acq", "slp_reacq", "loop"}

\* Points of the timer interrupt handler, which runs on the stack of the
\* interrupted thread; ipc is where it will return to.
InHandler == {"tick_acq", "tick_inc", "tick_wake_acq", "tick_wake",
              "trap_end", "yield_acq", "yield_cs", "yield_sched",
              "yield_ret", "trap_ret"}

\* Points of fork() that own the EMBRYO slot loc.
ForkOwns == {"fork_kalloc", "fork_copy", "fork_pub_acq", "fork_pub",
             "fork_undo_acq", "fork_undo"}

Points == PLocked \cup TLocked \cup Preemptible \cup InHandler
            \cup {"none", "dead", "away"}

\* acquire(&ptable.lock): the point before and the point after.  Tree B does
\* not take it to free or to publish the slot of a fork().
PtableAcquires ==
    {<<"loop", "scan">>, <<"fork_acq", "fork_scan">>, <<"exit_acq", "exit_cs">>,
     <<"wait_acq", "wait_scan">>, <<"kill_acq", "kill_cs">>,
     <<"slp_plock", "slp_sleep">>, <<"yield_acq", "yield_cs">>,
     <<"tick_wake_acq", "tick_wake">>}
    \cup IF Tree = "A" THEN {<<"fork_pub_acq", "fork_pub">>,
                             <<"fork_undo_acq", "fork_undo">>} ELSE {}

\* acquire(&tickslock).
TicksAcquires ==
    {<<"slp_acq", "slp_start">>, <<"slp_reacq", "slp_test">>,
     <<"tick_acq", "tick_inc">>}

\* sched(): the point that calls it and the point at which swtch() returns.
Scheds ==
    {<<"exit_sched", "dead">>, <<"wait_sched", "wait_ret">>,
     <<"slp_sched", "slp_ret">>, <<"yield_sched", "yield_ret">>}

\* The thread CPU c executes, and that it is t, at control point k.
Thread(c) == IF proc[c] = Nil THEN c ELSE proc[c]
At(c, t, k) == t = Thread(c) /\ pc[t] = k

\* Thread t goes from k to k2 on CPU c.
Goto(c, t, k, k2) == At(c, t, k) /\ pc' = [pc EXCEPT ![t] = k2]

\* The spinlocks are free: the xchg in acquire() finds 0.  Mutant: acquire()
\* does not wait.
PtableFreeUnchecked == TRUE
PtableFree == lock = NoCpu
TicksFree  == tlock = NoCpu

\* The first slot of the table in S, as the loops over it find it.
First(S, p) == p \in S /\ \A q \in S : p <= q
----------------------------------------------------------------------------
(***************************************************************************)
(* acquire(), scheduler() and sched().                                     *)
(***************************************************************************)

AcquirePtable(c) ==
    /\ PtableFree
    /\ \E t \in Threads, e \in PtableAcquires : Goto(c, t, e[1], e[2])
    /\ lock' = c
    /\ UNCHANGED <<ptab, tlock, proc, frame, ticks>>

AcquireTicks(c) ==
    /\ TicksFree
    /\ \E t \in Threads, e \in TicksAcquires : Goto(c, t, e[1], e[2])
    /\ tlock' = c
    /\ UNCHANGED <<ptab, lock, proc, frame, ticks>>

\* scheduler(): choose a RUNNABLE process and swtch() to it, lock held.
SchedulerRun(c) ==
    /\ Goto(c, c, "scan", "away")
    /\ \E p \in Slot :
        /\ state[p] = "RUNNABLE"
        /\ state' = [state EXCEPT ![p] = "RUNNING"]
        /\ proc' = [proc EXCEPT ![c] = p]
    /\ UNCHANGED <<chan, ident, locks, frame, ticks>>

\* scheduler(): nothing to run, or a process has switched back.
SchedulerRelease(c) ==
    /\ \/ Goto(c, c, "scan", "loop") /\ \A p \in Slot : state[p] # "RUNNABLE"
       \/ Goto(c, c, "back", "loop")
    /\ lock' = NoCpu
    /\ UNCHANGED <<ptab, tlock, proc, frame, ticks>>

\* sched(): swtch() to the scheduler of c; ptable.lock stays held.
Sched(c) ==
    /\ \E p \in Slot, e \in Scheds :
        /\ At(c, p, e[1])
        /\ pc' = [pc EXCEPT ![p] = e[2], ![c] = "back"]
    /\ proc' = [proc EXCEPT ![c] = Nil]
    /\ UNCHANGED <<ptab, locks, frame, ticks>>
----------------------------------------------------------------------------
(***************************************************************************)
(* Entering and leaving the kernel: trap().                                *)
(***************************************************************************)

\* User code of process p may make system call e.
MayCall(p, e) == e \in Events /\ <<pid[p], e>> \notin Never

\* INT T_SYSCALL from user mode: a killed process exits instead.  init only
\* forks and waits (user/init.c).
Syscall(c) ==
    /\ \E p \in Slot :
        \/ /\ killed[p]
           /\ Goto(c, p, "user", "exit_acq")
           /\ UNCHANGED <<loc, dur>>
        \/ /\ ~killed[p] /\ MayCall(p, "fork") /\ nextpid <= MaxPid
           /\ Goto(c, p, "user", "fork_acq")
           /\ UNCHANGED <<loc, dur>>
        \/ /\ ~killed[p] /\ MayCall(p, "exit") /\ p # initproc
           /\ Goto(c, p, "user", "exit_acq")
           /\ UNCHANGED <<loc, dur>>
        \/ /\ ~killed[p] /\ MayCall(p, "wait")
           /\ Goto(c, p, "user", "wait_acq")
           /\ UNCHANGED <<loc, dur>>
        \/ /\ ~killed[p] /\ MayCall(p, "kill") /\ p # initproc
           /\ Goto(c, p, "user", "kill_acq")
           /\ \E k \in KillArgs : loc' = [loc EXCEPT ![p] = k]
           /\ UNCHANGED dur
        \/ /\ ~killed[p] /\ MayCall(p, "sleep") /\ p # initproc
           /\ Goto(c, p, "user", "slp_acq")
           /\ \E n \in SleepArgs : dur' = [dur EXCEPT ![p] = n]
           /\ UNCHANGED loc
    /\ UNCHANGED <<ptab, locks, proc, ipc, ticks>>

\* The system call returns: exit if killed meanwhile, else back to user mode.
SyscallReturn(c) ==
    /\ \E p \in Slot :
        /\ Goto(c, p, "sysret", IF killed[p] THEN "exit_acq" ELSE "user")
        /\ loc' = [loc EXCEPT ![p] = 0]
        /\ dur' = [dur EXCEPT ![p] = 0]
    /\ UNCHANGED <<ptab, locks, proc, ipc, ticks>>

\* Any other trap from user mode: the process misbehaved and is killed.
FaultTrap(c) ==
    /\ "fault" \in Events
    /\ \E p \in Slot \ {initproc} :
        /\ Goto(c, p, "user", "exit_acq")
        /\ killed' = [killed EXCEPT ![p] = TRUE]
    /\ UNCHANGED <<state, chan, pid, parent, kstack, nextpid, locks, proc, frame,
                   ticks>>

\* IRQ_TIMER; only the boot CPU advances ticks.
TimerTrap(c) ==
    /\ "timer" \in Events
    /\ \E t \in Threads, k \in Preemptible :
        /\ Goto(c, t, k, IF c = BootCpu THEN "tick_acq" ELSE "trap_end")
        /\ ipc' = [ipc EXCEPT ![t] = k]
    /\ UNCHANGED <<ptab, locks, proc, loc, dur, ticks>>

\* The uint ticks incremented.
Bump(t) == (t + 1) % TickMod

\* ticks++ under tickslock.
TickIncrement(c) ==
    /\ \E t \in Threads : Goto(c, t, "tick_inc", "tick_wake_acq")
    /\ ticks' = Bump(ticks)
    /\ UNCHANGED <<ptab, locks, proc, frame>>

\* wakeup1(ch), applied to a table of process states.  Mutant: nobody wakes.
WokenNever(st, ch) == st
Woken(st, ch) ==
    [s \in Slot |-> IF st[s] = "SLEEPING" /\ chan[s] = ch
                    THEN "RUNNABLE" ELSE st[s]]

\* wakeup(&ticks) with both locks held; both are released.
TickWakeup(c) ==
    /\ \E t \in Threads : Goto(c, t, "tick_wake", "trap_end")
    /\ state' = Woken(state, TicksChan)
    /\ lock' = NoCpu
    /\ tlock' = NoCpu
    /\ UNCHANGED <<chan, ident, proc, frame, ticks>>

\* The end of trap(): a process killed in user mode exits, one that is
\* RUNNING yields; an interrupted scheduler goes on.  Mutant: no yield.
AfterTrapNoYield(t) == IF t \in CPUS THEN ipc[t] ELSE "trap_ret"
AfterTrap(t) ==
    IF t \in CPUS THEN ipc[t]
    ELSE IF killed[t] /\ ipc[t] = "user" THEN "exit_acq"
    ELSE IF state[t] = "RUNNING" THEN "yield_acq" ELSE "trap_ret"

TrapEnd(c) ==
    /\ \E t \in Threads : Goto(c, t, "trap_end", AfterTrap(t))
    /\ UNCHANGED <<ptab, locks, proc, frame, ticks>>

\* After yield(): the second check for killed, then return from the trap,
\* which pops its frame.
TrapReturn(c) ==
    /\ \E p \in Slot :
        /\ Goto(c, p, "trap_ret",
                IF killed[p] /\ ipc[p] = "user" THEN "exit_acq" ELSE ipc[p])
        /\ ipc' = [ipc EXCEPT ![p] = "loop"]
    /\ UNCHANGED <<ptab, locks, proc, loc, dur, ticks>>

\* yield(): proc->state = RUNNABLE, then sched().  Mutant: yield() releases
\* the lock before sched().
YieldUnlocked(c) ==
    /\ \E p \in Slot :
        /\ Goto(c, p, "yield_cs", "yield_sched")
        /\ state' = [state EXCEPT ![p] = "RUNNABLE"]
    /\ lock' = NoCpu
    /\ UNCHANGED <<chan, ident, tlock, proc, frame, ticks>>
Yield(c) ==
    /\ \E p \in Slot :
        /\ Goto(c, p, "yield_cs", "yield_sched")
        /\ state' = [state EXCEPT ![p] = "RUNNABLE"]
    /\ UNCHANGED <<chan, ident, locks, proc, frame, ticks>>

\* Scheduled again: yield() or forkret() releases the lock it was handed.
ReleaseAfterSwtch(c) ==
    /\ \E p \in Slot : \/ Goto(c, p, "yield_ret", "trap_ret")
                       \/ Goto(c, p, "forkret", "user")
    /\ lock' = NoCpu
    /\ UNCHANGED <<ptab, tlock, proc, frame, ticks>>
----------------------------------------------------------------------------
(***************************************************************************)
(* fork() and allocproc().                                                 *)
(***************************************************************************)

\* The slots allocproc() may take.  Mutant: an EMBRYO slot counts as free.
FreeSlotsEmbryo == {s \in Slot : state[s] \in {"UNUSED", "EMBRYO"}}
FreeSlots == {s \in Slot : state[s] = "UNUSED"}

\* allocproc() under the lock: take the first UNUSED slot, if there is one.
AllocprocScan(c) ==
    /\ \E p \in Slot :
        \/ \E q \in Slot :
            /\ First(FreeSlots, q)
            /\ Goto(c, p, "fork_scan", "fork_kalloc")
            /\ state' = [state EXCEPT ![q] = "EMBRYO"]
            /\ pid' = [pid EXCEPT ![q] = nextpid]
            /\ nextpid' = nextpid + 1
            /\ loc' = [loc EXCEPT ![p] = q]
        \/ /\ FreeSlots = {}
           /\ Goto(c, p, "fork_scan", "sysret")
           /\ UNCHANGED <<state, pid, nextpid, loc>>
    /\ lock' = NoCpu
    /\ UNCHANGED <<chan, parent, killed, kstack, tlock, proc, ipc, dur, ticks>>

\* allocproc(): kalloc() a kernel stack and set up the context that returns
\* to forkret, or fail.
AllocprocStack(c) ==
    /\ \E p \in Slot :
        \/ /\ At(c, p, "fork_kalloc")
           /\ kstack' = [kstack EXCEPT ![loc[p]] = TRUE]
           /\ pc' = [pc EXCEPT ![p] = "fork_copy", ![loc[p]] = "forkret"]
        \/ Goto(c, p, "fork_kalloc", "fork_undo_acq") /\ UNCHANGED kstack
    /\ UNCHANGED <<state, chan, pid, parent, killed, nextpid, locks, proc, frame,
                   ticks>>

\* fork(): copyuvm() succeeds and the child gets its parent, files and cwd;
\* or it fails and the stack is freed.
ForkCopy(c) ==
    /\ \E p \in Slot :
        \/ /\ Goto(c, p, "fork_copy", "fork_pub_acq")
           /\ parent' = [parent EXCEPT ![loc[p]] = p]
           /\ UNCHANGED kstack
        \/ /\ At(c, p, "fork_copy")
           /\ kstack' = [kstack EXCEPT ![loc[p]] = FALSE]
           /\ pc' = [pc EXCEPT ![p] = "fork_undo_acq", ![loc[p]] = "none"]
           /\ UNCHANGED parent
    /\ UNCHANGED <<state, chan, pid, killed, nextpid, locks, proc, frame, ticks>>

\* The last write to np->state, under ptable.lock in A, without it in B: the
\* child becomes RUNNABLE, or the slot of a failed fork() UNUSED.
ForkPublishes == IF Tree = "A" THEN "fork_pub" ELSE "fork_pub_acq"
ForkUndoes    == IF Tree = "A" THEN "fork_undo" ELSE "fork_undo_acq"

ForkEnd(c) ==
    /\ \E p \in Slot :
        \/ /\ Goto(c, p, ForkPublishes, "sysret")
           /\ state' = [state EXCEPT ![loc[p]] = "RUNNABLE"]
        \/ /\ Goto(c, p, ForkUndoes, "sysret")
           /\ state' = [state EXCEPT ![loc[p]] = "UNUSED"]
    /\ lock' = IF Tree = "A" THEN NoCpu ELSE lock
    /\ UNCHANGED <<chan, ident, tlock, proc, frame, ticks>>
----------------------------------------------------------------------------
(***************************************************************************)
(* exit(), wait() and kill().                                              *)
(***************************************************************************)

\* exit() under the lock: wakeup1(proc->parent).
ExitWakeParent(c) ==
    /\ \E p \in Slot :
        /\ Goto(c, p, "exit_cs", "exit_zombie")
        /\ state' = Woken(state, parent[p])
    /\ UNCHANGED <<chan, ident, locks, proc, frame, ticks>>

\* exit(): pass the children to init, waking it if one is a ZOMBIE, and
\* become a ZOMBIE.  Mutants: children keep their parent; init is not woken.
ReparentedNot(p) == parent
Reparented(p) == [s \in Slot |-> IF parent[s] = p THEN initproc ELSE parent[s]]

OrphanZombieMissed(p) == FALSE
OrphanZombie(p) == \E s \in Slot : parent[s] = p /\ state[s] = "ZOMBIE"

ExitZombie(c) ==
    /\ \E p \in Slot :
        /\ Goto(c, p, "exit_zombie", "exit_sched")
        /\ LET st == IF OrphanZombie(p) THEN Woken(state, initproc) ELSE state
           IN  state' = [st EXCEPT ![p] = "ZOMBIE"]
        /\ parent' = Reparented(p)
    /\ UNCHANGED <<chan, pid, killed, kstack, nextpid, locks, proc, frame, ticks>>

\* The slots wait() looks at.  Mutant: it takes anybody's children.
ChildrenOfAnyone(p) == {s \in Slot : parent[s] # Nil}
Children(p) == {s \in Slot : parent[s] = p}
ZombieChildren(p) == {s \in Children(p) : state[s] = "ZOMBIE"}

\* wait(): a ZOMBIE child is found; its stack, memory and slot are freed.
WaitReap(c) ==
    /\ \E p, z \in Slot :
        /\ At(c, p, "wait_scan")
        /\ First(ZombieChildren(p), z)
        /\ state' = [state EXCEPT ![z] = "UNUSED"]
        /\ pid' = [pid EXCEPT ![z] = 0]
        /\ parent' = [parent EXCEPT ![z] = Nil]
        /\ killed' = [killed EXCEPT ![z] = FALSE]
        /\ kstack' = [kstack EXCEPT ![z] = FALSE]
        /\ pc' = [pc EXCEPT ![p] = "sysret", ![z] = "none"]
    /\ lock' = NoCpu
    /\ UNCHANGED <<chan, nextpid, tlock, proc, frame, ticks>>

\* wait(): no children, or killed: return -1.
WaitNone(c) ==
    /\ \E p \in Slot :
        /\ Goto(c, p, "wait_scan", "sysret")
        /\ ZombieChildren(p) = {}
        /\ Children(p) = {} \/ killed[p]
    /\ lock' = NoCpu
    /\ UNCHANGED <<ptab, tlock, proc, frame, ticks>>

\* wait(): there are children and none has exited, so call
\* sleep(proc, &ptable.lock).
WaitChildren(c) ==
    /\ \E p \in Slot :
        /\ Goto(c, p, "wait_scan", "wait_sleep")
        /\ ZombieChildren(p) = {}
        /\ Children(p) # {} /\ ~killed[p]
    /\ UNCHANGED <<ptab, locks, proc, frame, ticks>>

\* sleep() with ptable.lock itself as the lock: nothing to exchange.
WaitSleep(c) ==
    /\ \E p \in Slot :
        /\ Goto(c, p, "wait_sleep", "wait_sched")
        /\ chan' = [chan EXCEPT ![p] = p]
        /\ state' = [state EXCEPT ![p] = "SLEEPING"]
    /\ UNCHANGED <<ident, locks, proc, frame, ticks>>

\* sleep() returns to wait() with ptable.lock held: tidy up and scan again.
WaitWake(c) ==
    /\ \E p \in Slot :
        /\ Goto(c, p, "wait_ret", "wait_scan")
        /\ chan' = [chan EXCEPT ![p] = 0]
    /\ UNCHANGED <<state, ident, locks, proc, frame, ticks>>

\* kill() wakes a sleeping process.  Mutant: it wakes any process.
WakeAnyway(st) == "RUNNABLE"
WakeIfAsleep(st) == IF st = "SLEEPING" THEN "RUNNABLE" ELSE st

\* kill(pid): mark the first slot with that pid and wake it if it sleeps.
Kill(c) ==
    /\ \E p \in Slot :
        /\ Goto(c, p, "kill_cs", "sysret")
        /\ \/ \E q \in Slot :
                /\ First({s \in Slot : pid[s] = loc[p]}, q)
                /\ killed' = [killed EXCEPT ![q] = TRUE]
                /\ state' = [state EXCEPT ![q] = WakeIfAsleep(@)]
           \/ /\ \A s \in Slot : pid[s] # loc[p]
              /\ UNCHANGED <<killed, state>>
    /\ lock' = NoCpu
    /\ UNCHANGED <<chan, pid, parent, kstack, nextpid, tlock, proc, frame, ticks>>
----------------------------------------------------------------------------
(***************************************************************************)
(* sys_sleep() and sleep() with a lock other than ptable.lock.             *)
(***************************************************************************)

\* sys_sleep(): ticks0 = ticks, under tickslock.
SleepStart(c) ==
    /\ \E p \in Slot :
        /\ Goto(c, p, "slp_start", "slp_test")
        /\ loc' = [loc EXCEPT ![p] = ticks]
    /\ UNCHANGED <<ptab, locks, proc, ipc, dur, ticks>>

\* The unsigned difference ticks - ticks0 of process p.
Elapsed(p) == (ticks + TickMod - loc[p]) % TickMod

\* The loop test: enough ticks, or killed: release and return; else sleep.
\* Mutant: tickslock is released before ptable.lock is taken.
SleepTestUnlocked(c) ==
    /\ \E p \in Slot :
        Goto(c, p, "slp_test",
             IF Elapsed(p) >= dur[p] \/ killed[p] THEN "sysret" ELSE "slp_plock")
    /\ tlock' = NoCpu
    /\ UNCHANGED <<ptab, lock, proc, frame, ticks>>
SleepTest(c) ==
    /\ \E p \in Slot :
        \/ /\ Elapsed(p) >= dur[p] \/ killed[p]
           /\ Goto(c, p, "slp_test", "sysret")
           /\ tlock' = NoCpu
        \/ /\ Elapsed(p) < dur[p] /\ ~killed[p]
           /\ Goto(c, p, "slp_test", "slp_plock")
           /\ UNCHANGED tlock
    /\ UNCHANGED <<ptab, lock, proc, frame, ticks>>

\* sleep(&ticks, &tickslock) with both locks held: release tickslock, go to
\* sleep, call sched().  Mutant: tickslock stays held.
SleepKeepsLock(c) ==
    /\ \E p \in Slot :
        /\ Goto(c, p, "slp_sleep", "slp_sched")
        /\ chan' = [chan EXCEPT ![p] = TicksChan]
        /\ state' = [state EXCEPT ![p] = "SLEEPING"]
    /\ UNCHANGED <<ident, locks, proc, frame, ticks>>
Sleep(c) ==
    /\ \E p \in Slot :
        /\ Goto(c, p, "slp_sleep", "slp_sched")
        /\ chan' = [chan EXCEPT ![p] = TicksChan]
        /\ state' = [state EXCEPT ![p] = "SLEEPING"]
    /\ tlock' = NoCpu
    /\ UNCHANGED <<ident, lock, proc, frame, ticks>>

\* Awake: tidy up, release ptable.lock, then reacquire tickslock.
SleepWake(c) ==
    /\ \E p \in Slot :
        /\ Goto(c, p, "slp_ret", "slp_reacq")
        /\ chan' = [chan EXCEPT ![p] = 0]
    /\ lock' = NoCpu
    /\ UNCHANGED <<state, ident, tlock, proc, frame, ticks>>
----------------------------------------------------------------------------
\* After main() and userinit(): init is the only process, every CPU is about
\* to enter its scheduler loop.
Init ==
    /\ state  = [s \in Slot |-> IF s = initproc THEN "RUNNABLE" ELSE "UNUSED"]
    /\ pid    = [s \in Slot |-> IF s = initproc THEN 1 ELSE 0]
    /\ parent = [s \in Slot |-> Nil]
    /\ killed = [s \in Slot |-> FALSE]
    /\ chan   = [s \in Slot |-> 0]
    /\ kstack = [s \in Slot |-> s = initproc]
    /\ nextpid = 2
    /\ lock = NoCpu
    /\ tlock = NoCpu
    /\ proc = [c \in CPUS |-> Nil]
    /\ pc   = [t \in Threads |-> IF t \in CPUS THEN "loop"
                                 ELSE IF t = initproc THEN "forkret" ELSE "none"]
    /\ ipc  = [t \in Threads |-> "loop"]
    /\ loc  = [s \in Slot |-> 0]
    /\ dur  = [s \in Slot |-> 0]
    /\ ticks = 0

\* What CPU c does next on its own account: everything but obtaining a lock,
\* taking a timer interrupt and what user code chooses to do.
KernelStep(c) ==
    \/ SchedulerRun(c) \/ SchedulerRelease(c) \/ Sched(c)
    \/ SyscallReturn(c) \/ TickIncrement(c) \/ TickWakeup(c)
    \/ TrapEnd(c) \/ TrapReturn(c) \/ Yield(c) \/ ReleaseAfterSwtch(c)
    \/ AllocprocScan(c) \/ AllocprocStack(c) \/ ForkCopy(c) \/ ForkEnd(c)
    \/ ExitWakeParent(c) \/ ExitZombie(c)
    \/ WaitReap(c) \/ WaitNone(c) \/ WaitChildren(c) \/ WaitSleep(c)
    \/ WaitWake(c) \/ Kill(c)
    \/ SleepStart(c) \/ SleepTest(c) \/ Sleep(c) \/ SleepWake(c)

Acquire(c) == AcquirePtable(c) \/ AcquireTicks(c)

Next ==
    \E c \in CPUS :
        KernelStep(c) \/ Acquire(c) \/ TimerTrap(c) \/ Syscall(c) \/ FaultTrap(c)

Spec == Init /\ [][Next]_vars

\* Hardware and scheduling assumptions: a CPU keeps executing; a spinlock that
\* is free again and again is eventually obtained; a timer interrupt stays
\* pending until interrupts are enabled.  Nothing is assumed about which
\* process the scheduler picks, nor that user code ever makes a system call.
Fairness ==
    \A c \in CPUS :
        WF_vars(KernelStep(c)) /\ SF_vars(Acquire(c)) /\ SF_vars(TimerTrap(c))

FairSpec == Spec /\ Fairness
----------------------------------------------------------------------------
(***************************************************************************)
(* Properties.                                                             *)
(***************************************************************************)
ProcStates == {"UNUSED", "EMBRYO", "SLEEPING", "RUNNABLE", "RUNNING", "ZOMBIE"}

\* Every variable stays in its range.
TypeOK ==
    /\ state  \in [Slot -> ProcStates]
    /\ pid    \in [Slot -> Nat]
    /\ parent \in [Slot -> Slot \cup {Nil}]
    /\ killed \in [Slot -> BOOLEAN]
    /\ chan   \in [Slot -> 0..TicksChan]
    /\ kstack \in [Slot -> BOOLEAN]
    /\ nextpid \in Nat
    /\ lock \in CPUS \cup {NoCpu}
    /\ tlock \in CPUS \cup {NoCpu}
    /\ proc \in [CPUS -> Slot \cup {Nil}]
    /\ pc  \in [Threads -> Points]
    /\ ipc \in [Threads -> Preemptible]
    /\ loc \in [Slot -> Nat]
    /\ dur \in [Slot -> Nat]
    /\ ticks \in 0..(TickMod - 1)

\* The point of p's system call, under any interrupt handler.
CallPoint(p) == IF pc[p] \in InHandler THEN ipc[p] ELSE pc[p]

\* Each spinlock is held by exactly the CPU whose thread is inside a critical
\* section of it, also across swtch(), where the lock taken by one thread is
\* released by another.
LockDiscipline ==
    \A c \in CPUS :
        /\ proc[c] # Nil <=> pc[c] = "away"
        /\ lock = c  <=> pc[Thread(c)] \in PLocked
        /\ tlock = c <=> pc[Thread(c)] \in TLocked

\* A kernel stack is used by one CPU at a time and never after it was freed:
\* no process is current on two CPUs, and the current process has a stack.
\* This is what handing ptable.lock through swtch() is for.
StackExclusive ==
    \A c \in CPUS :
        proc[c] # Nil => /\ kstack[proc[c]]
                         /\ \A d \in CPUS \ {c} : proc[d] # proc[c]

\* None of the panics of sched() fires: the caller holds ptable.lock and no
\* other lock, and has left the state RUNNING.
SchedChecks ==
    \A c \in CPUS, p \in Slot, e \in Scheds :
        At(c, p, e[1]) => lock = c /\ tlock # c /\ state[p] # "RUNNING"

\* The state a process on a CPU has at control point k, and the points at
\* which a process that is on no CPU may stand in state st.
OnCpu(p) == \E c \in CPUS : proc[c] = p

StateAt(k) ==
    CASE k = "exit_sched" -> "ZOMBIE"
      [] k \in {"wait_sched", "slp_sched"} -> "SLEEPING"
      [] k = "yield_sched" -> "RUNNABLE"
      [] OTHER -> "RUNNING"

OffCpuPoints(st) ==
    CASE st = "UNUSED"   -> {"none"}
      [] st = "EMBRYO"   -> {"none", "forkret"}
      [] st = "SLEEPING" -> {"wait_ret", "slp_ret"}
      [] st = "RUNNABLE" -> Parked
      [] st = "ZOMBIE"   -> {"dead"}
      [] OTHER -> {}

\* The state field of a process agrees with where its code stands, whether
\* it is on a CPU or not, and it has a kernel stack from allocproc() to
\* wait().
StateMatchesCode ==
    \A p \in Slot :
        /\ OnCpu(p) => state[p] = StateAt(pc[p])
        /\ ~OnCpu(p) => pc[p] \in OffCpuPoints(state[p])
        /\ kstack[p] <=> pc[p] # "none"

\* The points of fork() at which the child has its kernel stack.
ForkStacked == {"fork_copy", "fork_pub_acq", "fork_pub"}

\* A slot being set up by fork() is an EMBRYO and belongs to one fork() only,
\* although fork() runs without ptable.lock most of the time.
EmbryoOwned ==
    \A p \in Slot :
        CallPoint(p) \in ForkOwns =>
            /\ loc[p] \in Slot
            /\ state[loc[p]] = "EMBRYO"
            /\ pc[loc[p]] = IF CallPoint(p) \in ForkStacked THEN "forkret" ELSE "none"
            /\ \A q \in Slot \ {p} :
                  CallPoint(q) \in ForkOwns => loc[q] # loc[p]

\* Every process but init has a parent that is still alive: the children of
\* an exiting process always find init.
ParentAlive ==
    \A s \in Slot :
        /\ parent[s] # Nil => state[parent[s]] \in {"RUNNABLE", "RUNNING", "SLEEPING"}
        /\ (s # initproc /\ state[s] \notin {"UNUSED", "EMBRYO"}) => parent[s] # Nil

\* No exit is missed by wait(): whenever ptable.lock is free, a process that
\* sleeps in wait() has children, none of them has exited, and it was not
\* killed.
WaitNotMissed ==
    lock = NoCpu =>
        \A p \in Slot :
            (state[p] = "SLEEPING" /\ chan[p] = p) =>
                /\ Children(p) # {} /\ ~killed[p]
                /\ \A s \in Children(p) : state[s] # "ZOMBIE"

\* No tick is missed by sys_sleep(): a process whose time has come is asleep
\* only while the interrupt handler that advanced ticks is still about to
\* wake it.
TickNotMissed ==
    \A p \in Slot :
        (state[p] = "SLEEPING" /\ chan[p] = TicksChan /\ Elapsed(p) >= dur[p]) =>
            \E c \in CPUS : pc[Thread(c)] \in {"tick_wake_acq", "tick_wake"}

\* kill() says it will "Wake process from sleep if necessary": a killed
\* process is never asleep.  (It is, when kill() falls between the test of
\* proc->killed in sys_sleep() and its sleep().)
KilledAwake == \A p \in Slot : state[p] = "SLEEPING" => ~killed[p]

\* kill() kills "the process with the given pid": a process that has just
\* been created by allocproc() has not been killed.
BornAlive ==
    [][\A s \in Slot : (state[s] = "UNUSED" /\ state'[s] = "EMBRYO") => ~killed'[s]]_vars

\* The transitions of p->state.
Transitions ==
    {<<"UNUSED", "EMBRYO">>, <<"EMBRYO", "RUNNABLE">>, <<"EMBRYO", "UNUSED">>,
     <<"RUNNABLE", "RUNNING">>, <<"RUNNING", "RUNNABLE">>,
     <<"RUNNING", "SLEEPING">>, <<"SLEEPING", "RUNNABLE">>,
     <<"RUNNING", "ZOMBIE">>, <<"ZOMBIE", "UNUSED">>}

\* A process leaves a CPU only in sched(), and enters one only when a
\* scheduler picked it while RUNNABLE; a slot is reused only after wait().
Lifecycle ==
    [][\A s \in Slot : state[s] # state'[s] =>
                          <<state[s], state'[s]>> \in Transitions]_vars

\* Preemption: every CPU returns to its scheduler again and again, whatever
\* user code does, so no lock is held for ever and nobody waits on everybody.
Preemption == \A c \in CPUS : []<>(proc[c] = Nil /\ pc[c] = "loop")

\* A process in sys_sleep() is woken by some later tick.
SleeperWoken ==
    \A p \in Slot : (state[p] = "SLEEPING" /\ chan[p] = TicksChan) ~>
                     state[p] # "SLEEPING"
----------------------------------------------------------------------------
(***************************************************************************)
(* The process tree that the table implements.                             *)
(***************************************************************************)

\* The process tree a table shows: a slot being set up by fork() is still
\* free and has no parent.
Hidden(s) == state[s] \in {"UNUSED", "EMBRYO"}

statusBar ==
    [s \in Slot |-> IF Hidden(s) THEN "free"
                    ELSE IF state[s] = "ZOMBIE" THEN "zombie"
                    ELSE IF state[s] = "SLEEPING" /\ chan[s] = s THEN "waiting"
                    ELSE "live"]
parBar == [s \in Slot |-> IF Hidden(s) THEN Nil ELSE parent[s]]

Tree_ == INSTANCE ProcTree WITH status <- statusBar, par <- parBar

\* The kernel's process table implements the process tree: every step of
\* fork(), exit(), wait(), kill() and the scheduler, on any CPU, is one step
\* of the tree or none.
ImplementsTree == Tree_!TreeSpec
============================================================================
