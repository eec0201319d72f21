------------------------------- MODULE Pinfo -------------------------------
(***************************************************************************)
(* getpinfo(): the copy of the process table that user programs read       *)
(* (kernel/proc.c of both trees, struct pstat in include/pstat.h), running *)
(* beside the processes of module Proc.  It holds ptable.lock from its     *)
(* first slot to its last, but the lock does not stop every writer: fork() *)
(* of tree B publishes and frees its slot without it (ForkEnd), so each    *)
(* slot is read at an instant of its own.                                  *)
(*                                                                         *)
(* One program, the process numbered Watcher, makes the call again and     *)
(* again on one struct pstat, which starts out as zeroed memory; its other *)
(* fields (ticks, size, priority or tickets) are copied as pid is.         *)
(***************************************************************************)
EXTENDS Proc, FiniteSets

CONSTANT Watcher    \* the pid of the process that calls getpinfo()

VARIABLES
    reader,     \* the CPU that executes getpinfo() with ptable.lock held, or NoCpu
    at, idx,    \* its locals p and i: the slot looked at and the entry written next
    pInfo,      \* the caller's struct pstat
    written,    \* the entries this call has written
    before      \* the slots that held a live process when the call got the lock

scanning == <<reader, at, idx, written, before>>
pvars    == <<vars, scanning, pInfo>>

Live(s) == state[s] \in {"RUNNABLE", "RUNNING", "SLEEPING"}

PinfoInit ==
    /\ Init
    /\ reader = NoCpu /\ at = 1 /\ idx = 1
    /\ pInfo = [s \in Slot |-> [inuse |-> FALSE, pid |-> 0]]
    /\ written = {} /\ before = {}

\* sys_getpinfo() and acquire(&ptable.lock).  The trap around the call
\* changes nothing that is modelled: the process stays at "user".
GetpinfoStart(c) ==
    /\ reader = NoCpu /\ PtableFree
    /\ \E s \in Slot : At(c, s, "user") /\ ~killed[s] /\ pid[s] = Watcher
    /\ reader' = c
    /\ before' = {s \in Slot : Live(s)}
    /\ UNCHANGED <<vars, at, idx, pInfo, written>>

\* The slots the loop does not "continue" past.  Mutant: sleepers are skipped.
SkippedAsleep(s) == state[s] \in {"ZOMBIE", "EMBRYO", "SLEEPING"}
Skipped(s) == state[s] \in {"ZOMBIE", "EMBRYO"}

\* A: i advances with every slot, so entry i describes slot i.
\* B: only after a written entry, so the entries are compacted.
NextEntry == IF Tree = "A" \/ ~Skipped(at) THEN idx + 1 ELSE idx

\* One turn of the loop.
GetpinfoSlot(c) ==
    /\ reader = c /\ at \in Slot
    /\ IF Skipped(at) THEN UNCHANGED <<pInfo, written>>
       ELSE /\ pInfo' = [pInfo EXCEPT ![idx] = [inuse |-> state[at] # "UNUSED",
                                                pid   |-> pid[at]]]
            /\ written' = written \cup {idx}
    /\ idx' = NextEntry
    /\ at' = at + 1
    /\ UNCHANGED <<vars, reader, before>>

\* release(&ptable.lock) and back to user mode.
Finished == reader # NoCpu /\ at = NPROC + 1
GetpinfoEnd(c) ==
    /\ reader = c /\ Finished
    /\ reader' = NoCpu /\ at' = 1 /\ idx' = 1 /\ written' = {} /\ before' = {}
    /\ UNCHANGED <<vars, pInfo>>

\* Meanwhile the other CPUs go on, but for acquire(&ptable.lock); reader's
\* own CPU has its interrupts off.
Others ==
    /\ \E c \in CPUS \ {reader} :
        KernelStep(c) \/ Acquire(c) \/ TimerTrap(c) \/ Syscall(c) \/ FaultTrap(c)
    /\ reader # NoCpu => lock' = NoCpu
    /\ UNCHANGED <<scanning, pInfo>>

PinfoNext ==
    \/ Others
    \/ \E c \in CPUS : GetpinfoStart(c) \/ GetpinfoSlot(c) \/ GetpinfoEnd(c)

PinfoSpec == PinfoInit /\ [][PinfoNext]_pvars
----------------------------------------------------------------------------
(***************************************************************************)
(* Properties.                                                             *)
(***************************************************************************)

\* The entries of this call that report a process in use.
Reported == {e \in written : pInfo[e].inuse}

\* What getpinfo() has written when it returns, although forks end while it
\* scans: it stays inside the arrays of struct pstat; no process that was
\* alive when the call began is missing; every process reported is alive; and
\* none is reported twice, whatever forks failed before and whatever zombies
\* and half-made slots lie between.  (A fork that ends behind the scan is
\* missed, one that ends ahead of it is seen: the answer need not be the
\* table of any one instant.)
SnapshotExact ==
    Finished =>
        /\ written \subseteq Slot
        /\ \A s \in before : \E e \in Reported : pInfo[e].pid = pid[s]
        /\ \A e \in Reported : \E s \in Slot : Live(s) /\ pInfo[e].pid = pid[s]
        /\ \A e, f \in Reported : pInfo[e].pid = pInfo[f].pid => e = f

\* What pstat.h says of the struct: inuse[i] is "whether this slot is in use
\* (1 or 0)", so after the call an entry that says 1 is a process of the
\* table and no process has two.  (The code writes no entry for a slot it
\* skips, and in B none behind the last process: they keep what an earlier
\* call left there.)
InuseTrue ==
    Finished =>
        \A e, f \in Slot :
            /\ pInfo[e].inuse => \E s \in Slot : state[s] # "UNUSED" /\ pInfo[e].pid = pid[s]
            /\ pInfo[e].inuse /\ pInfo[f].inuse /\ pInfo[e].pid = pInfo[f].pid => e = f
============================================================================
