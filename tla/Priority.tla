------------------------------ MODULE Priority ------------------------------
(***************************************************************************)
(* The priority scheduler of tree B (B_xv6_patched/kernel/proc.c and       *)
(* sys_setpriority() in sysproc.c): the smallest priority value runs       *)
(* first, and one round-robin pointer, last_sched, breaks ties.            *)
(*                                                                         *)
(* One action is one critical section of ptable.lock, as in Lottery, but   *)
(* for the search of scheduler(), which reads the table slot by slot:      *)
(* fork() of tree B makes its child RUNNABLE without the lock, also in the *)
(* middle of a search.  proc[c] is the process on CPU c; np[p] the slot    *)
(* that fork() called by p is setting up.                                  *)
(***************************************************************************)
EXTENDS Integers

CONSTANTS
    NPROC,      \* slots of ptable.proc
    CPUS,
    Default,    \* the priority allocproc() gives (50 in the code)
    MaxPrio,    \* the largest value setpriority() accepts (200 in the code)
    PrioArgs    \* arguments user code passes to setpriority()

ASSUME PriorityAssumption ==
    /\ NPROC \in Nat \ {0}
    /\ MaxPrio \in Nat
    /\ Default \in 0..MaxPrio
    /\ PrioArgs \subseteq Int
    /\ 0 \notin CPUS

Slot == 1..NPROC
Nil  == 0

VARIABLES
    state, priority, last_sched, proc, np,
    searcher,           \* the CPU whose scheduler() is searching, or Nil
    turn,               \* its slots passed, in the first loop and the others
    highest_priority,   \* its local variable
    before              \* the slots that were RUNNABLE when it got the lock

table  == <<state, priority, last_sched, proc, np>>
search == <<searcher, turn, highest_priority, before>>
vars   == <<table, search>>

Runnable == {s \in Slot : state[s] = "RUNNABLE"}
----------------------------------------------------------------------------
(***************************************************************************)
(* scheduler().                                                            *)
(***************************************************************************)

\* ptable.lock is free: every action but the search is one critical section.
Unlocked == searcher = Nil

\* The initial highest_priority, one more than any valid priority.
NoneFound == MaxPrio + 1

\* acquire(&ptable.lock).
SearchStart(c) ==
    /\ proc[c] = Nil /\ Unlocked
    /\ searcher' = c /\ turn' = 0
    /\ highest_priority' = NoneFound
    /\ before' = Runnable
    /\ UNCHANGED table

\* The test of the first loop.  Mutant: any runnable process is better.
BetterAny(s) == state[s] = "RUNNABLE"
Better(s) == state[s] = "RUNNABLE" /\ priority[s] < highest_priority

\* The first loop looks at slot turn + 1.
Compare(c) ==
    /\ searcher = c /\ turn < NPROC
    /\ highest_priority' = IF Better(turn + 1) THEN priority[turn + 1]
                           ELSE highest_priority
    /\ turn' = turn + 1
    /\ UNCHANGED <<table, searcher, before>>

\* The other two loops go on from the slot after last_sched to the end and
\* from the first slot up to it.  Mutant: they start at the first slot.
SlotAtFirst(k) == (k - NPROC) + 1
SlotAt(k) == ((last_sched + k - NPROC) % NPROC) + 1

Matches(s) == state[s] = "RUNNABLE" /\ priority[s] = highest_priority

Pass(c) ==
    /\ searcher = c /\ turn \in NPROC..(2 * NPROC - 1)
    /\ ~Matches(SlotAt(turn))
    /\ turn' = turn + 1
    /\ UNCHANGED <<table, searcher, highest_priority, before>>

\* The search is over and its locals are dead.
SearchEnd ==
    searcher' = Nil /\ turn' = 0 /\ highest_priority' = NoneFound /\ before' = {}

\* A process is selected: p->state = RUNNING, swtch(), and it releases the lock.
Schedule(c) ==
    /\ searcher = c /\ turn \in NPROC..(2 * NPROC - 1)
    /\ LET p == SlotAt(turn) IN
        /\ Matches(p)
        /\ last_sched' = p
        /\ proc' = [proc EXCEPT ![c] = p]
        /\ state' = [state EXCEPT ![p] = "RUNNING"]
    /\ SearchEnd
    /\ UNCHANGED <<priority, np>>

\* None was found: release(&ptable.lock).
Idle(c) ==
    /\ searcher = c /\ turn = 2 * NPROC
    /\ SearchEnd
    /\ UNCHANGED table

Search(c) == Compare(c) \/ Pass(c) \/ Schedule(c) \/ Idle(c)
----------------------------------------------------------------------------
(***************************************************************************)
(* What the running process does.                                          *)
(***************************************************************************)

\* The process on c runs and is not inside fork().
Running(c) == proc[c] # Nil /\ np[proc[c]] = Nil

\* It leaves the CPU through sched() in state st.
Leave(c, st) ==
    /\ Unlocked
    /\ state' = [state EXCEPT ![proc[c]] = st]
    /\ proc' = [proc EXCEPT ![c] = Nil]
    /\ UNCHANGED <<last_sched, np, search>>

\* yield() on a timer interrupt, also in the middle of fork(); sleep() on any
\* channel; exit() of a process other than init.
Yield(c) == proc[c] # Nil /\ Leave(c, "RUNNABLE") /\ UNCHANGED priority
Sleep(c) == Running(c) /\ Leave(c, "SLEEPING") /\ UNCHANGED priority
Exit(c)  == Running(c) /\ proc[c] # 1 /\ Leave(c, "ZOMBIE") /\ UNCHANGED priority

\* sys_setpriority(): values out of range are refused; a process that lowers
\* itself (a larger value) also yields, before anybody else gets the lock or
\* after.  Mutant: large values are not refused.
AcceptsLarge(n) == ~(n < 0)
Accepts(n) == ~(n < 0 \/ n > MaxPrio)

SetPriority(c) ==
    /\ Running(c) /\ Unlocked
    /\ \E n \in PrioArgs :
        /\ Accepts(n)
        /\ priority' = [priority EXCEPT ![proc[c]] = n]
        /\ \/ n > priority[proc[c]] /\ Leave(c, "RUNNABLE")
           \/ UNCHANGED <<state, proc, last_sched, np, search>>

\* fork(): allocproc() takes the first UNUSED slot and gives it the default
\* priority; then the child inherits its parent's and is published, or the
\* slot is freed because memory ran out.
ForkAlloc(c) ==
    /\ Running(c) /\ Unlocked
    /\ \E q \in Slot :
        /\ state[q] = "UNUSED" /\ \A s \in 1..(q - 1) : state[s] # "UNUSED"
        /\ state' = [state EXCEPT ![q] = "EMBRYO"]
        /\ priority' = [priority EXCEPT ![q] = Default]
        /\ np' = [np EXCEPT ![proc[c]] = q]
    /\ UNCHANGED <<last_sched, proc, search>>

\* Without ptable.lock.
ForkPublish(c) ==
    /\ proc[c] # Nil /\ np[proc[c]] # Nil
    /\ state' = [state EXCEPT ![np[proc[c]]] = "RUNNABLE"]
    /\ priority' = [priority EXCEPT ![np[proc[c]]] = priority[proc[c]]]
    /\ np' = [np EXCEPT ![proc[c]] = Nil]
    /\ UNCHANGED <<last_sched, proc, search>>

ForkFail(c) ==
    /\ proc[c] # Nil /\ np[proc[c]] # Nil
    /\ state' = [state EXCEPT ![np[proc[c]]] = "UNUSED"]
    /\ np' = [np EXCEPT ![proc[c]] = Nil]
    /\ UNCHANGED <<priority, last_sched, proc, search>>

\* wakeup() by a running process or an interrupt; wait() by the parent.
Wakeup(p) ==
    /\ state[p] = "SLEEPING" /\ Unlocked
    /\ state' = [state EXCEPT ![p] = "RUNNABLE"]
    /\ UNCHANGED <<priority, last_sched, proc, np, search>>

Reap(c, p) ==
    /\ Running(c) /\ state[p] = "ZOMBIE" /\ Unlocked
    /\ state' = [state EXCEPT ![p] = "UNUSED"]
    /\ UNCHANGED <<priority, last_sched, proc, np, search>>
----------------------------------------------------------------------------
Init ==
    /\ state = [s \in Slot |-> IF s = 1 THEN "RUNNABLE" ELSE "UNUSED"]
    /\ priority = [s \in Slot |-> IF s = 1 THEN Default ELSE 0]
    /\ last_sched = Nil
    /\ proc = [c \in CPUS |-> Nil]
    /\ np = [s \in Slot |-> Nil]
    /\ searcher = Nil /\ turn = 0 /\ highest_priority = NoneFound /\ before = {}

Next ==
    \/ \E c \in CPUS :
        \/ SearchStart(c) \/ Search(c)
        \/ Yield(c) \/ Sleep(c) \/ Exit(c) \/ SetPriority(c)
        \/ ForkAlloc(c) \/ ForkPublish(c) \/ ForkFail(c)
        \/ \E p \in Slot : Reap(c, p)
    \/ \E p \in Slot : Wakeup(p)

Spec == Init /\ [][Next]_vars

\* Every CPU keeps running its scheduler, the timer keeps interrupting, and a
\* CPU that waits for ptable.lock gets it.
FairSpec ==
    /\ Spec
    /\ \A c \in CPUS : WF_vars(Search(c)) /\ SF_vars(SearchStart(c)) /\ SF_vars(Yield(c))
----------------------------------------------------------------------------
(***************************************************************************)
(* Properties.                                                             *)
(***************************************************************************)

\* Every variable stays in its range, and priorities in 0..200, the range
\* struct proc documents.
TypeOK ==
    /\ state \in [Slot -> {"UNUSED", "EMBRYO", "SLEEPING", "RUNNABLE", "RUNNING",
                           "ZOMBIE"}]
    /\ priority \in [Slot -> 0..MaxPrio]
    /\ last_sched \in Slot \cup {Nil}
    /\ proc \in [CPUS -> Slot \cup {Nil}]
    /\ np \in [Slot -> Slot \cup {Nil}]
    /\ searcher \in CPUS \cup {Nil}
    /\ turn \in 0..(2 * NPROC)
    /\ highest_priority \in 0..NoneFound
    /\ before \subseteq Slot

\* A search that began with a runnable process selects one: the value that
\* the first loop found is still in the table when the others look for it,
\* whatever setpriority() has stored and whatever fork() publishes meanwhile.
WorkConserving == (searcher # Nil /\ turn = 2 * NPROC) => before = {}

\* Priorities stay in range and no CPU goes idle beside work to do.
PickOK == TypeOK /\ WorkConserving

\* No priority inversion: the process that starts to run is as good as every
\* process that was runnable when the CPU began to look, and still is.  (A
\* better child that fork() publishes behind the search is not seen.)
HighestFirst ==
    [][\A p \in Slot : (state[p] = "RUNNABLE" /\ state'[p] = "RUNNING") =>
          \A q \in before : state[q] = "RUNNABLE" /\ priority[p] <= priority[q]]_vars

\* The runnable processes of the smallest priority value.
Top == {s \in Runnable : \A r \in Runnable : priority[s] <= priority[r]}

\* A runnable process that nobody of a better priority is competing with is
\* not passed over for ever by its peers.
TopNotStarved ==
    \A p \in Slot : ~<>[](p \in Top)
=============================================================================
