------------------------------ MODULE ProcTree ------------------------------
(***************************************************************************)
(* What fork(), exit() and wait() promise user programs: a tree of         *)
(* processes in which each call takes effect at one instant.               *)
(*   status[s]  "free", "live", "waiting" (asleep in wait()) or "zombie"   *)
(*   par[s]     the parent of s, 0 for init and for a free slot            *)
(* Proc implements this specification (ImplementsTree).                    *)
(***************************************************************************)
EXTENDS Naturals

CONSTANT NPROC

Procs == 1..NPROC
None  == 0
Root  == 1                  \* init

VARIABLES status, par

treeVars == <<status, par>>

Kids(p) == {s \in Procs : par[s] = p}
Alive(p) == status[p] \in {"live", "waiting"}

TreeInit ==
    /\ status = [s \in Procs |-> IF s = Root THEN "live" ELSE "free"]
    /\ par = [s \in Procs |-> None]

\* fork(): a free slot becomes a live child of the caller.
TreeFork(p, q) ==
    /\ status[p] = "live" /\ status[q] = "free"
    /\ status' = [status EXCEPT ![q] = "live"]
    /\ par' = [par EXCEPT ![q] = p]

\* exit(): the process becomes a zombie and its children those of init, which
\* does not stay asleep when one of them is a zombie.  Its parent has been
\* woken before.
TreeExit(p) ==
    /\ p # Root /\ status[p] = "live"
    /\ status[par[p]] = "live"
    /\ status' =
         LET inherits == \E s \in Kids(p) : status[s] = "zombie"
         IN  [status EXCEPT ![p] = "zombie",
                            ![Root] = IF inherits THEN "live" ELSE @]
    /\ par' = [s \in Procs |-> IF par[s] = p THEN Root ELSE par[s]]

\* wait() finds a zombie child and frees its slot.
TreeReap(p, z) ==
    /\ status[p] = "live" /\ status[z] = "zombie" /\ par[z] = p
    /\ status' = [status EXCEPT ![z] = "free"]
    /\ par' = [par EXCEPT ![z] = None]

\* wait() blocks: only with children, none of which has exited.
TreeWait(p) ==
    /\ status[p] = "live"
    /\ Kids(p) # {} /\ \A s \in Kids(p) : status[s] # "zombie"
    /\ status' = [status EXCEPT ![p] = "waiting"]
    /\ UNCHANGED par

\* A process blocked in wait() is woken (a child is exiting, or kill()).
TreeWake(p) ==
    /\ status[p] = "waiting"
    /\ status' = [status EXCEPT ![p] = "live"]
    /\ UNCHANGED par

TreeNext ==
    \E p \in Procs :
        \/ TreeExit(p) \/ TreeWait(p) \/ TreeWake(p)
        \/ \E q \in Procs : TreeFork(p, q) \/ TreeReap(p, q)

TreeSpec == TreeInit /\ [][TreeNext]_treeVars

\* The consequence user programs rely on: a process blocked in wait() has
\* children and none of them has exited, and every parent is alive.
TreeSound ==
    \A p \in Procs :
        /\ status[p] = "waiting" =>
              Kids(p) # {} /\ \A s \in Kids(p) : status[s] # "zombie"
        /\ par[p] # None => Alive(par[p])
=============================================================================
