----------------------------- MODULE PriorityRR -----------------------------
(***************************************************************************)
(* Round robin, stated with a history variable: ahead[p] is the set of     *)
(* processes that have been picked since p last became runnable, and have  *)
(* had p's priority ever since.                                            *)
(***************************************************************************)
EXTENDS Priority

VARIABLE ahead

Picked(q) == state[q] = "RUNNABLE" /\ state'[q] = "RUNNING"

Peers(p, q) == p # q /\ state[p] = "RUNNABLE" /\ priority[p] = priority[q]

HistInit == Init /\ ahead = [s \in Slot |-> {}]

HistNext ==
    /\ Next
    /\ ahead' = [p \in Slot |->
                   IF state'[p] # "RUNNABLE" THEN {}
                   ELSE {q \in Slot : /\ q \in ahead[p] \/ (Picked(q) /\ Peers(p, q))
                                      /\ priority'[q] = priority'[p]}]

HistSpec == HistInit /\ [][HistNext]_<<vars, ahead>>

\* "Round-robin among processes with highest priority": nobody is picked a
\* second time while a peer that was runnable all along still waits.
RoundRobin ==
    [][\A p, q \in Slot : (Picked(q) /\ Peers(p, q)) => q \notin ahead[p]]_<<vars, ahead>>
=============================================================================
