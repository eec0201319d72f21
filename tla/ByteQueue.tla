----------------------------- MODULE ByteQueue -----------------------------
(***************************************************************************)
(* What a pipe promises: a bounded first-in first-out queue of bytes.      *)
(***************************************************************************)
EXTENDS Naturals, Sequences

CONSTANTS Procs, Bytes, Payloads, Capacity

VARIABLES
    queue,      \* the bytes in the pipe, oldest first
    pending,    \* what is left of each process's write()
    readers     \* the processes that are in a read()

queueVars == <<queue, pending, readers>>

QueueInit ==
    /\ queue = <<>>
    /\ pending = [p \in Procs |-> <<>>]
    /\ readers = {}

\* A process calls write() or read().
QueueWrite(p) ==
    /\ pending[p] = <<>>
    /\ \E s \in Payloads : pending' = [pending EXCEPT ![p] = s]
    /\ UNCHANGED <<queue, readers>>

QueueRead(p) ==
    /\ p \notin readers
    /\ readers' = readers \cup {p}
    /\ UNCHANGED <<queue, pending>>

\* A writer appends the next bytes of its own, and goes on or gives up.
QueuePut(p) ==
    /\ \E n \in 0..Len(pending[p]) :
        /\ Len(queue) + n <= Capacity
        /\ queue' = queue \o SubSeq(pending[p], 1, n)
        /\ \E rest \in {<<>>, SubSeq(pending[p], n + 1, Len(pending[p]))} :
              pending' = [pending EXCEPT ![p] = rest]
    /\ UNCHANGED readers

\* A reader takes bytes from the front, or none, and returns.
QueueGet(p) ==
    /\ p \in readers
    /\ readers' = readers \ {p}
    /\ \E n \in 0..Len(queue) : queue' = SubSeq(queue, n + 1, Len(queue))
    /\ UNCHANGED pending

QueueNext ==
    \E p \in Procs : QueueWrite(p) \/ QueueRead(p) \/ QueuePut(p) \/ QueueGet(p)

QueueSpec == QueueInit /\ [][QueueNext]_queueVars
============================================================================
