-------------------------------- MODULE Pipe --------------------------------
(***************************************************************************)
(* A pipe (kernel/pipe.c), shared through the reference counts of its two  *)
(* open files (kernel/file.c) by processes that fork, read, write, close,  *)
(* are killed and exit.                                                    *)
(*                                                                         *)
(* "r" and "w" name the two ends.  One action is one section under the     *)
(* pipe's lock: from acquire(), or from waking up, to the next sleep() or  *)
(* to the return.  kill() does not take that lock, so the decision to      *)
(* sleep (doze, lock held) and the sleep itself are two steps.             *)
(***************************************************************************)
EXTENDS Naturals, Sequences, FiniteSets

CONSTANTS
    Procs,
    Creator,    \* the process that called pipe()
    Nobody,     \* not a process
    PIPESIZE,
    CountMod,   \* the width of nread and nwrite (2^32 in the code)
    Bytes,
    Junk,       \* what the page of a new pipe holds
    Victims,    \* the processes that are killed in this instance
    Payloads,   \* what user code passes to write()
    ReadSizes   \* the lengths user code passes to read()

ASSUME PipeAssumption ==
    /\ Creator \in Procs /\ Nobody \notin Procs
    /\ PIPESIZE \in Nat \ {0}
    /\ CountMod \in Nat /\ CountMod > PIPESIZE /\ CountMod % PIPESIZE = 0
    /\ Victims \subseteq Procs
    /\ Junk \notin Bytes
    /\ Payloads \subseteq Seq(Bytes)
    /\ ReadSizes \subseteq Nat

Ends == {"r", "w"}
Other(e) == IF e = "r" THEN "w" ELSE "r"

VARIABLES
    data, nread, nwrite, open,  \* struct pipe; open: readopen and writeopen
    freed,                      \* the page of the struct pipe was kfree()d
    plock,                      \* the process that holds p->lock, or Nobody
    ref,                        \* f->ref of the two files
    fds,                        \* the ends each process has open
    closing,                    \* the end whose last reference it just dropped
    pc, killed,
    out, want                   \* bytes still to write; length to be read

ring  == <<data, nread, nwrite>>
files == <<ref, fds, closing>>
vars  == <<ring, open, freed, plock, files, pc, killed, out, want>>

\* p->nwrite - p->nread, the bytes in the pipe.  Mutant: the counters are
\* subtracted without regard for their width.
CountNarrow == IF nwrite >= nread THEN nwrite - nread ELSE 0
Count == (nwrite + CountMod - nread) % CountMod

\* Process p is at point k, not in the middle of fileclose().
At(p, k) == pc[p] = k /\ closing[p] = "none"

\* wakeup() of those that sleep in a read ("r") or a write ("w").
Woken(m, e) ==
    [p \in Procs |-> IF e = "r" /\ m[p] = "r_sleep" THEN "read"
                     ELSE IF e = "w" /\ m[p] = "w_sleep" THEN "write" ELSE m[p]]

Smaller(m, n) == IF m < n THEN m ELSE n
-----------------------------------------------------------------------------
(***************************************************************************)
(* System calls of user code.                                              *)
(***************************************************************************)

\* write() of some bytes, and read() of some length, on an open end.
CallWrite(p) ==
    /\ At(p, "run") /\ ~killed[p] /\ "w" \in fds[p]
    /\ \E s \in Payloads : out' = [out EXCEPT ![p] = s]
    /\ pc' = [pc EXCEPT ![p] = "write"]
    /\ UNCHANGED <<ring, open, freed, plock, files, killed, want>>

CallRead(p) ==
    /\ At(p, "run") /\ ~killed[p] /\ "r" \in fds[p]
    /\ \E n \in ReadSizes : want' = [want EXCEPT ![p] = n]
    /\ pc' = [pc EXCEPT ![p] = "read"]
    /\ UNCHANGED <<ring, open, freed, plock, files, killed, out>>

\* fork(): the child q shares the open files.  Mutant: no filedup().
DupNot(p) == ref
Dup(p) == [e \in Ends |-> IF e \in fds[p] THEN ref[e] + 1 ELSE ref[e]]

Fork(p) ==
    /\ At(p, "run") /\ ~killed[p]
    /\ \E q \in Procs :
        /\ pc[q] = "none"
        /\ fds' = [fds EXCEPT ![q] = fds[p]]
        /\ pc' = [pc EXCEPT ![q] = "run"]
    /\ ref' = Dup(p)
    /\ UNCHANGED <<ring, open, freed, plock, closing, killed, out, want>>

\* kill() marks the process and wakes it, without the pipe's lock.
Kill(p) ==
    /\ p \in Victims /\ pc[p] # "none" /\ ~killed[p]
    /\ killed' = [killed EXCEPT ![p] = TRUE]
    /\ pc' = [pc EXCEPT ![p] = IF @ = "r_sleep" THEN "read"
                               ELSE IF @ = "w_sleep" THEN "write" ELSE @]
    /\ UNCHANGED <<ring, open, freed, plock, files, out, want>>

\* fileclose() under ftable.lock, from close() or from exit(), which closes
\* one end after the other; a killed process does nothing else.  The pipe
\* itself is closed after ftable.lock is released.
Fileclose(p) ==
    /\ At(p, "run")
    /\ \E e \in fds[p] :
        /\ fds' = [fds EXCEPT ![p] = @ \ {e}]
        /\ ref' = [ref EXCEPT ![e] = @ - 1]
        /\ closing' = [closing EXCEPT ![p] = IF ref'[e] > 0 THEN "none" ELSE e]
    /\ UNCHANGED <<ring, open, freed, plock, pc, killed, out, want>>
-----------------------------------------------------------------------------
(***************************************************************************)
(* pipe.c, with the pipe's lock.                                           *)
(***************************************************************************)

\* Whom the close of end e wakes: the sleepers of the other end.  Mutant: its
\* own.
ClosedWakes(e) == e
CloseWakes(e) == Other(e)

\* pipeclose(); the last one frees the pipe.
Pipeclose(p) ==
    /\ closing[p] # "none" /\ plock = Nobody
    /\ open' = [open EXCEPT ![closing[p]] = FALSE]
    /\ pc' = Woken(pc, CloseWakes(closing[p]))
    /\ freed' = \A e \in Ends : ~open'[e]
    /\ closing' = [closing EXCEPT ![p] = "none"]
    /\ UNCHANGED <<ring, plock, ref, fds, killed, out, want>>

\* The ring after n bytes of s were written at nwrite.
Stored(s, n) ==
    [i \in 0..(PIPESIZE - 1) |->
        IF \E k \in 1..n : (nwrite + k - 1) % PIPESIZE = i
        THEN s[CHOOSE k \in 1..n : (nwrite + k - 1) % PIPESIZE = i]
        ELSE data[i]]

\* The bytes pipewrite() finds room for.
Room(p) == Smaller(PIPESIZE - Count, Len(out[p]))

\* pipewrite(): copy what fits; then return, or fail, or wake the readers and
\* decide to sleep.
Pipewrite(p) ==
    /\ At(p, "write") /\ plock = Nobody
    /\ LET n    == Room(p)
           rest == SubSeq(out[p], n + 1, Len(out[p]))
       IN  /\ data' = Stored(out[p], n)
           /\ nwrite' = (nwrite + n) % CountMod
           /\ \/ /\ rest = <<>>
                 /\ pc' = [Woken(pc, "r") EXCEPT ![p] = "run"]
                 /\ out' = [out EXCEPT ![p] = <<>>]
                 /\ UNCHANGED plock
              \/ /\ rest # <<>> /\ (~open["r"] \/ killed[p])
                 /\ pc' = [pc EXCEPT ![p] = "run"]
                 /\ out' = [out EXCEPT ![p] = <<>>]
                 /\ UNCHANGED plock
              \/ /\ rest # <<>> /\ open["r"] /\ ~killed[p]
                 /\ pc' = [Woken(pc, "r") EXCEPT ![p] = "w_doze"]
                 /\ out' = [out EXCEPT ![p] = rest]
                 /\ plock' = p
    /\ UNCHANGED <<nread, open, freed, files, killed, want>>

\* piperead(): fail if killed or decide to sleep while the pipe is empty and
\* can still be written; else take what is there and wake the writers.
PipereadEmpty(p) ==
    /\ At(p, "read") /\ plock = Nobody
    /\ Count = 0 /\ open["w"]
    /\ \/ /\ killed[p]
          /\ pc' = [pc EXCEPT ![p] = "run"]
          /\ want' = [want EXCEPT ![p] = 0]
          /\ UNCHANGED plock
       \/ /\ ~killed[p]
          /\ pc' = [pc EXCEPT ![p] = "r_doze"]
          /\ plock' = p
          /\ UNCHANGED want
    /\ UNCHANGED <<ring, open, freed, files, killed, out>>

\* wakeup(&p->nwrite).  Mutant: only a reader that empties the pipe calls it.
ReadWakesIfEmpty(n) == IF n = Count THEN Woken(pc, "w") ELSE pc
ReadWakes(n) == Woken(pc, "w")

Piperead(p) ==
    /\ At(p, "read") /\ plock = Nobody
    /\ Count # 0 \/ ~open["w"]
    /\ LET n == Smaller(Count, want[p])
       IN  /\ nread' = (nread + n) % CountMod
           /\ pc' = [ReadWakes(n) EXCEPT ![p] = "run"]
    /\ want' = [want EXCEPT ![p] = 0]
    /\ UNCHANGED <<data, nwrite, open, freed, plock, files, killed, out>>

\* sleep(&p->nread, &p->lock) and sleep(&p->nwrite, &p->lock).
Sleep(p) ==
    /\ plock = p
    /\ pc' = [pc EXCEPT ![p] = IF @ = "r_doze" THEN "r_sleep" ELSE "w_sleep"]
    /\ plock' = Nobody
    /\ UNCHANGED <<ring, open, freed, files, killed, out, want>>
-----------------------------------------------------------------------------
\* After pipealloc() by Creator.
Init ==
    /\ data = [i \in 0..(PIPESIZE - 1) |-> Junk]
    /\ nread = 0 /\ nwrite = 0
    /\ open = [e \in Ends |-> TRUE]
    /\ freed = FALSE
    /\ plock = Nobody
    /\ ref = [e \in Ends |-> 1]
    /\ fds = [p \in Procs |-> IF p = Creator THEN Ends ELSE {}]
    /\ closing = [p \in Procs |-> "none"]
    /\ pc = [p \in Procs |-> IF p = Creator THEN "run" ELSE "none"]
    /\ killed = [p \in Procs |-> FALSE]
    /\ out = [p \in Procs |-> <<>>]
    /\ want = [p \in Procs |-> 0]

\* The kernel's part: everything but what user code chooses to do.
Step(p) ==
    \/ Pipewrite(p) \/ PipereadEmpty(p) \/ Piperead(p) \/ Sleep(p)
    \/ Pipeclose(p)

Next ==
    \E p \in Procs :
        Step(p) \/ CallWrite(p) \/ CallRead(p) \/ Fork(p) \/ Kill(p) \/ Fileclose(p)

Spec == Init /\ [][Next]_vars

\* A process that holds the pipe's lock cannot be interrupted: it goes on to
\* sleep().  Nothing is assumed of the scheduler.
FairSpec == Spec /\ \A p \in Procs : WF_vars(Sleep(p))
-----------------------------------------------------------------------------
(***************************************************************************)
(* Properties.                                                             *)
(***************************************************************************)

\* Every variable stays in its range: the counters wrap and the ring is never
\* overrun.
TypeOK ==
    /\ data \in [0..(PIPESIZE - 1) -> Bytes \cup {Junk}]
    /\ nread \in 0..(CountMod - 1) /\ nwrite \in 0..(CountMod - 1)
    /\ Count <= PIPESIZE
    /\ open \in [Ends -> BOOLEAN] /\ freed \in BOOLEAN
    /\ plock \in Procs \cup {Nobody}
    /\ ref \in [Ends -> Nat]
    /\ fds \in [Procs -> SUBSET Ends]
    /\ closing \in [Procs -> Ends \cup {"none"}]
    /\ pc \in [Procs -> {"none", "run", "read", "r_doze", "r_sleep",
                         "write", "w_doze", "w_sleep"}]
    /\ killed \in [Procs -> BOOLEAN]
    /\ out \in [Procs -> Seq(Bytes)]
    /\ want \in [Procs -> ReadSizes \cup {0}]

Reading(p) == pc[p] \in {"read", "r_doze", "r_sleep"}
Writing(p) == pc[p] \in {"write", "w_doze", "w_sleep"}

\* The pipe is freed once and not while anybody can still reach it: f->ref
\* counts the processes that have the end open, an end is open while it has
\* references or its last close is on the way, and nobody is inside the pipe,
\* or about to close it, when its page is gone.
NoUseAfterFree ==
    /\ \A e \in Ends : ref[e] = Cardinality({p \in Procs : e \in fds[p]})
    /\ \A e \in Ends : open[e] <=> ref[e] > 0 \/ \E p \in Procs : closing[p] = e
    /\ \A p \in Procs :
          /\ Reading(p) => ~freed /\ open["r"]
          /\ Writing(p) => ~freed /\ open["w"]
          /\ closing[p] # "none" => ~freed

\* The ring is never overrun and the pipe outlives its users.
EndsOK == TypeOK /\ NoUseAfterFree

\* No wakeup is lost: a process asleep in piperead() finds the pipe empty and
\* still written to, one asleep in pipewrite() finds it full and still read.
\* (Once a process has been killed this fails: a killed writer that has filled
\* the pipe returns without waking the readers, and a kill() between the test
\* of killed and sleep() is not noticed.)
NoLostWakeup ==
    (\A p \in Procs : ~killed[p]) =>
        \A p \in Procs :
            /\ pc[p] = "r_sleep" => Count = 0 /\ open["w"]
            /\ pc[p] = "w_sleep" => Count = PIPESIZE /\ open["r"]

\* p is inside the pipe and the other end is closed.
Alone(p) ==
    \/ Writing(p) /\ ~open["r"]
    \/ Reading(p) /\ ~open["w"]

\* Whoever is in the pipe when the other end is closed returns, also when
\* kill() and close() race, if only he himself is given the CPU and the lock
\* whenever he asks for them: nobody else need run, ever.
CloseNoticed ==
    \A p \in Procs : SF_vars(Step(p)) => (Alone(p) ~> ~Alone(p))

\* The bytes in the pipe, oldest first.
Queue == [i \in 1..Count |-> data[(nread + i - 1) % PIPESIZE]]

Fifo == INSTANCE ByteQueue WITH
            Capacity <- PIPESIZE, queue <- Queue, pending <- out,
            readers <- {p \in Procs : Reading(p)}

\* The ring with its wrapping counters implements a bounded queue: bytes go in
\* in the order of each write(), stay in order, and leave it only to a reader.
ImplementsQueue == Fifo!QueueSpec
=============================================================================
