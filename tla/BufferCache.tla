---------------------------- MODULE BufferCache ----------------------------
(***************************************************************************)
(* The buffer cache (kernel/bio.c) and the IDE driver (kernel/ide.c), used *)
(* by several processes.                                                   *)
(*                                                                         *)
(* The sections under bcache.lock and idelock are short and are one action *)
(* each; sleep() gives the lock up and falls asleep in one step (module    *)
(* Proc has the details).  A process sleeps on the buffer cur: in bget()   *)
(* until its holder releases it, in iderw() until the disk has done it.    *)
(* Both wait on the same channel, the address of the buffer.               *)
(***************************************************************************)
EXTENDS Naturals, Sequences, SequencesExt, FiniteSets

CONSTANTS
    Procs,      \* the processes in the file system
    NBUF,       \* buffers
    Sectors,    \* blocks of the disk
    Outer,      \* indirect blocks: read and held while others are read
    Vals,       \* versions of a block's contents
    Fresh,      \* the version on the disk at boot
    Nobody,     \* not a process
    ReadErrors  \* whether the disk may report an error for a read

ASSUME BufferCacheAssumption ==
    /\ NBUF \in Nat \ {0}
    /\ Sectors \subseteq Nat \ {0}
    /\ Outer \subseteq Sectors
    /\ Fresh \in Vals
    /\ Nobody \notin Procs
    /\ ReadErrors \in BOOLEAN

Buf    == 1..NBUF
NoBuf  == 0
NoDev  == 0                         \* b->dev == -1: caches no block
Data   == Sectors \X Vals           \* contents of a block
Junk   == <<NoDev, Fresh>>          \* contents of a buffer never read into
Idle   == [op |-> "idle"]           \* a controller without a command

VARIABLES
    buf,        \* struct buf: sector, busy, valid, dirty, data
    lru,        \* the list bcache.head, most recently used first
    disk,       \* the blocks on the disk
    idequeue,   \* requests, the first one being served
    ctl,        \* the disk controller: its command and whether it is done
    pc,         \* where each process stands
    want,       \* the sector a process is looking for in bget()
    cur,        \* the buffer it sleeps on, or does I/O on
    held        \* the buffers it has from bread(), the latest last

cache == <<buf, lru>>
ide   == <<disk, idequeue, ctl>>
vars  == <<cache, ide, pc, want, cur, held>>

\* A process has called panic(): the machine stops.
Panicked == \E p \in Procs : pc[p] = "panic"

\* Process p is at point k of a machine that has not stopped.
At(p, k) == ~Panicked /\ pc[p] = k

\* wakeup(b) on the process points m.
Woken(m, b) ==
    [p \in Procs |-> IF m[p] = "bget_sleep" /\ cur[p] = b THEN "bget"
                     ELSE IF m[p] = "io_sleep" /\ cur[p] = b THEN "io_test"
                     ELSE m[p]]
----------------------------------------------------------------------------
(***************************************************************************)
(* bio.c.                                                                  *)
(***************************************************************************)

\* What fs.c reads while it holds buffers: an indirect block is held while
\* bitmap, superblock or data blocks are read one after the other (bmap,
\* itrunc), and nothing is read while one of those is held.  Mutant: any
\* block is read while any other is held.
MayReadAny(p, s) == Len(held[p]) < 2 /\ \A i \in 1..Len(held[p]) : buf[held[p][i]].sector # s
MayRead(p, s) ==
    \/ held[p] = <<>>
    \/ Len(held[p]) = 1 /\ buf[held[p][1]].sector \in Outer /\ s \notin Outer

\* A caller in fs.c calls bread(dev, s).
Bread(p) ==
    /\ At(p, "run")
    /\ \E s \in Sectors : MayRead(p, s) /\ want' = [want EXCEPT ![p] = s]
    /\ pc' = [pc EXCEPT ![p] = "bget"]
    /\ UNCHANGED <<cache, ide, cur, held>>

\* The buffers the first loop of bget() finds.  Mutant: it skips busy ones.
CachesIdle(s) == {b \in Buf : buf[b].sector = s /\ ~buf[b].busy}
Caches(s) == {b \in Buf : buf[b].sector = s}

\* !(b->flags & B_BUSY).
Free(b) == ~buf[b].busy

\* bget(): cached and free.  bread() reads it from the disk unless valid.
BgetHit(p) ==
    /\ At(p, "bget")
    /\ \E b \in Caches(want[p]) :
        /\ Free(b)
        /\ buf' = [buf EXCEPT ![b].busy = TRUE]
        /\ held' = [held EXCEPT ![p] = Append(@, b)]
        /\ pc' = [pc EXCEPT ![p] = IF buf[b].valid THEN "run" ELSE "iderw"]
    /\ want' = [want EXCEPT ![p] = NoDev]
    /\ cur' = [cur EXCEPT ![p] = NoBuf]
    /\ UNCHANGED <<lru, ide>>

\* bget(): cached and busy: sleep(b, &bcache.lock), then start over.
BgetSleep(p) ==
    /\ At(p, "bget")
    /\ \E b \in Caches(want[p]) :
        /\ ~Free(b)
        /\ cur' = [cur EXCEPT ![p] = b]
    /\ pc' = [pc EXCEPT ![p] = "bget_sleep"]
    /\ UNCHANGED <<cache, ide, want, held>>

\* The least recently used buffer that is not busy, as the second loop of
\* bget() finds it.
Idlest(b) ==
    /\ Free(b)
    /\ \E i \in 1..NBUF : lru[i] = b /\ \A j \in (i + 1)..NBUF : ~Free(lru[j])

\* b->flags = B_BUSY.  Mutant: b->flags |= B_BUSY keeps B_VALID.
RecycledValid(b, s) == [buf[b] EXCEPT !.sector = s, !.busy = TRUE]
Recycled(b, s) ==
    [buf[b] EXCEPT !.sector = s, !.busy = TRUE, !.valid = FALSE, !.dirty = FALSE]

\* bget(): not cached; recycle a buffer, which bread() then reads.
BgetFresh(p) ==
    /\ At(p, "bget")
    /\ Caches(want[p]) = {}
    /\ \E b \in Buf :
        /\ Idlest(b)
        /\ buf' = [buf EXCEPT ![b] = Recycled(b, want[p])]
        /\ held' = [held EXCEPT ![p] = Append(@, b)]
        /\ pc' = [pc EXCEPT ![p] = IF buf'[b].valid THEN "run" ELSE "iderw"]
    /\ want' = [want EXCEPT ![p] = NoDev]
    /\ cur' = [cur EXCEPT ![p] = NoBuf]
    /\ UNCHANGED <<lru, ide>>

\* bget(): panic("bget: no buffers").
BgetPanic(p) ==
    /\ At(p, "bget")
    /\ Caches(want[p]) = {} /\ \A b \in Buf : ~Free(b)
    /\ pc' = [pc EXCEPT ![p] = "panic"]
    /\ UNCHANGED <<cache, ide, want, cur, held>>

\* The caller changes the block and calls bwrite().
Bwrite(p) ==
    /\ At(p, "run") /\ held[p] # <<>>
    /\ LET b == Last(held[p]) IN
        \E v \in Vals :
            buf' = [buf EXCEPT ![b].data = <<buf[b].sector, v>>, ![b].dirty = TRUE]
    /\ pc' = [pc EXCEPT ![p] = "iderw"]
    /\ UNCHANGED <<lru, ide, want, cur, held>>

\* brelse() moves the buffer to the front of the list: those that were in
\* front of it move back by one.
Relinked(b) ==
    LET at == CHOOSE i \in 1..NBUF : lru[i] = b
    IN  [i \in 1..NBUF |-> IF i = 1 THEN b ELSE IF i <= at THEN lru[i - 1] ELSE lru[i]]

Brelse(p) ==
    /\ At(p, "run") /\ held[p] # <<>>
    /\ LET b == Last(held[p]) IN
        /\ buf' = [buf EXCEPT ![b].busy = FALSE]
        /\ lru' = Relinked(b)
        /\ pc' = Woken(pc, b)
    /\ held' = [held EXCEPT ![p] = Front(@)]
    /\ UNCHANGED <<ide, want, cur>>
----------------------------------------------------------------------------
(***************************************************************************)
(* ide.c.                                                                  *)
(***************************************************************************)

\* idestart(b): the command the controller is given.
Command(b) ==
    [op |-> IF b.dirty THEN "write" ELSE "read",
     sector |-> b.sector, data |-> b.data, done |-> FALSE]

\* iderw(): append to the queue, start the disk if it was idle, and sleep: the
\* buffer is not valid or is dirty, so the loop is entered.  Mutant: the
\* request is put in front.
EnqueuedFirst(b) == <<b>> \o idequeue
Enqueued(b) == Append(idequeue, b)

Iderw(p) ==
    /\ At(p, "iderw")
    /\ LET b == Last(held[p]) IN
        /\ idequeue' = Enqueued(b)
        /\ ctl' = IF Head(idequeue') = b THEN Command(buf[b]) ELSE ctl
        /\ cur' = [cur EXCEPT ![p] = b]
    /\ pc' = [pc EXCEPT ![p] = "io_sleep"]
    /\ UNCHANGED <<cache, disk, want, held>>

\* iderw(), awake: sleep again unless the request is done.
IderwTest(p) ==
    /\ At(p, "io_test")
    /\ LET b    == cur[p]
           done == buf[b].valid /\ ~buf[b].dirty
       IN  /\ pc' = [pc EXCEPT ![p] = IF done THEN "run" ELSE "io_sleep"]
           /\ cur' = [cur EXCEPT ![p] = IF done THEN NoBuf ELSE b]
    /\ UNCHANGED <<cache, ide, want, held>>

\* The disk executes its command.
DiskDone ==
    /\ ~Panicked
    /\ ctl # Idle /\ ~ctl.done
    /\ IF ctl.op = "write"
       THEN /\ disk' = [disk EXCEPT ![ctl.sector] = ctl.data]
            /\ ctl' = [ctl EXCEPT !.done = TRUE]
       ELSE /\ ctl' = [ctl EXCEPT !.done = TRUE, !.data = disk[ctl.sector]]
            /\ UNCHANGED disk
    /\ UNCHANGED <<cache, idequeue, pc, want, cur, held>>

\* What ideintr() leaves in buffer b: a read transfers the data unless
\* idewait(1) reports an error.
Transferred(b, err) ==
    [b EXCEPT !.data = IF ~b.dirty /\ ~err THEN ctl.data ELSE @,
              !.valid = TRUE, !.dirty = FALSE]

\* Start the disk on the next request.  Mutant: it is left idle.
NextCommandNone(q) == Idle
NextCommand(q) == IF q = <<>> THEN Idle ELSE Command(buf[Head(q)])

\* ideintr(), on the interrupt of a finished command.  (With an empty queue
\* it returns at once.)
Ideintr ==
    /\ ~Panicked
    /\ ctl # Idle /\ ctl.done
    /\ idequeue # <<>>
    /\ idequeue' = Tail(idequeue)
    /\ LET b == Head(idequeue) IN
        /\ \E err \in {FALSE, ReadErrors} :
              buf' = [buf EXCEPT ![b] = Transferred(@, err)]
        /\ pc' = Woken(pc, b)
    /\ ctl' = NextCommand(idequeue')
    /\ UNCHANGED <<lru, disk, want, cur, held>>
----------------------------------------------------------------------------
\* After binit() and ideinit(); each buffer was put in front of the list.
Init ==
    /\ buf = [b \in Buf |-> [sector |-> NoDev, busy |-> FALSE, valid |-> FALSE,
                             dirty |-> FALSE, data |-> Junk]]
    /\ lru = [i \in 1..NBUF |-> NBUF + 1 - i]
    /\ disk = [s \in Sectors |-> <<s, Fresh>>]
    /\ idequeue = <<>>
    /\ ctl = Idle
    /\ pc = [p \in Procs |-> "run"]
    /\ want = [p \in Procs |-> NoDev]
    /\ cur = [p \in Procs |-> NoBuf]
    /\ held = [p \in Procs |-> <<>>]

\* What process p does on its own account once it has called bread() or
\* bwrite().
Step(p) ==
    \/ BgetHit(p) \/ BgetSleep(p) \/ BgetFresh(p) \/ BgetPanic(p)
    \/ Iderw(p) \/ IderwTest(p)

\* panic() spins for ever.
Halt == Panicked /\ UNCHANGED vars

Next ==
    \/ \E p \in Procs : Step(p) \/ Bread(p) \/ Bwrite(p) \/ Brelse(p)
    \/ DiskDone \/ Ideintr \/ Halt

Spec == Init /\ [][Next]_vars

\* The disk executes its command and interrupts, and a CPU takes the interrupt.
\* Nothing is assumed of the processes: no scheduler need run them.
Fairness == WF_vars(DiskDone) /\ WF_vars(Ideintr)

FairSpec == Spec /\ Fairness
----------------------------------------------------------------------------
(***************************************************************************)
(* Properties.                                                             *)
(***************************************************************************)

\* Every variable stays in its range.
TypeOK ==
    /\ buf \in [Buf -> [sector : Sectors \cup {NoDev}, busy : BOOLEAN, valid : BOOLEAN,
                        dirty : BOOLEAN, data : Data \cup {Junk}]]
    /\ lru \in [1..NBUF -> Buf]
    /\ disk \in [Sectors -> Data]
    /\ idequeue \in Seq(Buf)
    /\ ctl \in {Idle} \cup [op : {"read", "write"}, sector : Sectors,
                            data : Data \cup {Junk}, done : BOOLEAN]
    /\ pc \in [Procs -> {"run", "bget", "bget_sleep", "iderw", "io_sleep", "io_test", "panic"}]
    /\ want \in [Procs -> Sectors \cup {NoDev}]
    /\ cur \in [Procs -> Buf \cup {NoBuf}]
    /\ held \in [Procs -> Seq(Buf)]

Holds(p, b) == \E i \in 1..Len(held[p]) : held[p][i] = b

\* "Only one process at a time can use a buffer": B_BUSY says exactly that a
\* process holds the buffer, and only one does.
BusyHeld ==
    \A b \in Buf :
        /\ buf[b].busy <=> \E p \in Procs : Holds(p, b)
        /\ \A p, q \in Procs : Holds(p, b) /\ Holds(q, b) => p = q

\* A block is cached once: two processes that race for an uncached block, or
\* for one whose buffer is recycled while they sleep, meet in one buffer.
OneCopy ==
    \A b, d \in Buf :
        (b # d /\ buf[b].sector # NoDev) => buf[b].sector # buf[d].sector

\* B_VALID: "the buffer data has been initialized with the associated disk
\* block contents" (bio.c).  A valid buffer equals its block on the disk
\* unless it is being written, and a process that is back from bread() or
\* bwrite() holds such buffers only: reads are never stale, and a block whose
\* bwrite() has returned survives a crash.
ValidSynced ==
    /\ \A b \in Buf :
          (buf[b].valid /\ ~buf[b].dirty) => buf[b].data = disk[buf[b].sector]
    /\ \A p \in Procs :
          pc[p] = "run" => \A i \in 1..Len(held[p]) :
                              buf[held[p][i]].valid /\ ~buf[held[p][i]].dirty

\* The cache is coherent: every buffer has one user at most, every block one
\* copy, and no copy is stale, whatever races for it.
Coherent == TypeOK /\ BusyHeld /\ OneCopy /\ ValidSynced

\* The request queue: a buffer is queued once and only while the process that
\* holds it waits in iderw(), and the disk works for the first one.
QueueServed ==
    /\ \A i, j \in 1..Len(idequeue) : i # j => idequeue[i] # idequeue[j]
    /\ \A i \in 1..Len(idequeue) :
          \E p \in Procs : pc[p] = "io_sleep" /\ cur[p] = idequeue[i] /\ Holds(p, idequeue[i])
    /\ ctl = Idle <=> idequeue = <<>>
    /\ ctl # Idle => /\ ctl.sector = buf[Head(idequeue)].sector
                     /\ ctl.op = "write" <=> buf[Head(idequeue)].dirty

\* No wakeup is lost, although bget() and iderw() sleep on one channel: a
\* process asleep in bget() sleeps on a buffer that is held by another and
\* still caches the block it wants; one asleep in iderw() is still queued.
NoLostWakeup ==
    \A p \in Procs :
        /\ pc[p] = "bget_sleep" =>
              /\ buf[cur[p]].busy /\ ~Holds(p, cur[p])
              /\ buf[cur[p]].sector = want[p]
        /\ pc[p] = "io_sleep" => cur[p] \in {idequeue[i] : i \in 1..Len(idequeue)}

\* No request and no wakeup is lost between bget(), iderw() and ideintr().
RequestsKept == QueueServed /\ NoLostWakeup

\* p waits for a buffer that q holds.
WaitsFor(p, q) == pc[p] = "bget_sleep" /\ Holds(q, cur[p])

\* Nobody waits for himself through others, although bmap() and itrunc() read
\* blocks while they hold another.
NoCircularWait ==
    \A S \in SUBSET Procs :
        S # {} => \E p \in S : \A q \in S : ~WaitsFor(p, q)

\* The sleeper of iderw() is awake and will find its request done.
IoOver(p) == pc[p] = "io_test" /\ buf[cur[p]].valid /\ ~buf[cur[p]].dirty

\* Every request is served and its process woken, unless the machine stops,
\* however many requests others make meanwhile.
IoServed == \A p \in Procs : pc[p] = "io_sleep" ~> (IoOver(p) \/ Panicked)

\* The contents callers see: of the buffer if there is one, else of the disk.
Contents ==
    [s \in Sectors |->
        IF \E b \in Caches(s) : buf[b].valid \/ buf[b].dirty
        THEN buf[CHOOSE b \in Caches(s) : TRUE].data ELSE disk[s]]

HolderOf ==
    [s \in Sectors |->
        IF \E p \in Procs, b \in Caches(s) : Holds(p, b)
        THEN CHOOSE p \in Procs : \E b \in Caches(s) : Holds(p, b) ELSE Nobody]

Store == INSTANCE BlockStore WITH store <- Contents, holder <- HolderOf

\* The cache implements a store of blocks with exclusive access.
ImplementsStore == Store!StoreSpec
============================================================================
