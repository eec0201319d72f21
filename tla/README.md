# A TLA+ verification of the xv6 kernels of this repository

The repository holds two xv6 kernels for a class, `A_xv6_patched` (a lottery
scheduler, CPU time counters, `getpinfo`, `settickets`) and `B_xv6_patched` (a
priority scheduler, `getpinfo`, `setpriority`).  They share almost all of
`kernel/` and `user/`; "A" and "B" below name the trees.  This project models
the kernel from the process table to the file system, and the programs around
it that have something to get wrong: the shell, the tests and the image tool.

## Inventory

| component | state | operations | interacts through | hard about it |
|---|---|---|---|---|
| process table (`proc.c`) | `struct proc`: state, pid, parent, killed, chan, kstack; `nextpid`; `cpu->proc` | allocproc, fork, exit, wait, kill, sleep, wakeup, yield, sched, scheduler | `ptable.lock`, handed from thread to thread by `swtch` | a lock released by another thread than the one that took it; fork works on an EMBRYO slot without the lock; B publishes without it |
| traps, ticks (`trap.c`, `sysproc.c`) | `ticks` | timer interrupt, system call entry and exit, sys_sleep | `tickslock`, then `ptable.lock` | preemption at any point with interrupts enabled; a wrapping counter; `killed` tested without the lock |
| lottery scheduler (A `proc.c`) | tickets, ticks, numTicks, rand_next | random, scheduler, settickets, fork | `ptable.lock` | integer overflow, a multiplicative generator, starvation |
| priority scheduler (B `proc.c`, `sysproc.c`) | priority, last_sched | scheduler, setpriority | `ptable.lock` | one round-robin index for all levels and CPUs; fork publishes between the loops of a search |
| process information (`getpinfo`, both) | the caller's `struct pstat` | getpinfo | `ptable.lock`, which fork of B does not take | skips slots, compacts (B), writes into a buffer it does not clear, while forks end |
| spinlocks (`spinlock.c`) | locked, cpu, ncli, intena | acquire, release, pushcli, popcli | | nesting of disabled interrupts |
| buffer cache (`bio.c`) | buffers with flags, LRU list | bread, bwrite, brelse | `bcache.lock`, sleep/wakeup on a buffer | recycling while others sleep; all buffers busy |
| IDE driver (`ide.c`) | idequeue, the controller | iderw, ideintr, idestart | `idelock`, sleep/wakeup on the same buffer | the interrupt must start the next request; failed reads |
| inodes, directories, blocks (`fs.c`) | inode cache, on-disk inodes, bitmap, blocks | iget, ilock, iput, bmap, itrunc, readi, writei, dirlookup, dirlink, namex | `icache.lock`, I_BUSY, buffers | `iput` frees what `iget` may find; lock order; a name looked up is stale when its directory is unlocked |
| file calls (`sysfile.c`, `file.c`) | file table, descriptors, offsets, cwd | open, link, unlink, mkdir, chdir, read, write, dup, ... | inodes | many failure paths, each of which must give back what it took |
| pipes (`pipe.c`) | nread, nwrite, the two ends | pipewrite, piperead, pipeclose | the pipe's lock | wrapping counters, close against sleep |
| memory (`kalloc.c`, `vm.c`, `exec.c`, growproc) | free list, page tables | kalloc, allocuvm, copyuvm, freevm, exec | `kmem.lock` | partial failure, accounting of pages |
| console (`console.c`, `kbd.c`, `uart.c`) | input ring r, w, e; the modifier keys | consoleintr, consoleread, kbdgetc | `input.lock` | editing against reading, wrapping indices, two-byte codes |
| system call dispatch (`syscall.c`) | the class counters | argument checks, dispatch | `proc->sz`, user memory | addresses that wrap; a size that memory must back; unlocked counters |
| shell (`sh.c`) | the command tree, its processes | parsecmd, runcmd, main | fork, pipe, dup, wait | who keeps which end of a pipe open; the order of `;`, `&` and `\|` |
| tests, commands (`usertests.c`, `forktest.c`, `stressfs.c`, `init.c`, `ls.c`, ...) | | | system calls | two processes at once |
| image tool (`tools/mkfs.c`) | the image | ialloc, iappend, add_dir | the disk the kernel boots from | must agree with `fs.c` |
| allocator of the C library (`umalloc.c`) | the free list, the headers | malloc, free, morecore | sbrk | merging by address, in every order of calls, across holes |
| boot, interrupt controllers, rest of the C library | | | | straight-line or sequential |

What makes each correct: the process table runs each process on one CPU and one
stack at a time, never loses an exit, a tick or a kill, and hands every slot
back once; a scheduler picks a runnable process whenever there is one, by its
rule, and starves nobody it promises to serve; the cache is one coherent copy of
each block, used by one process at a time; every disk request is served; a pipe
is a first-in first-out queue whose ends notice each other's close; references,
link counts, blocks and the bitmap agree whenever no call is under way; every
page has one owner, and every process the memory it was promised; the console
is a queue of lines; the shell runs what the line says, and everything it
starts ends.  `PROJECT.json` lists the hazards line by line and the property
that covers each.

## Modules

| module | models | state and actions |
|---|---|---|
| `Proc` | process table, context switch, traps, ticks, sys_sleep; both trees (`Tree`) | one function per field of `struct proc`; the two spinlocks; `cpu->proc`; the control point of every kernel thread. An action is what one CPU does between two points where another CPU or an interrupt can matter: an `acquire`, a critical section, `swtch` |
| `ProcTree` | abstract: processes that fork, exit, wait and are reaped | status and parent of each slot; `Proc` maps its table to them (`statusBar`, `parBar`) |
| `Pinfo` | `getpinfo` of both trees beside the processes of `Proc` | extends `Proc` with the CPU in `getpinfo`, its locals and the caller's struct; one action per slot, because fork of B changes slots meanwhile |
| `Lottery` | the draw, the generator, tickets and tick counters of A | one action per critical section |
| `Priority` | the three loops of B's scheduler, last_sched, setpriority | one action per critical section, but one per slot in the search, because fork publishes without the lock |
| `PriorityRR` | `Priority` with a history variable for overtaking | |
| `BufferCache` | `bio.c` and `ide.c`, used as `fs.c` uses them | buffers, LRU list, queue, controller, disk; one action per critical section; sleep is atomic with the release, which is what `Proc` shows of sleep() |
| `BlockStore` | abstract: blocks locked, written and unlocked by one process | store and holder |
| `Pipe` | `pipe.c` with the reference counts of `file.c` | the ring and its counters, the two ends, who has them open, and what each process is doing; one action per section under the pipe's lock, but the decision to sleep and the sleep are two, because kill() does not take that lock |
| `ByteQueue` | abstract: a bounded queue, the writes still pending, the readers | |
| `FileSys` | `fs.c`: blocks and bitmap, inodes on disk and in the cache, their contents, directories, path names | what each process still has to do inside the kernel, as a list of steps; a step is a critical section of `icache.lock`, an access to one on-disk inode, or work on an inode whose I_BUSY lock the process holds. Buffers are used as `BlockStore` promises |
| `FileCalls` | `sysfile.c`, `file.c`, and what fork() and exit() do with open files | extends `FileSys` with the file table, descriptors and cwd; every handler is a first step and one step per stretch between calls into `fs.c` |
| `Mkfs` | `mkfs.c` as a function from a host directory to an image | |
| `UserTests` | the file system tests of `usertests.c`, `stressfs.c`, `init`, `ls` and other commands as scripts, and races of two processes | extends `FileCalls` with the rest of each process's program |
| `Memory` | `kalloc.c`, `vm.c`, `exec.c`, growproc, what fork, exit and wait do with memory, and the argument checks of `syscall.c` | free list, page tables, contents of pages; one action per critical section of `kmem.lock` |
| `AddressSpace` | abstract: each process has numbered pages of its own | |
| `Umalloc` | `umalloc.c` as functions on the headers of a heap | |
| `MemTests` | the tests of `usertests.c` and `forktest.c` that fill the memory or pass odd addresses, and a program that uses the heap | extends `Memory` with scripts, and with the heap of `Umalloc` |
| `Console` | `consoleintr`, `consoleread`, `kbdgetc`, `uartgetc` | the ring, its lock, the readers, the modifier bits, the bytes the keyboard has yet to hand over |
| `LineInput` | abstract: a line being edited and a queue of final text | |
| `ShellParser` | the parser of `sh.c` as functions on the characters of a line | |
| `Shell` | `main`, `runcmd` and the system calls they make | the calls each process has still to make; descriptors; the programs started |
| `ProcProofs` | proofs: locks, stacks, states and slots of `Proc`; then parents, sleepers, `getpinfo`, and that `Proc` implements `ProcTree` | |
| `PriorityProofs`, `LotteryProofs` | proofs about the two schedulers | |
| `BufferCacheProofs`, `PipeProofs`, `ConsoleProofs` | proofs about these components, and that each implements its abstract module | |
| `MemoryProofs` | proofs: who owns each page, that `Memory` implements `AddressSpace`, that sizes are backed by pages | |
| `NatLemmas` | least elements, recursive functions on an interval, counters that wrap: what several proofs need | |
| `MC...` | instances for TLC: symmetry sets, inputs, scripts | |

Composition.  `FileSys` is the client that `BufferCache` serves, and relies on
`BlockStore` only; `FileCalls` composes it with the file table, `Mkfs` gives the
disk it boots from, and `UserTests` runs programs on all of it.  `MemTests` does
the same for `Memory`.  `Shell` uses the process calls as `ProcTree` states them
and pipes as `ByteQueue` does: a read ends when no write end is open.

`Proc` in detail.  CPU `c` runs the thread of `proc[c]`, or its scheduler when
that is null.  `pc[t]` is the point of thread `t`; the timer handler runs on the
stack of the thread it interrupts and `ipc[t]` is the point it returns to.
Which runnable process the scheduler picks is left open, so that everything
shown of `Proc` holds for both schedulers.  The points with the lock held
(`PLocked`, `TLocked`) name the code; that the lock variable agrees with them at
every step is a property (`LockDiscipline`), not an assumption.  `kalloc` and
`copyuvm` may fail.  `kill(1)` is excluded because init exiting panics.

`FileSys` in detail.  Sizes count units; a byte, a directory entry and a block
number take one unit each, so that a block can hold any of them and a directory
or an indirect block is read and written through the same operators as a file.
`todo[p]` stands for the kernel stack of `p`, `reg[p]` for the locals of its
call.  An inode's contents change only under I_BUSY, and blocks are allocated
and freed in one step each, as the bitmap's buffer is locked meanwhile.  A
`panic` of the code stops the model with its message in `fs.panic`, so that
`TestsPass` covers each of them.  On a full disk `balloc` does not panic: it
returns a block behind the end of the disk (the bits there are clear), where the
model stops too; no script gets there.  `filealloc` and `fdalloc` are one step: nothing
another process does between them changes either result but a full table.

`Memory` in detail.  A page holds one value; addresses count `PGSIZE` units per
page, so sizes need not be multiples of a page.  The user part of a page table
takes no page table page of its own, as the I/O space above USERTOP shares the
same 4 Mbyte.  `leaked` records what the code forgets (see below).  A system
call's argument is an address: what the checks accept the kernel then uses, and
a page that is not there is a panic.  Sums of addresses wrap at `ADDRESSES`, in
the argument checks and in the end of a segment (`EndOf`); a program header is
any three uints and a count any int.  Where the code does not check, the model
lets happen what then happens, sets `panic` to one of `Unchecked` and ends, for
what follows is a trap, or a write to memory of the kernel or of others: a
negative count in read() or write(), the struct pstat of A, a segment that is not
aligned or wraps, and the use of pages that sbrk() took away and the TLB still
has.  In `Umalloc` addresses count headers, so a
unit of `Memory` is a header; the links of the free list are in the model where
they are in the code, in the headers, and a header that a merge has swallowed is
gone.

Definitions named as mutants (`...Unchecked`, `...Never`, `...Lost` and so on) are
plausible wrong versions of the definition that follows them; they take part in
no run, and each property has one that it catches.

## Runs

| run | instance | shows |
|---|---|---|
| `proc_table` | A, 2 CPUs, 3 slots, 2 forks, kill, preemption everywhere | lock discipline across `swtch`, one CPU per stack, state against code, ownership of EMBRYO slots, living parents |
| `proc_tree` | B, 2 CPUs, 4 slots, 3 forks, no preemption; process 2 calls `getpinfo` again and again, process 3 kills it | the table implements `ProcTree` although B publishes without the lock; no exit is missed, also by init when a grandchild dies first; `SnapshotExact`: the entries that `getpinfo` writes name every process that lived all along, only live ones, and none twice |
| `proc_live` | boot CPU and another, 2 slots, ticks modulo 3, sleep, kill, faults, fair | no tick missed across wrap-around, no panic in `sched`, life cycle, preemption, sleepers woken |
| `lottery` | 2 CPUs, 3 slots, tickets 1 and 3 | `LotteryExact`: the draw has a winner and each process exactly its tickets; the sum of tickets stays far from `IntMax`, so an overflow is not exercised |
| `lottery_starve` | 1 CPU, the real generator from its seed, fair | violation of `NoStarvation`: the draw becomes constant after 32 draws |
| `priority` | 2 CPUs, 3 slots, all priorities and arguments below and above them, fair | `PickOK`: a search that began with a runnable process selects one, and priorities stay in range; `HighestFirst`: of the best priority among those it began with; the best priority is not starved |
| `disk` | 2 processes, 2 buffers, 3 blocks, fair disk | the cache implements `BlockStore`; `Coherent`: one user, one copy, never stale; `RequestsKept`: queue and wakeups; no circle; `IoServed`: every request is served and its process woken |
| `pipe` | 3 processes, ring of 2 bytes, counters modulo 4, writes of 3 bytes, reads of 1, one process may be killed | the ring implements `ByteQueue`; `EndsOK`: freed once, after its last user; no lost wakeup; closes are noticed |
| `usertests` | every script on an image with three files; one call of 14 against one or two of another process, in a directory both use; names made in a directory while it is removed | no test reports an error and nothing panics; `FsConsistent` between calls; `NobodyStuck` in ilock(); every script ends (no deadlock) |
| `memory` | 3 processes that do what they like with 12 pages; the scripts with 16 | `PagesAccounted`: each page has one owner, in the middle of a failing call too; `SizeIsMapped`: sizes are backed by pages, and the kernel goes wrong only where it does not check; `MemoryTestsPass`: tests pass, and the heap is free and used blocks side by side; each process has an address space of its own |
| `console` | 2 readers, one may be killed, ring of 2, indices modulo 4, a letter, shift, a two-byte control key, a serial line | the ring implements `LineInput`; input never gets stuck; the modifier bits follow the keys |
| `shell` | 820 lines of up to 3 characters and 11 longer ones, 5 processes | parser and `runcmd` do what the line says, in its order and with its files; everything ends, also when a fork, a file or a program is missing |

### Bounds, and why they are enough

The bounds are the smallest at which the interesting cases occur.  Two CPUs and
two children let a parent, a child and a scheduler meet in every order; three
slots let an EMBRYO, a ZOMBIE and a live process coexist; a tick counter modulo 3
wraps within one sleep; two buffers for three blocks force recycling, waiting
and the panic of `bget`; a write longer than the ring sleeps and wakes, and its
counters wrap.  In `usertests` five inodes in the cache are what the deepest
test needs, so one lost reference ends in the panic of `iget`; two direct blocks
of four units make a directory of six files and a file of three blocks use the
indirect block; 14 blocks are few enough that a lost block shows up when the
next test allocates.  The loops of the tests are unrolled with the bounds named
at the head of the scripts, next to the numbers of the code.  In `memory` 12
pages are enough for two processes and half of a third, so that fork, exec and
sbrk fail at each of their allocations; arguments are at the first address of a
page, the last of one and the last of all, with sizes up to the largest int and
below zero; files and a struct pstat are larger than a page and smaller than two
(`MAXFILE`, `PSTAT`), which is where they leave the process; a page of six headers and cores of five make blocks that cross
pages, and one sbrk() of the program's own a hole between cores.  In `console` a ring of two fills up
with one reader asleep and wraps at once.  In `shell` three characters reach
every pair of adjacent tokens, the longer lines every nesting of pipelines,
lists, blocks and background jobs with redirections, and five processes run out
in the longest of them.

`UserTests` takes a step that uses only its process's own variables
(`LocalSteps`) before any other step.  Such a step commutes with every step of
another process and changes nothing a property speaks of, so no interleaving
that matters is lost.  The deadlock check is off for `pipe`, which ends when
every process has closed both ends, and for `shell`, which ends with its input;
`UserTests` and `MemTests` have a last step of their own.

### Fairness

`Proc`: a CPU keeps executing (weak fairness of its kernel steps), a spinlock
that is free again and again is eventually obtained, and a timer interrupt stays
pending until interrupts are enabled (strong fairness, because both are disabled
and enabled again by others).  Nothing is assumed about the scheduler's choice or
about user code.  `Priority`: a CPU that searches goes on, and one that waits for
the lock or for the timer gets it.  `Lottery`: a CPU keeps scheduling.  None of
this gives a process the CPU: the draw of A degenerates (`lottery_starve`) and B
serves the best priority only, so a runnable process may wait for ever.  Hence
`BufferCache` assumes only that the disk finishes its command and that its
interrupt is taken, and claims that the request is served and its process
runnable, not that bread() returns.  `Pipe` assumes only that a process that
holds the lock goes on to sleep().  The condition of `CloseNoticed` is part of
the property: a process that gets the CPU and the lock whenever it asks for them
leaves the pipe, also if no other process ever runs again.  `Shell` is the
exception: it assumes that each of its processes keeps running.  Its programs
are finite, so that no process can take the CPU for ever and either scheduler
reaches all of them once the others wait or have ended; programs end when their
input does, and init waits for its children.  `FileSys`, `Memory` and `Console`
claim safety and the absence of deadlock only, and assume no fairness.

## Disagreements between the code and its documentation

The finding of `lottery_starve` is in `PROJECT.json`.  The following
configurations are kept beside the runs and can be run by hand; in each of them
TLC finds the named property violated by what the code does.

| configuration | module, property | what happens |
|---|---|---|
| `MCProcUnkept.cfg` | `MCPinfo`, `KilledAwake` | sys_sleep() tests `killed` without `ptable.lock` (`sysproc.c:96`): a process killed in between goes to sleep, although kill() says "Wake process from sleep if necessary" (A `proc.c:471`) |
| | `BornAlive` | a fork() that fails leaves its pid and `killed` in the free slot, where kill() finds it: the next process is created killed |
| | `InuseTrue` | `getpinfo` writes nothing for the slots it skips, and in B nothing behind the last process, so that a struct passed twice shows processes that are gone; `pstat.h` says of `inuse` "whether this slot is in use (1 or 0)" |
| `MCLotteryCounters.cfg` | `MCLottery`, `TicksAreSchedules` | A `proc.h:86-87` calls both `ticks` and `numTicks` the number of times scheduled, but `ticks` also counts timer interrupts (`trap.c:61`) |
| `PriorityRRLevels.cfg` | `PriorityRR`, `RoundRobin` | one index for all levels: scheduling within a level is not round robin |
| `MCDiskError.cfg` | `MCBufferCache`, `ValidSynced` | ideintr() marks a buffer valid although the disk reported an error |
| `MCOrphan.cfg` | `MCUserTests`, `LinksExact` | create() finds a directory, unlink() removes it, create() makes its file in it (`sysfile.c:222`): the file has no way to it and is never freed |
| `MCMemoryUnkept.cfg` | `MCMemory`, `CountsInside` | argptr() accepts a block of negative size (`syscall.c:74`), which readi() and writei() take as a large uint and cut to the file's size: read(fd, p, -1) leaves the process, although argptr() is to "Check that the pointer lies within the process address space" |
| | `PstatInside` | `sys_getpinfo` of A passes `sizeof(*pInfo) < 0`, that is 0, as the size (`sysproc.c:139`) |
| | `SegmentsMapped` | `ph.va + ph.memsz` wraps (`exec.c:43`): allocuvm() maps nothing there, and loaduvm(), for which the pages "must already be mapped", panics or writes through the kernel's mappings |
| | `FailureKeeps` | growproc() takes the size 0 that deallocuvm() returns for a failure (A `proc.c:152`): sbrk() returns -1 with the memory gone, the size unchanged and the TLB not flushed |
| | `NoLeak` | setupkvm() that cannot get a page table page forgets the pages it has, which `PagesAccounted` counts as lost and so does not catch |

What holds in spite of these is stated by the properties of the runs.  A file made in a
directory that is being removed is lost, so `FsConsistent` counts links with a
history variable, `lost`, of the names made in directories without a name: every
other count is exact in the races of the run.  A killed process that sleeps on is
woken by a later tick, as every sleeper is (`SleeperWoken`).  `getpinfo` answers for no single instant
in B, but its entries are right (`SnapshotExact`); that it is given a pointer to
good memory is `Memory`'s part.  Where `Memory` reaches `Unchecked`, nothing is
claimed of what follows.  If the second fork() of `a | b` fails, runcmd() panics
and does not wait for `a`: what follows a `;` may then start before `a` has ended,
and `DoesWhatItSays` excepts the leaves so `Abandoned`, recorded in `cut`.

Smaller ones, noticed on the way: in B entry `i` of `getpinfo` is not slot `i`;
`settickets` has no upper bound, so that the sum of tickets can overflow (the
`lottery` run stays below `IntMax`); a full disk makes `balloc` hand out blocks
that are not there; a killed writer that has just filled a pipe returns without
waking the readers (`pipe.c:83-86`), so `NoLostWakeup` of `Pipe` is stated for behaviours
without kill(); `counterB` and `counterC` in `syscall.c` are incremented by all
CPUs without a lock; `NBUF` is smaller than the number of processes that may
each hold a buffer, so `bget`'s panic is reachable; ".." of a removed directory
that is still somebody's cwd can name an inode that has been freed, and `ilock`
then panics; `mkfs` does not count the ".." of a subdirectory in the link count
of its parent, and a directory whose entries exactly fill its blocks gets one
block too many, which `bmap` allocates during a lookup without writing the inode
(the image of `usertests` avoids both); `exec` writes arguments longer than the
page of the stack over the page below it; in the shell the first of two output
redirections wins, `>>` does not append, and `a & b` is a syntax error.

## Proofs

Every property of the passing runs that is not about liveness, the file system,
the scripts of tests or the shell is a theorem.  The theorems hold for any number
of processes, slots, CPUs, buffers, blocks and pages, any programs, any size of a
ring and any width of its counters, as far as the assumptions of the modules go
(`ProcAssumption` and so on, which TLC evaluates in the runs).  An assumption a
theorem makes beyond those is in its `ASSUME` and in the table.  `PROJECT.json`
says of each theorem what it is about.

| component | proved | under |
|---|---|---|
| process table | `TypeOK`, `LockDiscipline`, `StackExclusive`, `StateMatchesCode`, `EmbryoOwned`, `SchedChecks`, `Lifecycle`, `ParentAlive`, `WaitNotMissed`, `TickNotMissed`, `SnapshotExact`, `ImplementsTree`; the tree it implements is sound | |
| lottery | `TicksBounded`: ticks is at least numTicks and at most twice that | |
| | `LotteryExact` | a bound on the tickets asked for, such that their sum fits an int; settickets() checks none |
| priority | `PickOK`, `HighestFirst` | |
| buffer cache | `RequestsKept`, `NoCircularWait` | |
| | `Coherent`, `ImplementsStore` | the disk reports no error; a failed read is marked valid |
| pipe | `EndsOK`, `NoLostWakeup`, `ImplementsQueue` | |
| console | `InputReachable`, `ImplementsLines` | |
| | `ModifiersMatch` | one shift key; the release of one of two clears the flag of both |
| memory | `PagesAccounted`, `SizeIsMapped`, `ImplementsAddressSpace` | |

Each of these assumptions marks a place where the code does no better: the first
is why the `lottery` run stays below `IntMax`, `MCDiskError.cfg` shows what
happens without the second, and the third is why the keyboard of the `console`
run has one shift key.  The theorems about the memory assume nothing of headers,
addresses and counts, but speak of the model, which ends where it reaches
`Unchecked`: `SizeIsMapped` says that it ends nowhere else.

### The process table

None of the properties of `ProcProofs` is inductive alone.  That a kernel stack
is used by one CPU needs that a RUNNABLE process has really left its CPU when a
scheduler that holds the lock sees it; that needs `LockDiscipline` (the process
that is RUNNABLE but still on its CPU holds the lock itself) and
`StateMatchesCode`; the latter needs that nobody touches the half-made slot of a
fork, `EmbryoOwned`.  The inductive invariant `IInv` is their conjunction with
`TypeOK`, `OneCpu` (no process is current on two CPUs) and `OnCpuCode` (a current
process has code to run).  Two generic lemmas carry most actions: `ObeysInv` (a
step of one thread that does not switch, takes and releases the locks as its
points say and at most wakes others) and, for fork and wait, the lemmas about a
step that moves a second, stopped process.  `SchedulerRun` and `Sched`, which
switch, are proved directly.

The second half of `ProcProofs` adds what relates one process to another; its
invariant is
`Family`, the conjunction of `IInv` with

- `InitStays`: init is alive and never at a point of exit(), since nobody calls
  kill(1); it is what orphans are given to;
- `Kin`: a parent has not exited, and the slot that fork() fills has a parent
  from the moment before it is published and not earlier, so that wait() neither
  counts a half-made child nor misses a published one;
- `Waits`: `WaitNotMissed`, also at the point where wait() has decided to sleep
  and holds the lock, and that exit(), between waking the parent and becoming a
  ZOMBIE, finds it awake: two steps of one critical section;
- `Timely`: who is about to sleep in sys_sleep() has time left, and who sleeps
  has time left or a timer handler that has advanced `ticks` and not yet called
  wakeup();
- `Bonds`: what a sleeper sleeps on, and which fork() a slot with a parent that
  is still EMBRYO belongs to.

`ImplementsTree` follows step by step: fork() takes effect when it publishes its
child, exit() when it gives its children to init and becomes a ZOMBIE, wait() when
it frees the slot or goes to sleep; a slot that is being set up is still free
(`Hidden`).  `TreesSound` then concludes of the concrete table what the tree
promises.

For `getpinfo`, `PinfoOnlyReads` shows that a behaviour of `Pinfo` is one of `Proc`,
so that its invariants hold during a scan.  `Pids` (no two slots share a pid but
0, not even a free slot that a failed fork() left its pid in) keeps the slot at
hand apart from the entries written, and `Scanned` says what a scan that has come
to slot `at` has written: an entry for each process below it that lived from the
start, and none but of live processes below it.  While the lock is held, forks
end, but nobody who was there when the scan began goes away.

### The schedulers

`PickOK` and `HighestFirst` rest on `SearchKept`: while a CPU searches, whoever was
RUNNABLE when it began is still, and none of those passed is better than
`highest_priority`; and either no value was found yet or a slot with that value
lies ahead (`SlotAtInTable` and `EverySlotPassed`: from any `last_sched` the last
two loops pass each slot).  fork() only adds to what is RUNNABLE, and at
priorities in range, as `TypeOK` says whatever setpriority() was given.
`SlotsOwned` (a process runs on one CPU, and a fork()'s slot is its own) keeps the
child that is published apart from the slots a search has seen.

`Lottery` sums tickets with recursive functions over the table; the values are
established by facts about any function that obeys the recursion (`UptoExists`,
`TotalIs`, `DeductedIs`, on the bounded interval of slots), and `WinsIs` counts
the values of `winner` that each process wins.  The invariant of the counters is
`TurnsOK`: a process that is running is owed one timer tick of this turn, which
needs that a slot in the middle of a fork() belongs to one fork().

### The buffer cache, the pipe and the console

`BufferCacheProofs`: the invariant `Sound` says who holds what at each point of
bread(), iderw(), bwrite() and brelse() (`Stages`), that the busy buffers are
those held (`BusyHeld`), that the list loses no buffer (`LruComplete`), that a
process with two buffers has an indirect block first (`HeldOK`, which makes
waiting acyclic), and what flags and controller may contain.  `Synced` (a valid
clean buffer equals its block) is inductive only with a disk that reports no
error.  The refinement gives a step to `BlockStore` when bget() marks the
buffer busy, when bwrite() marks it dirty and when brelse() clears it; disk and
driver are invisible (`Invisible`, `DiskDoneStep`, `IdeintrStep`).

`PipeProofs`: `Sound` counts the references of each end as the set of processes
that have it open (`Users`), with one process at most between the last
decrement and pipeclose(); the freed page follows.  `Asleep` is `NoLostWakeup`
extended to the processes on their way to sleep with the lock held.  The
refinement rests on arithmetic: a ring whose size divides the width of the
counters keeps distinct elements in distinct places when they wrap.

`ConsoleProofs`: `KbdSound` ties the modifier bits to the keys held and to the
byte still on the wire; `Sound` keeps the three indices in order round the ring
(`RingOK`) and a newline out of the part that can be edited (`LineOK`), and so
makes every full ring readable.  The refinement works on the text between two
indices, as the pipe's does.

### The memory

Each property of `MemoryProofs` is a theorem twice: for a machine with all its
`NPAGES` pages, which is `Spec`, and for one with `n` of them, from the kernel's
page table up (`...Of`), as the `memory` run has both.

`PagesAccounted` counts holders of a page, and counting is not inductive.  The
invariant `Ownership(n)` has instead, in `Accounted`, a function `own` that gives
each of the `n` pages the one place where it is: the free list, the lost pages, a
kernel stack, or a directory, table or numbered user page of one of the three page
tables of a process (its own, the one it builds, the one it frees).  Eight lemmas say
what moving pages does to it (`TakeStack` to `MoveTable`), and each action is one
or two of them.  Which pages an action moves depends on the call it is part of,
so the invariant also has `Course`: what `todo[p]` can be, what is in the page
tables under construction at that point and that a table is freed once; and
`Slots`: slots without a process have no memory, and a fork() or wait() has its
slot to itself.

For the other two, `Staged` says what each process's pages hold at each stage of
its call: outside the kernel, the pages below its size and no others (or none);
in allocuvm() and deallocuvm(), which part of the range is done; in fork(), that
the pages copied so far are equal; in exec(), that the pages so far are those of
the segments so far, text where the file has some and zero elsewhere.  A step of
one process leaves the stage and the text of all others alone (`Still`), because
`Accounted` keeps their pages apart; this is where isolation comes from.  The
lemmas `...Moves` say of each action what it does to the memory of its own
process, and `NextStaged` maps each to a step of `AddressSpace`: a page of sbrk()
to Add, one of deallocuvm() to Drop, a store to Store, the end of exec() to Exec with the image
that `ImageOf` computes from the whole program, the end of fork() to Fork, wait()
to Gone; everything else is invisible.  That pages are found also gives
`SizeIsMapped`: copyuvm() meets no hole, and an address that fetchint(),
fetchstr() or argptr() accepts is on a page (`ArgumentSafe`), unless it comes with
a negative count or with no size.  A segment whose end wraps, or that is not
aligned, is loaded only if its pages happen to be there (`SpanReached`), and so
into pages of the new image.  The scripts of
`MemTests` step by the same actions, but their module reaches recursive
operators, so that TLC alone speaks of `TestSpec`.

### Only model-checked

- Liveness (`Preemption`, `SleeperWoken`, `TopNotStarved`, `IoServed`,
  `CloseNoticed`, `EverythingEnds`): fairness and ENABLED are outside the prover's
  reach.
- `TestsPass`, `FsConsistent`, `NobodyStuck`, `MemoryTestsPass`,
  `DoesWhatItSays`: their modules reach recursive operators (`Mkfs`,
  `Umalloc`, the parser), for which the prover has no arithmetic.  The scripts
  are also particular programs, about which there is nothing to generalise.

## Not modelled

- Boot, interrupt controllers and other straight-line hardware set-up; segment
  registers and page directory switches.
- Console output, which is device I/O, and the ALT, NUMLOCK and SCROLLLOCK bits
  of the keyboard, which change no character.
- Crashes: blocks, inodes and entries are written one after the other, and this
  xv6 has no log and no checker, so there is no recovery to state anything of.
- The lock of the program's inode in `exec` (the file is a constant of
  `Memory`), and disk errors (`MCDiskError.cfg` apart).
- Of the tests: `pipe1` and `preempt`, whose calls `Pipe` makes in every order.
  Of the shell: the descriptors of the console are open from the start.
- The C library but for `umalloc.c`, `grep`, `wc` and the class project's own programs: sequential
  code that keeps no state between calls.

## Plan

Every component with a state machine has a module, and every safety property
within the prover's reach a theorem.  What is left needs the models in another form:

1. `FileSys` and `FileCalls` over sets of blocks instead of a boot image from
   `Mkfs`, so that block and link accounting (`FsConsistent`) could be proved of
   them without the recursive functions of the image tool and the scripts.
2. `Umalloc` with its searches as recursive functions, for a proof that free()
   loses no header.
