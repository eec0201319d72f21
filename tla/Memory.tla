------------------------------- MODULE Memory -------------------------------
(***************************************************************************)
(* Physical pages (kalloc.c), page tables (vm.c) and the calls that use     *)
(* them: sbrk (growproc), fork, exec, exit and wait.                       *)
(*                                                                         *)
(* A step of a process is one critical section of kmem.lock, so that       *)
(* processes compete for the last free pages in every order.  `todo[p]` is *)
(* what p still has to do in the kernel, its next step first.  Addresses   *)
(* count units of which PGSIZE make a page; a page has one value.  A page  *)
(* table holds the page directory, the page table pages and the user       *)
(* pages; the user part has no page table page of its own, because the I/O *)
(* space above USERTOP is in the same 4 Mbyte.                             *)
(***************************************************************************)
EXTENDS Integers, Sequences, FiniteSets, FiniteSetsExt

CONSTANTS
  Procs,     \* slots of the process table
  First,     \* the first process
  NPAGES,    \* physical pages are 1..NPAGES
  PGSIZE,    \* units per page
  UPAGES,    \* pages below USERTOP
  KTABLES,   \* page table pages that setupkvm() needs
  Programs,  \* what exec() is called with: a file's [elf, segs], the size of
             \* the arguments and whether there are fewer than MAXARG of them
  Grows,     \* arguments of sbrk()
  Values,    \* what a program stores
  ADDRESSES, \* 2^32 in the code
  INTSIZE,   \* size of an int
  PSTAT,     \* size of a struct pstat
  MAXFILE,   \* size of the largest file
  Pointers,  \* addresses that programs pass to system calls,
  Sizes      \* and ints they pass as the size of what is there

Uints == 0..(ADDRESSES - 1)
Ints == -(ADDRESSES \div 2)..(ADDRESSES \div 2 - 1)

ASSUME MemoryAssumption ==
  /\ \A n \in {NPAGES, PGSIZE, UPAGES, KTABLES, INTSIZE} : n \in Nat \ {0}
  /\ PSTAT \in Nat /\ MAXFILE \in Nat
  /\ ADDRESSES \in Nat /\ ADDRESSES \div 2 > UPAGES * PGSIZE + INTSIZE
  /\ Pointers \subseteq Uints /\ Sizes \subseteq Ints
  /\ Grows \subseteq Int
  /\ First \in Procs /\ NPAGES > KTABLES + 3
  /\ \A prog \in Programs :
       /\ prog.segs \in Seq([va : Uints, memsz : Uints, filesz : Uints, short : BOOLEAN])
       /\ prog.args \in Nat

VARIABLES
  free,      \* pages on the free list
  value,     \* what each page holds
  proc,      \* [state, parent, sz, pgdir, kstack] of each slot
  todo,      \* steps each process has still to do in the kernel
  local,     \* the local variables of its call
  leaked,    \* pages that nothing refers to any more
  panic      \* why the kernel went wrong, the argument of panic() if it
             \* panicked; "" before

vars == <<free, value, proc, todo, local, leaked, panic>>

Pages == 1..NPAGES
Upages == 0..(UPAGES - 1)
USERTOP == UPAGES * PGSIZE
PageUp(a) == (a + PGSIZE - 1) \div PGSIZE        \* PGROUNDUP, in pages

NoDir == [dir |-> 0, tables |-> {}, user |-> [i \in Upages |-> 0]]
Unused == [state |-> "unused", parent |-> First, sz |-> 0, pgdir |-> NoDir,
           kstack |-> 0]
NoLocal == [new |-> NoDir, sz |-> 0, child |-> First, old |-> NoDir, prog |-> 0]

Mapped(pd) == {i \in Upages : pd.user[i] # 0}
PagesOf(pd) == ({pd.dir} \cup pd.tables \cup {pd.user[i] : i \in Upages}) \ {0}
\* Pages of the user part below sz.
Below(sz) == {i \in Upages : i * PGSIZE < sz}
\* Are all addresses from a up to b on pages of pd?
Reaches(pd, a, b) == \A i \in (a \div PGSIZE)..((b - 1) \div PGSIZE) : i \in Mapped(pd)
\* Unsigned addresses wrap.
Wrap(a) == a % ADDRESSES

(* What the code lets happen because it does not check for it.  Some of it  *)
(* is a panic or a page fault in the kernel; the rest leaves the memory of  *)
(* the kernel or of others open to change, and so ends the model too.       *)
Unchecked == {"stray count", "stray pstat", "stale TLB",
              "loaduvm: addr must be page aligned",
              "loaduvm: address should exist", "loaduvm: stray write"}

----------------------------------------------------------------------------
(* kalloc.c.  Which free page kalloc() returns does not matter: the model   *)
(* takes the lowest.                                                        *)

Page == Min(free)
Kalloc(v) == /\ free' = free \ {Page}
             /\ value' = [value EXCEPT ![Page] = v]
\* kfree() of each page of S, filled with junk.  Mutant: none is freed.
KfreeLost(S) == UNCHANGED <<free, value>>
Kfree(S) == /\ free' = free \cup S
            /\ value' = [q \in Pages |-> IF q \in S THEN "junk" ELSE value[q]]
NoPage == UNCHANGED <<free, value>>

----------------------------------------------------------------------------
At(p, step) == panic = "" /\ todo[p] # <<>> /\ Head(todo[p])[1] = step
Arg(p, k) == Head(todo[p])[k]
Then(p, steps) == todo' = [todo EXCEPT ![p] = steps \o Tail(@)]
Only(p, steps) == todo' = [todo EXCEPT ![p] = steps]
New(p) == local[p].new
SetNew(p, pd) == local' = [local EXCEPT ![p].new = pd]

\* The page table a step works on: of the process, or the new one.
Pgdir(p, which) == CASE which = "own" -> proc[p].pgdir
                     [] which = "new" -> local[p].new
                     [] which = "old" -> local[p].old
SetPgdir(p, which, pd) ==
  /\ proc' = IF which = "own" THEN [proc EXCEPT ![p].pgdir = pd] ELSE proc
  /\ local' = CASE which = "own" -> local
                [] which = "new" -> [local EXCEPT ![p].new = pd]
                [] which = "old" -> [local EXCEPT ![p].old = pd]

----------------------------------------------------------------------------
(* vm.c.                                                                    *)

\* setupkvm(): a page for the directory, then the page tables of the kernel's
\* mappings.  When one of these cannot be had, the others are not given back.
SetupFails(p) ==
  /\ leaked' = leaked \cup PagesOf(New(p))
  /\ SetNew(p, NoDir)
  /\ Then(p, <<>>)
  /\ NoPage

Setupkvm(p) ==
  LET pd == New(p)
  IN /\ At(p, "setupkvm")
     /\ IF free = {} THEN SetupFails(p)
        ELSE /\ Kalloc("zero")
             /\ SetNew(p, IF pd.dir = 0 THEN [NoDir EXCEPT !.dir = Page]
                          ELSE [pd EXCEPT !.tables = @ \cup {Page}])
             /\ Then(p, IF Cardinality(pd.tables) + Cardinality({pd.dir} \ {0})
                             = KTABLES
                        THEN <<>> ELSE <<<<"setupkvm">>>>)
             /\ UNCHANGED leaked
     /\ UNCHANGED <<proc, panic>>

\* The first page allocuvm() adds.  Mutant: the size is rounded down.
AllocDown(oldsz) == oldsz \div PGSIZE
AllocFrom(oldsz) == PageUp(oldsz)

\* allocuvm(): the loop, one page at a time.  The result is local[p].sz.
Allocuvm(p) ==
  LET which == Arg(p, 2)
      oldsz == Arg(p, 3)
      newsz == Arg(p, 4)
      i == Arg(p, 5)
      pd == Pgdir(p, which)
      Result(sz) == local' = [local EXCEPT ![p].sz = sz]
  IN /\ At(p, "allocuvm")
     /\ IF newsz > USERTOP \/ newsz < oldsz \/ i * PGSIZE >= newsz
        THEN /\ Result(IF newsz > USERTOP THEN 0
                       ELSE IF newsz < oldsz THEN oldsz ELSE newsz)
             /\ Then(p, <<>>) /\ NoPage /\ UNCHANGED <<proc, panic>>
        ELSE IF free = {}
        THEN /\ Result(0)
             /\ Then(p, <<<<"deallocuvm", which, newsz, PageUp(oldsz)>>>>)
             /\ NoPage /\ UNCHANGED <<proc, panic>>
        ELSE IF pd.user[i] # 0
        THEN /\ panic' = "remap" /\ NoPage /\ UNCHANGED <<proc, local, todo>>
        ELSE /\ Kalloc("zero")
             /\ SetPgdir(p, which, [pd EXCEPT !.user[i] = Page])
             /\ Then(p, <<<<"allocuvm", which, oldsz, newsz, i + 1>>>>)
             /\ UNCHANGED panic
     /\ UNCHANGED leaked

AllocSteps(which, oldsz, newsz) ==
  <<<<"allocuvm", which, oldsz, newsz, AllocFrom(oldsz)>>>>

\* deallocuvm(): the loop, one page at a time.
Deallocuvm(p) ==
  LET which == Arg(p, 2)
      oldsz == Arg(p, 3)
      i == Arg(p, 4)
      pd == Pgdir(p, which)
  IN /\ At(p, "deallocuvm")
     /\ IF i * PGSIZE >= oldsz
        THEN Then(p, <<>>) /\ NoPage /\ UNCHANGED <<proc, local>>
        ELSE /\ Kfree({pd.user[i]} \ {0})
             /\ SetPgdir(p, which, [pd EXCEPT !.user[i] = 0])
             /\ Then(p, <<<<"deallocuvm", which, oldsz, i + 1>>>>)
     /\ UNCHANGED <<leaked, panic>>

\* freevm(): the user part, then page tables and directory.
Freevm(which) == <<<<"deallocuvm", which, USERTOP, 0>>, <<"freedir", which>>>>

Freedir(p) ==
  LET which == Arg(p, 2)
      pd == Pgdir(p, which)
  IN /\ At(p, "freedir")
     /\ Kfree(PagesOf(pd))
     /\ SetPgdir(p, which, NoDir)
     /\ Then(p, <<>>)
     /\ UNCHANGED <<leaked, panic>>

\* memmove() of copyuvm().  Mutant: the page is not copied.
CopyNothing(v) == "junk"
Copy(v) == v

\* copyuvm(): the loop.
Copyuvm(p) ==
  LET i == Arg(p, 2)
      from == proc[p].pgdir.user[i]
  IN /\ At(p, "copyuvm")
     /\ IF New(p).dir = 0 \/ i * PGSIZE >= proc[p].sz
        THEN Then(p, <<>>) /\ NoPage /\ UNCHANGED <<local, panic>>
        ELSE IF from = 0
        THEN panic' = "copyuvm: page not present" /\ NoPage /\ UNCHANGED <<local, todo>>
        ELSE IF free = {}
        THEN Then(p, Freevm("new")) /\ NoPage /\ UNCHANGED <<local, panic>>
        ELSE /\ Kalloc(Copy(value[from]))
             /\ SetNew(p, [New(p) EXCEPT !.user[i] = Page])
             /\ Then(p, <<<<"copyuvm", i + 1>>>>)
             /\ UNCHANGED panic
     /\ UNCHANGED <<proc, leaked>>

----------------------------------------------------------------------------
(* The system calls.                                                        *)

Outside(p) == panic = "" /\ proc[p].state = "live" /\ todo[p] = <<>>
\* Page 0 holds the code: without it a process only takes page faults.
InUser(p) == Outside(p) /\ 0 \in Mapped(proc[p].pgdir)

\* The program stores into one of its pages.
Store(p, i, v) ==
  /\ InUser(p) /\ i \in Mapped(proc[p].pgdir)
  /\ value' = [value EXCEPT ![proc[p].pgdir.user[i]] = v]
  /\ UNCHANGED <<free, proc, todo, local, leaked, panic>>

\* The kernel uses the program's addresses from a up to b.  On a page that is
\* not the program's, it traps or uses the kernel's memory.
Use(p, a, b, wrong) ==
  /\ panic' = IF Reaches(proc[p].pgdir, a, b) THEN panic ELSE wrong
  /\ UNCHANGED <<free, value, proc, todo, local, leaked>>

\* fetchint(): is there an int at a?
Fetchint(p, a) == a < proc[p].sz /\ Wrap(a + INTSIZE) <= proc[p].sz
\* argint(): the first argument of a call made with the stack at esp.
Argint(p, esp) == Fetchint(p, Wrap(esp + INTSIZE))
\* fetchstr(): the string at a ends below the size, at any address.
Fetchstr(p, a) == a < proc[p].sz
\* argptr(): is there a block of n at a?
Argptr(p, a, n) == a < proc[p].sz /\ Wrap(a + n) <= proc[p].sz

\* A system call takes an int from the stack at a (argint()), a string, or a
\* block that it fills or reads; what is not accepted makes the call fail.  A
\* count below 0 is accepted as well, and readi() and writei(), for which it is
\* a large uint, cut it to what the file has or may have.  sys_getpinfo() of A
\* checks its buffer as if it had no size.
Argument(p, a) ==
  /\ InUser(p)
  /\ \/ Fetchint(p, a) /\ Use(p, a, a + INTSIZE, "trap")
     \/ Fetchstr(p, a) /\ Use(p, a, proc[p].sz, "trap")
     \/ \E n \in Sizes :
          /\ Argptr(p, a, n)
          /\ \/ n >= 0 /\ Use(p, a, a + n, "trap")
             \/ n < 0 /\ \E m \in 0..MAXFILE : Use(p, a, a + m, "stray count")
     \/ Argptr(p, a, 0) /\ Use(p, a, a + PSTAT, "stray pstat")

\* sys_sbrk() and growproc().  A size below 0 wraps to one above USERTOP, and
\* deallocuvm() then changes nothing.
Sbrk(p, n) ==
  LET sz == proc[p].sz
  IN /\ InUser(p)
     /\ n > 0 => sz + n <= USERTOP + PGSIZE
     /\ local' = [local EXCEPT ![p] =
                    [NoLocal EXCEPT !.sz = IF sz + n < 0 THEN sz ELSE sz + n]]
     /\ Only(p, IF n > 0 THEN AllocSteps("own", sz, sz + n) \o <<<<"grown", n>>>>
                ELSE IF n < 0 /\ sz + n >= 0
                THEN <<<<"deallocuvm", "own", sz, PageUp(sz + n)>>, <<"grown", n>>>>
                ELSE <<<<"grown", n>>>>)
     /\ UNCHANGED <<free, value, proc, leaked, panic>>

\* The end of growproc(): a result of 0 means failure, and keeps the size.  When
\* that is how deallocuvm() says that nothing is left, switchuvm() is not called:
\* the program uses the pages it lost, unless the CPU's TLB is flushed before.
Refused(p) == Arg(p, 2) # 0 /\ local[p].sz = 0
Grown(p) ==
  /\ At(p, "grown")
  /\ proc' = IF Refused(p) THEN proc ELSE [proc EXCEPT ![p].sz = local[p].sz]
  /\ local' = [local EXCEPT ![p] = NoLocal]
  /\ Then(p, <<>>)
  /\ \/ panic' = panic
     \/ Refused(p) /\ Arg(p, 2) < 0 /\ panic' = "stale TLB"
  /\ UNCHANGED <<free, value, leaked>>

\* fork(): allocproc() with its kernel stack.
Fork(p, q) ==
  /\ InUser(p) /\ proc[q].state = "unused"
  /\ IF free = {} THEN NoPage /\ UNCHANGED <<proc, todo, local>>
     ELSE /\ Kalloc("stack")
          /\ proc' = [proc EXCEPT ![q].state = "embryo", ![q].kstack = Page]
          /\ local' = [local EXCEPT ![p] = [NoLocal EXCEPT !.child = q]]
          /\ Only(p, <<<<"setupkvm">>, <<"copyuvm", 0>>, <<"forked">>>>)
  /\ UNCHANGED <<leaked, panic>>

\* fork(): the child is made, or its kernel stack is given back.
Forked(p) ==
  LET q == local[p].child
  IN /\ At(p, "forked")
     /\ IF New(p).dir = 0
        THEN /\ Kfree({proc[q].kstack})
             /\ proc' = [proc EXCEPT ![q] = Unused]
        ELSE /\ proc' = [proc EXCEPT ![q] =
                           [state |-> "live", parent |-> p, sz |-> proc[p].sz,
                            pgdir |-> New(p), kstack |-> @.kstack]]
             /\ NoPage
     /\ local' = [local EXCEPT ![p] = NoLocal]
     /\ Then(p, <<>>)
     /\ UNCHANGED <<leaked, panic>>

\* sys_exec() counts the arguments; exec() reads the ELF header before it
\* allocates anything.
Exec(p, prog) ==
  /\ InUser(p)
  /\ local' = [local EXCEPT ![p] = [NoLocal EXCEPT !.prog = prog]]
  /\ Only(p, IF prog.fewargs /\ prog.elf
             THEN <<<<"setupkvm">>, <<"segment", 1>>>> ELSE <<<<"failed">>>>)
  /\ UNCHANGED <<free, value, proc, leaked, panic>>

\* exec(): at bad:, give back what there is of the new image.
Bad(p) ==
  Only(p, (IF New(p).dir = 0 THEN <<>> ELSE Freevm("new")) \o <<<<"failed">>>>)

Failed(p) ==
  /\ At(p, "failed")
  /\ local' = [local EXCEPT ![p] = NoLocal]
  /\ Then(p, <<>>)
  /\ UNCHANGED <<free, value, proc, leaked, panic>>

\* Where a segment ends in memory, a sum that wraps.
EndOf(seg) == Wrap(seg.va + seg.memsz)

\* exec(): the k-th program header, or the page for the stack.
Segment(p) ==
  LET k == Arg(p, 2)
      segs == local[p].prog.segs
      sz == local[p].sz
      top == PageUp(sz) * PGSIZE
  IN /\ At(p, "segment")
     /\ IF New(p).dir = 0 \/ (k \in DOMAIN segs /\ segs[k].memsz < segs[k].filesz)
        THEN Bad(p)
        ELSE IF k \in DOMAIN segs
        THEN Then(p, AllocSteps("new", sz, EndOf(segs[k]))
                     \o <<<<"load", k>>>>)
        ELSE Then(p, AllocSteps("new", top, top + PGSIZE) \o <<<<"commit">>>>)
     /\ UNCHANGED <<free, value, proc, local, leaked, panic>>

\* Pages from address a up to b.
Span(a, b) == {i \in Upages : i * PGSIZE < b /\ (i + 1) * PGSIZE > a}
Fill(pd, S, v) == value' = [q \in Pages |->
                    IF q \in {pd.user[i] : i \in S} THEN v ELSE value[q]]

\* loaduvm(): the pages of the segment that are in the file.  An end that wrapped
\* is no reason for allocuvm() to have the pages: loaduvm() panics, or writes to
\* whatever the address maps to, unless the file was cut short before.
Load(p) ==
  LET k == Arg(p, 2)
      seg == local[p].prog.segs[k]
      there == Reaches(New(p), seg.va, seg.va + seg.filesz)
  IN /\ At(p, "load")
     /\ \/ /\ local[p].sz = 0 \/ (seg.va % PGSIZE = 0 /\ seg.short)
           /\ Bad(p) /\ UNCHANGED <<value, panic>>
        \/ /\ local[p].sz # 0 /\ (seg.va % PGSIZE # 0 \/ ~there)
           /\ panic' \in IF seg.va % PGSIZE # 0 THEN {"loaduvm: addr must be page aligned"}
                         ELSE {"loaduvm: address should exist", "loaduvm: stray write"}
           /\ UNCHANGED <<todo, value>>
        \/ /\ local[p].sz # 0 /\ seg.va % PGSIZE = 0 /\ there /\ ~seg.short
           /\ Fill(New(p), Span(seg.va, seg.va + seg.filesz), "text")
           /\ Then(p, <<<<"segment", k + 1>>>>)
           /\ UNCHANGED panic
     /\ UNCHANGED <<free, proc, local, leaked>>

\* exec(): the arguments on the stack, and on the pages below it when they are
\* larger than a page; then the new image replaces the old.
Commit(p) ==
  LET sz == local[p].sz
      args == local[p].prog.args
  IN /\ At(p, "commit")
     /\ IF sz = 0 \/ args > sz THEN Bad(p) /\ UNCHANGED <<value, proc, local>>
        ELSE /\ Fill(New(p), Span(sz - args, sz), "args")
             /\ proc' = [proc EXCEPT ![p].pgdir = New(p), ![p].sz = sz]
             /\ local' = [local EXCEPT ![p] = [NoLocal EXCEPT !.old = proc[p].pgdir]]
             /\ Only(p, Freevm("old") \o <<<<"failed">>>>)
     /\ UNCHANGED <<free, leaked, panic>>

\* exit(), called or after a page fault (trap()): children go to the first
\* process; memory stays until wait().
Exit(p) ==
  /\ p # First /\ Outside(p)
  /\ proc' = [q \in Procs |->
                IF q = p THEN [proc[p] EXCEPT !.state = "zombie"]
                ELSE IF proc[q].parent = p THEN [proc[q] EXCEPT !.parent = First]
                ELSE proc[q]]
  /\ Only(p, <<>>)
  /\ UNCHANGED <<free, value, local, leaked, panic>>

\* wait(): free the zombie's kernel stack and memory.  ptable.lock is held all
\* the time, so the slot is not taken before the end.
Wait(p, q) ==
  /\ InUser(p) /\ proc[q].state = "zombie" /\ proc[q].parent = p
  /\ Kfree({proc[q].kstack})
  /\ local' = [local EXCEPT ![p] = [NoLocal EXCEPT !.old = proc[q].pgdir]]
  /\ proc' = [proc EXCEPT ![q] = [Unused EXCEPT !.state = "reaped"]]
  /\ Only(p, Freevm("old") \o <<<<"reaped", q>>>>)
  /\ UNCHANGED <<leaked, panic>>

Reaped(p) ==
  /\ At(p, "reaped")
  /\ proc' = [proc EXCEPT ![Arg(p, 2)] = Unused]
  /\ local' = [local EXCEPT ![p] = NoLocal]
  /\ Then(p, <<>>)
  /\ UNCHANGED <<free, value, leaked, panic>>

\* kinit(): n pages are installed.  userinit(): kernel stack, page table and
\* one page for the first process.
Boot(n) ==
  LET tables == 3..(KTABLES + 2)
      mem == KTABLES + 3
  IN /\ free = (mem + 1)..n
     /\ value = [q \in Pages |-> IF q = 1 THEN "stack" ELSE IF q = mem THEN "text"
                                 ELSE IF q < mem THEN "zero"
                                 ELSE IF q > n THEN "absent" ELSE "junk"]
     /\ proc = [p \in Procs |-> IF p # First THEN Unused ELSE
          [state |-> "live", parent |-> First, sz |-> PGSIZE, kstack |-> 1,
           pgdir |-> [dir |-> 2, tables |-> tables,
                      user |-> [i \in Upages |-> IF i = 0 THEN mem ELSE 0]]]]
     /\ todo = [p \in Procs |-> <<>>]
     /\ local = [p \in Procs |-> NoLocal]
     /\ leaked = {} /\ panic = ""

\* A process calls what it likes; the first one (init) does not grow.
Call(p) ==
  \/ \E i \in Upages, v \in Values : Store(p, i, v)
  \/ \E a \in Pointers : Argument(p, a)
  \/ p # First /\ \E n \in Grows : Sbrk(p, n)
  \/ \E q \in Procs : Fork(p, q) \/ Wait(p, q)
  \/ \E prog \in Programs : Exec(p, prog)
  \/ Exit(p)

\* Steps in the kernel that no user program sees the end of, and the others.
Inside(p) ==
  \/ Setupkvm(p) \/ Allocuvm(p) \/ Deallocuvm(p) \/ Freedir(p) \/ Copyuvm(p)
  \/ Segment(p) \/ Load(p)
Ends(p) == Grown(p) \/ Forked(p) \/ Commit(p) \/ Failed(p) \/ Reaped(p)

Next == \E p \in Procs : Call(p) \/ Inside(p) \/ Ends(p)

Spec == Boot(NPAGES) /\ [][Next]_vars

----------------------------------------------------------------------------
(* Correctness.                                                             *)

\* Everything a page can belong to.
Holders == ({"kstack", "pgdir", "new", "old"} \X Procs)
           \cup {<<"free", First>>, <<"leaked", First>>}
Held(h) == CASE h[1] = "free" -> free
             [] h[1] = "leaked" -> leaked
             [] h[1] = "kstack" -> {proc[h[2]].kstack} \ {0}
             [] h[1] = "pgdir" -> PagesOf(proc[h[2]].pgdir)
             [] h[1] = "new" -> PagesOf(local[h[2]].new)
             [] h[1] = "old" -> PagesOf(local[h[2]].old)

\* At every moment, also in the middle of a call that runs out of memory, each
\* page is free, or part of exactly one kernel stack or page table, or one of
\* those setupkvm() lost; and no page table maps a page twice.
PagesAccounted ==
  /\ \A q \in Pages : value[q] # "absent" =>
       Cardinality({h \in Holders : q \in Held(h)}) = 1
  /\ \A p \in Procs : \A i, j \in Mapped(proc[p].pgdir) :
       proc[p].pgdir.user[i] = proc[p].pgdir.user[j] => i = j

\* Outside the kernel, a program has every page below its size, so that
\* copyuvm() and the checks of arguments against proc->sz can rely on it, or
\* none at all, after growproc() called that a failure.  The kernel does not
\* panic, nor trap on an argument that its checks accepted, except where the
\* code does not check.
SizeIsMapped ==
  /\ panic \in {""} \cup Unchecked
  /\ \A p \in Procs : Outside(p) => Mapped(proc[p].pgdir) \in {Below(proc[p].sz), {}}

\* argptr(): "Check that the pointer lies within the process address space."
CountsInside == panic # "stray count"
PstatInside == panic # "stray pstat"

\* loaduvm(): "the pages from addr to addr+sz must already be mapped."
SegmentsMapped == panic \notin {"loaduvm: address should exist", "loaduvm: stray write"}

\* growproc(): "Return 0 on success, -1 on failure": a call that fails leaves the
\* program what its size says.
FailureKeeps ==
  \A p \in Procs : At(p, "grown") /\ Refused(p) =>
    Mapped(proc[p].pgdir) = Below(proc[p].sz)

\* No page is ever lost.
NoLeak == leaked = {}

\* What exec() leaves in memory: the file's part of each segment, zeroes up to
\* the stack, and the arguments on the stack, or from there down.
ImageOf(prog) ==
  LET top == Max({0} \cup {PageUp(EndOf(prog.segs[k])) : k \in DOMAIN prog.segs})
      text == UNION {Span(prog.segs[k].va, prog.segs[k].va + prog.segs[k].filesz) :
                       k \in DOMAIN prog.segs}
      end == (top + 1) * PGSIZE
  IN [i \in 0..top |-> IF i \in Span(end - prog.args, end) THEN "args"
                       ELSE IF i \in text THEN "text" ELSE "zero"]

View == [p \in Procs |->
           [i \in Mapped(proc[p].pgdir) |-> value[proc[p].pgdir.user[i]]]]
Abstract == INSTANCE AddressSpace WITH
              view <- View, MaxPages <- UPAGES,
              Images <- {ImageOf(prog) : prog \in Programs} \cup {[i \in {0} |-> "text"]}

\* The page tables give every process an address space of its own.
ImplementsAddressSpace == Abstract!Spec
=============================================================================
