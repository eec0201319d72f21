------------------------------ MODULE MemTests ------------------------------
(***************************************************************************)
(* The tests of usertests.c and forktest.c that fill the memory, as        *)
(* scripts for the first process and its children on the model of Memory,  *)
(* beside programs that call what they like.  The machine of the scripts   *)
(* has more memory than the other one.  Loops are unrolled with the bounds *)
(* named below.                                                            *)
(***************************************************************************)
EXTENDS Memory, Sequences, SequencesExt

CONSTANTS
  LittleMemory,  \* pages of the machine without scripts
  Echo,          \* a program that runs, for exectest(),
  Usertests,     \* and usertests itself, with a page of bss
  ManyArgs,      \* exec() with the arguments of bigargtest()
  MinCore,       \* what malloc() asks for at least, in headers
  BlockSizes     \* sizes of blocks, in headers, with the block's own

ASSUME MemTestsAssumption ==
  /\ LittleMemory \in (KTABLES + 4)..NPAGES
  /\ MinCore \in Nat \ {0} /\ BlockSizes \subseteq Nat \ (0..1)

VARIABLES
  script,   \* the rest of each process's program; Free when there is none
  kids,     \* the pids the test program got from fork(), 0 for -1 or reaped
  told,     \* bytes in the pipe of sbrktest()
  doomed,   \* processes that were killed
  oops,     \* a test has reported a wrong result
  heap      \* of the one process that calls malloc(): the allocator's list,
            \* the blocks it gave out, and what it got from sbrk()

runVars == <<script, kids, told, doomed, oops>>
testVars == <<runVars, heap>>

U == INSTANCE Umalloc
NoHeap == [list |-> U!NoHeap, held |-> {}, core |-> {}]

Free == <<[do |-> "any"]>>
NotAPid == 0

----------------------------------------------------------------------------
(* Steps of a script, with the results the test accepts.                    *)

Anything == {-1} \cup 0..USERTOP
sbrk(n, want) == [do |-> "sbrk", n |-> n, want |-> want]
\* sbrk(size - sbrk(0))
sbrkTo(size, want) == [do |-> "sbrkTo", size |-> size, want |-> want]
store(i, v) == [do |-> "store", page |-> i, v |-> v]
load(i, want) == [do |-> "load", page |-> i, want |-> want]
fork(child) == [do |-> "fork", child |-> child, must |-> TRUE]
tryFork(child) == [fork(child) EXCEPT !.must = FALSE]
\* Fork until it fails.
forks(child) == [do |-> "forks", child |-> child, must |-> FALSE]
\* One wait(), which may have to return the last pid; one for every child;
\* one too many.
wait == [do |-> "wait", last |-> FALSE]
waitLast == [do |-> "wait", last |-> TRUE]
waits == [do |-> "waits", last |-> FALSE]
waitNone == [do |-> "waitNone"]
kill(k) == [do |-> "kill", k |-> k]
\* write() to the pipe, read() from it if child k was made, sleep for ever.
tell == [do |-> "tell"]
hear(k) == [do |-> "hear", k |-> k]
pause == [do |-> "pause"]
\* malloc() of n headers, which has to succeed or may fail; until it fails;
\* free() of every block; malloc() and free() in any order.
malloc(n) == [do |-> "malloc", n |-> n]
tryMalloc(n) == [do |-> "tryMalloc", n |-> n]
mallocs(n) == [do |-> "mallocs", n |-> n]
frees == [do |-> "frees"]
mallocAny == [do |-> "mallocAny"]
\* Calls that take an int, or a string, from address a.
sleepAt(a) == [do |-> "sleepAt", a |-> a]
linkAt(a) == [do |-> "linkAt", a |-> a]
\* On success the program goes on with `next`.
exec(prog, next) == [do |-> "exec", prog |-> prog, next |-> next, must |-> FALSE]

----------------------------------------------------------------------------
(* The scripts.  Bounds, with the code's numbers:                           *)
MaxHeld == 4         \* blocks the user of the heap has at a time
SmallGrows == 1      \* sbrktest: 5000
Byte == PGSIZE \div 2
ExitWaits == 2       \* exitwait: 100

\* Can one sbrk() less than a page, and all there is, and give it back?
sbrktest1 ==
  LET start == PGSIZE
      a == start + SmallGrows * Byte
  IN <<sbrk(0, {start})>>
     \o FlattenSeq([i \in 1..SmallGrows |->
          <<sbrk(Byte, {start + (i - 1) * Byte}),
            store((start + (i - 1) * Byte) \div PGSIZE, "a")>>])
     \o <<fork(<<sbrk(Byte, Anything), sbrk(Byte, {a + Byte})>>),
          sbrk(Byte, Anything), sbrk(Byte, {a + Byte}), wait,
          sbrkTo(USERTOP, {a + 2 * Byte}), store(UPAGES - 1, "a"),
          sbrk(PGSIZE, {-1}), sbrk(-PGSIZE, 0..USERTOP),
          sbrk(0, {USERTOP - PGSIZE}), sbrk(PGSIZE, {USERTOP - PGSIZE}),
          sbrk(0, {USERTOP}), load(UPAGES - 1, {"zero"}), sbrk(PGSIZE, {-1})>>

\* Can one read the kernel's memory?  Does a failed allocation give back
\* what it got?
sbrktest2 ==
  LET grow(size) == <<sbrkTo(size, Anything), tell, pause>>
  IN <<fork(<<load(UPAGES, {})>>), wait,
       sbrkTo(PGSIZE, Anything),
       tryFork(grow(USERTOP - PGSIZE)), hear(3),
       tryFork(grow(USERTOP - PGSIZE)), hear(4),
       kill(3), wait, fork(grow(USERTOP)), hear(5),
       sbrk(PGSIZE, {PGSIZE}),
       kill(5), wait, kill(4), wait, sbrkTo(PGSIZE, Anything)>>

sbrktest == sbrktest1 \o sbrktest2

bsstest == <<[exec(Usertests, <<load(1, {"zero"})>>) EXCEPT !.must = TRUE]>>
bigargtest == <<fork(<<exec(ManyArgs, <<>>)>>), wait>>
exectest == <<[exec(Echo, <<>>) EXCEPT !.must = TRUE]>>
exitwait == FlattenSeq([i \in 1..ExitWaits |-> <<fork(<<>>), waitLast>>])
forktest == <<forks(<<>>), waits, waitNone>>

\* Sizes that leave a rest in every core, and one that needs merged blocks.
mem == <<tryFork(<<mallocs(MinCore - 2), frees, malloc(MinCore - 1), frees>>), wait>>
\* Every page's first address, up to the first ones that no program has.
validatetest ==
  FlattenSeq([i \in 1..(UPAGES + 2) |->
    <<tryFork(<<sleepAt((i - 1) * PGSIZE)>>), kill(i), wait, linkAt((i - 1) * PGSIZE)>>])

\* Not a test: a program that uses the heap as it likes, while it can grow.
heapUser == <<mallocAny>>

Scripts == {sbrktest, bsstest, bigargtest, exectest, exitwait, forktest, mem,
            validatetest, heapUser}

----------------------------------------------------------------------------
(* Running the scripts.                                                     *)

Init ==
  /\ \E program \in Scripts \cup {Free} :
       /\ script = [p \in Procs |->
                      IF p = First \/ program = Free THEN program ELSE <<>>]
       /\ Boot(IF program = Free THEN LittleMemory ELSE NPAGES)
  /\ kids = <<>> /\ told = 0 /\ doomed = {} /\ oops = FALSE /\ heap = NoHeap

Step(p) == Head(script[p])
Is(p, do) == script[p] # <<>> /\ Step(p).do = do
Can(p, do) == InUser(p) /\ Is(p, do)
Children(p) == {q \in Procs : proc[q].state # "unused" /\ proc[q].parent = p /\ q # p}

Advance(p) == script' = [script EXCEPT ![p] = Tail(@)]
\* The test goes on if the result is accepted.
Judge(p, ok) == /\ oops' = (oops \/ ~ok)
                /\ script' = [script EXCEPT ![p] = IF ok THEN Tail(@) ELSE <<>>]

TestSbrk(p) ==
  /\ \/ Can(p, "sbrk") /\ Sbrk(p, Step(p).n)
     \/ Can(p, "sbrkTo") /\ Sbrk(p, Step(p).size - proc[p].sz)
  /\ UNCHANGED runVars

\* sys_sbrk() returns the old size, or -1.
Mallocing == {"malloc", "mallocs", "tryMalloc"}
Mallocs(p) == \E do \in Mallocing : Is(p, do)
TestGrown(p) ==
  /\ Grown(p) /\ ~Mallocs(p)
  /\ IF Is(p, "any") THEN UNCHANGED <<script, oops>>
     ELSE Judge(p, (IF Refused(p) THEN -1 ELSE proc[p].sz) \in Step(p).want)
  /\ UNCHANGED <<kids, told, doomed>>

\* malloc(): from a free block, or sbrk() for more and, unless that failed,
\* another search.
TestMalloc(p) ==
  LET n == Step(p).n
      list == U!Started(heap.list)
  IN /\ \E do \in Mallocing : Can(p, do)
     /\ IF U!Fits(list, n)
        THEN /\ heap' = [heap EXCEPT !.list = U!Take(list, n),
                                     !.held = @ \cup {U!Taken(list, n)}]
             /\ script' = IF Is(p, "mallocs") THEN script ELSE [script EXCEPT ![p] = Tail(@)]
             /\ UNCHANGED vars
        ELSE /\ heap' = [heap EXCEPT !.list = list]
             /\ Sbrk(p, U!CoreSize(n))
             /\ UNCHANGED script
     /\ UNCHANGED <<kids, told, doomed, oops>>

TestMalloced(p) ==
  LET a == proc[p].sz
      nu == Arg(p, 2)
  IN /\ Grown(p) /\ Mallocs(p)
     /\ IF Refused(p) THEN Judge(p, ~Is(p, "malloc")) /\ UNCHANGED heap
        ELSE /\ heap' = [heap EXCEPT !.list = U!WithCore(@, a, nu),
                                     !.core = @ \cup a..(a + nu - 1)]
             /\ UNCHANGED <<script, oops>>
     /\ UNCHANGED <<kids, told, doomed>>

\* free() of any block; mem() frees the last one first.
TestFree(p) ==
  /\ Can(p, "frees") \/ Can(p, "mallocAny")
  /\ IF heap.held = {} THEN Is(p, "frees") /\ Advance(p) /\ UNCHANGED heap
     ELSE /\ \E b \in heap.held : heap' = [heap EXCEPT !.list = U!Release(@, b),
                                                     !.held = @ \ {b}]
          /\ UNCHANGED script
  /\ UNCHANGED <<vars, kids, told, doomed, oops>>

\* The user of the heap calls malloc(), or sbrk() once for itself, which leaves
\* a hole in the heap.
TestHeap(p) ==
  /\ Can(p, "mallocAny")
  /\ \E step \in {tryMalloc(n) : n \in BlockSizes} \cup {sbrk(1, Anything)} :
       /\ step.do = "sbrk" => proc[p].sz = PGSIZE + Cardinality(heap.core)
       /\ step.do = "tryMalloc" => Cardinality(heap.held) < MaxHeld
       /\ script' = [script EXCEPT ![p] = <<step>> \o @]
  /\ UNCHANGED <<vars, kids, told, doomed, oops>>

\* What the kernel does with an argument is done when its call returns.
TestPointer(p) ==
  LET a == Step(p).a
      accepted == IF Is(p, "sleepAt") THEN Argint(p, a) ELSE Fetchstr(p, a)
  IN /\ Can(p, "sleepAt") \/ Can(p, "linkAt")
     /\ IF ~accepted THEN UNCHANGED vars
        ELSE IF Is(p, "sleepAt") THEN Use(p, a + INTSIZE, a + 2 * INTSIZE, "trap")
        ELSE Use(p, a, proc[p].sz, "trap")
     /\ \/ Advance(p)
        \/ /\ Is(p, "sleepAt") /\ accepted
           /\ script' = [script EXCEPT ![p] = <<pause>> \o Tail(@)]
     /\ UNCHANGED <<kids, told, doomed, oops>>

TestStore(p) ==
  /\ Can(p, "store") /\ Store(p, Step(p).page, Step(p).v)
  /\ Advance(p) /\ UNCHANGED <<kids, told, doomed, oops>>

\* A load from a page that the process does not have is its end (trap()).
TestLoad(p) ==
  /\ Can(p, "load")
  /\ IF Step(p).page \in Mapped(proc[p].pgdir)
     THEN /\ Judge(p, value[proc[p].pgdir.user[Step(p).page]] \in Step(p).want)
          /\ UNCHANGED vars
     ELSE Exit(p) /\ Advance(p) /\ UNCHANGED oops
  /\ UNCHANGED <<kids, told, doomed>>

\* fork() returned the pid q.
Forks(p, q) ==
  /\ kids' = Append(kids, q)
  /\ IF Is(p, "forks") /\ q # NotAPid THEN UNCHANGED <<script, oops>>
     ELSE Judge(p, ~Step(p).must \/ q # NotAPid)
  /\ UNCHANGED <<told, doomed>>

\* fork() fails at once without a slot or a kernel stack.
TestFork(p) ==
  LET unused == {q \in Procs : proc[q].state = "unused"}
  IN /\ Can(p, "fork") \/ Can(p, "forks")
     /\ IF unused = {} \/ free = {} THEN Forks(p, NotAPid) /\ UNCHANGED vars
        ELSE (\E q \in unused : Fork(p, q)) /\ UNCHANGED runVars

TestForked(p) ==
  LET q == local[p].child
  IN /\ Forked(p)
     /\ IF Is(p, "any") THEN UNCHANGED runVars
        ELSE IF New(p).dir = 0 THEN Forks(p, NotAPid)
        ELSE /\ kids' = Append(kids, q)
             /\ script' = [script EXCEPT ![q] = Step(p).child,
                             ![p] = IF Is(p, "forks") THEN @ ELSE Tail(@)]
             /\ UNCHANGED <<told, doomed, oops>>

\* wait() for a child, if there is one.
TestWait(p) ==
  LET unwaited == \E k \in DOMAIN kids : kids[k] # NotAPid
  IN /\ \E do \in {"wait", "waits", "waitNone"} : Can(p, do)
     /\ IF Children(p) = {}
        THEN Judge(p, ~Is(p, "waits") \/ ~unwaited) /\ UNCHANGED vars
        ELSE IF Is(p, "waitNone") THEN Judge(p, FALSE) /\ UNCHANGED vars
        ELSE (\E q \in Procs : Wait(p, q)) /\ UNCHANGED <<script, oops>>
     /\ UNCHANGED <<kids, told, doomed>>

TestReaped(p) ==
  LET q == Arg(p, 2)
  IN /\ Reaped(p)
     /\ IF Is(p, "any") THEN UNCHANGED runVars
        ELSE /\ kids' = [k \in DOMAIN kids |-> IF kids[k] = q THEN NotAPid ELSE kids[k]]
             /\ doomed' = doomed \ {q}
             /\ IF Is(p, "waits") THEN UNCHANGED <<script, oops>>
                ELSE Judge(p, Step(p).last => Last(kids) = q)
             /\ UNCHANGED told

TestKill(p) ==
  /\ Can(p, "kill")
  /\ doomed' = doomed \cup ({kids[Step(p).k]} \ {NotAPid})
  /\ Advance(p) /\ UNCHANGED <<vars, kids, told, oops>>

TestTell(p) ==
  /\ Can(p, "tell") /\ told' = told + 1
  /\ Advance(p) /\ UNCHANGED <<vars, kids, doomed, oops>>

TestHear(p) ==
  /\ Can(p, "hear")
  /\ IF kids[Step(p).k] = NotAPid THEN UNCHANGED told
     ELSE told > 0 /\ told' = told - 1
  /\ Advance(p) /\ UNCHANGED <<vars, kids, doomed, oops>>

\* A process ends at the end of its program, or because it was killed.
TestExit(p) ==
  /\ script[p] = <<>> \/ (Is(p, "pause") /\ p \in doomed)
  /\ Exit(p)
  /\ script' = [script EXCEPT ![p] = <<>>]
  /\ heap' = NoHeap
  /\ UNCHANGED <<kids, told, doomed, oops>>

TestExec(p) ==
  /\ Can(p, "exec") /\ Exec(p, Step(p).prog)
  /\ UNCHANGED runVars

\* exec() returns only when it failed; else the new program runs.
Runs == [do |-> "runs"]
TestCommit(p) ==
  /\ Commit(p)
  /\ script' = IF Is(p, "any") \/ proc'[p] = proc[p] THEN script
               ELSE [script EXCEPT ![p] = <<Runs>> \o Step(p).next]
  /\ UNCHANGED <<kids, told, doomed, oops>>

TestFailed(p) ==
  /\ Failed(p)
  /\ IF Is(p, "any") THEN UNCHANGED <<script, oops>>
     ELSE Judge(p, Is(p, "runs") \/ ~Step(p).must)
  /\ UNCHANGED <<kids, told, doomed>>

Over == script[First] = <<>> /\ todo[First] = <<>>

TestStep(p) ==
  \/ TestSbrk(p) \/ TestStore(p) \/ TestLoad(p) \/ TestFork(p) \/ TestWait(p)
  \/ TestKill(p) \/ TestTell(p) \/ TestHear(p) \/ TestExec(p) \/ TestPointer(p)
  \/ TestHeap(p)
TestEnds(p) ==
  TestGrown(p) \/ TestForked(p) \/ TestReaped(p) \/ TestCommit(p) \/ TestFailed(p)
HeapStep(p) == TestMalloc(p) \/ TestMalloced(p) \/ TestFree(p) \/ TestExit(p)

TestNext ==
  \/ \E p \in Procs : \/ Is(p, "any") /\ Call(p) /\ UNCHANGED testVars
                      \/ Inside(p) /\ UNCHANGED testVars
                      \/ (TestStep(p) \/ TestEnds(p)) /\ UNCHANGED heap
                      \/ HeapStep(p)
  \/ (Over \/ panic # "") /\ UNCHANGED <<vars, testVars>>

TestSpec == Init /\ [][TestNext]_<<vars, testVars>>

----------------------------------------------------------------------------
\* No test reports a wrong result: sizes are what sbrk() said, new memory and
\* the bss are zero, a failed allocation or fork() gives back what it got, so
\* that the next one succeeds, and wait() finds every child once.  And whatever
\* the order of malloc() and free(), the heap consists of blocks side by side.
MemoryTestsPass == ~oops /\ U!Sound(heap.list, heap.held, heap.core)
=============================================================================
