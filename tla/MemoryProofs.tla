---------------------------- MODULE MemoryProofs ----------------------------
(***************************************************************************)
(* Proofs about the memory of processes, for any number of processes and   *)
(* pages, any layout of the address space and any programs.                *)
(***************************************************************************)
EXTENDS Memory, NatLemmas, FiniteSetTheorems, SequenceTheorems, TLAPS

----------------------------------------------------------------------------
(***************************************************************************)
(* Types.                                                                  *)
(***************************************************************************)

States == {"unused", "embryo", "live", "zombie", "reaped"}
PgDirs == [dir : Pages \cup {0}, tables : SUBSET Pages, user : [Upages -> Pages \cup {0}]]

Types ==
  /\ free \subseteq Pages /\ leaked \subseteq Pages
  /\ DOMAIN value = Pages
  /\ proc \in [Procs -> [state : States, parent : Procs, sz : 0..USERTOP, pgdir : PgDirs,
                         kstack : Pages \cup {0}]]
  /\ local \in [Procs -> [new : PgDirs, sz : Nat, child : Procs, old : PgDirs,
                          prog : Programs \cup {0}]]
  /\ DOMAIN todo = Procs

----------------------------------------------------------------------------
(***************************************************************************)
(* Where a process is in the kernel, and what it has done so far.          *)
(***************************************************************************)

Own(p) == proc[p].pgdir
Old(p) == local[p].old
Size(p) == proc[p].sz

\* Nothing is built and nothing is given back.
Clear(p) == New(p) = NoDir /\ Old(p) = NoDir
\* The new page table has no page from the i-th on.
Blank(p, i) == \A k \in Upages : k >= i => New(p).user[k] = 0

\* What follows a call of allocuvm() in exec(), and the freeing of a page table:
\* of the new one when fork() or exec() fails, of the old one at the end of
\* exec() and of wait().
Loads == {<<"load", k>> : k \in Nat \ {0}} \cup {<<"commit">>}
LastOf(w) == IF w = "new" THEN {<<"forked">>, <<"failed">>}
             ELSE {<<"failed">>} \cup {<<"reaped", q>> : q \in Procs}

\* In fork(), and in exec(), the old page table is not in question.
Execing(p) == Old(p) = NoDir /\ local[p].prog \in Programs /\ local[p].sz <= USERTOP
Built(p) == Execing(p) /\ New(p).dir # 0

InSetupkvm(p) ==
  /\ Old(p) = NoDir /\ Blank(p, 0)
  /\ \/ todo[p] = <<<<"setupkvm">>, <<"copyuvm", 0>>, <<"forked">>>>
     \/ todo[p] = <<<<"setupkvm">>, <<"segment", 1>>>> /\ Execing(p)

InAllocuvm(p) ==
  \E w \in {"own", "new"}, o \in 0..USERTOP, m, i \in Nat : \E e :
    /\ todo[p] = <<<<"allocuvm", w, o, m, i>>, e>>
    /\ \/ w = "own" /\ Clear(p) /\ \E n \in Int : e = <<"grown", n>>
       \/ w = "new" /\ Built(p) /\ e \in Loads

InDeallocuvm(p) ==
  \/ \E w \in {"own", "new"}, o \in 0..USERTOP, j \in Nat : \E e :
       /\ todo[p] = <<<<"deallocuvm", w, o, j>>, e>>
       /\ \/ /\ w = "own" /\ Clear(p) /\ local[p].sz <= USERTOP
             /\ \E n \in Int : e = <<"grown", n>>
          \/ w = "new" /\ Built(p) /\ e \in Loads
  \/ \E w \in {"new", "old"}, j \in Nat : \E e :
       /\ todo[p] = <<<<"deallocuvm", w, USERTOP, j>>, <<"freedir", w>>, e>>
       /\ e \in LastOf(w) /\ IF w = "new" THEN Old(p) = NoDir ELSE New(p) = NoDir

InFreedir(p) ==
  \E w \in {"new", "old"} : \E e :
    /\ todo[p] = <<<<"freedir", w>>, e>>
    /\ e \in LastOf(w) /\ IF w = "new" THEN Old(p) = NoDir ELSE New(p) = NoDir

InCopyuvm(p) ==
  \E i \in Nat : todo[p] = <<<<"copyuvm", i>>, <<"forked">>>> /\ Old(p) = NoDir /\ Blank(p, i)

InSegment(p) == Execing(p) /\ \E k \in Nat \ {0} : todo[p] = <<<<"segment", k>>>>
InLoad(p) == Built(p) /\ \E k \in Nat \ {0} : todo[p] = <<<<"load", k>>>>
InCommit(p) == Built(p) /\ todo[p] = <<<<"commit">>>>
InGrown(p) == Clear(p) /\ local[p].sz <= USERTOP /\ \E n \in Int : todo[p] = <<<<"grown", n>>>>
InForked(p) == Old(p) = NoDir /\ todo[p] = <<<<"forked">>>>
InFailed(p) == Clear(p) /\ todo[p] = <<<<"failed">>>>
InReaped(p) == Clear(p) /\ \E q \in Procs : todo[p] = <<<<"reaped", q>>>>
InNothing(p) == Clear(p) /\ todo[p] = <<>>

Course(p) ==
  \/ InSetupkvm(p) \/ InAllocuvm(p) \/ InDeallocuvm(p) \/ InFreedir(p) \/ InCopyuvm(p)
  \/ InSegment(p) \/ InLoad(p) \/ InCommit(p)
  \/ InGrown(p) \/ InForked(p) \/ InFailed(p) \/ InReaped(p) \/ InNothing(p)

Final(s) == s[Len(s)]
\* p is in fork() and makes process q; p is in wait() and frees process q.
Makes(p, q) == /\ todo[p] # <<>> /\ Final(todo[p]) = <<"forked">>
               /\ local[p].child = q
Reaps(p, q) == todo[p] # <<>> /\ Final(todo[p]) = <<"reaped", q>>

\* A slot without a process has no memory; one that a fork() or a wait() works
\* on is that call's own.
Slots ==
  /\ \A p \in Procs :
       /\ proc[p].state \notin {"live", "zombie"} => Own(p) = NoDir
       /\ proc[p].state \in {"unused", "reaped"} <=> proc[p].kstack = 0
       /\ proc[p].state # "live" => todo[p] = <<>>
       /\ New(p).dir = 0 => New(p) = NoDir
  /\ \A p, q \in Procs : /\ Makes(p, q) => proc[q].state = "embryo"
                         /\ Reaps(p, q) => proc[q].state = "reaped"
  /\ \A p, q, r \in Procs : /\ Makes(p, q) /\ Makes(r, q) => p = r
                            /\ Reaps(p, q) /\ Reaps(r, q) => p = r


----------------------------------------------------------------------------
(***************************************************************************)
(* Arithmetic of pages, and sequences of steps.                            *)
(***************************************************************************)

\* The constants.
LEMMA Bounds ==
  /\ NPAGES \in Nat \ {0} /\ PGSIZE \in Nat \ {0} /\ UPAGES \in Nat \ {0} /\ KTABLES \in Nat \ {0}
  /\ USERTOP \in Nat /\ USERTOP = UPAGES * PGSIZE /\ Pages \subseteq Nat \ {0} /\ 0 \notin Pages
  /\ Upages \subseteq Nat /\ \A i \in Nat : i \in Upages <=> i < UPAGES
  /\ First \in Procs
<1>1. NPAGES \in Nat \ {0} /\ PGSIZE \in Nat \ {0} /\ UPAGES \in Nat \ {0} /\ KTABLES \in Nat \ {0} /\ First \in Procs
  BY MemoryAssumption
<1> QED
  BY <1>1 DEF Pages, Upages, USERTOP

\* Addresses, and the ints that are passed as sizes.
LEMMA Addresses ==
  /\ ADDRESSES \in Nat \ {0} /\ INTSIZE \in Nat /\ MAXFILE \in Nat /\ PSTAT \in Nat
  /\ \A s \in Sizes : s \in Int /\ s + USERTOP < ADDRESSES
  /\ \A a \in Pointers : a \in Nat
  /\ USERTOP + INTSIZE < ADDRESSES
<1>1. /\ INTSIZE \in Nat /\ MAXFILE \in Nat /\ PSTAT \in Nat
      /\ ADDRESSES \in Nat /\ ADDRESSES \div 2 > UPAGES * PGSIZE + INTSIZE
      /\ Pointers \subseteq Uints /\ Sizes \subseteq Ints
  BY MemoryAssumption
<1>2. USERTOP \in Nat /\ USERTOP = UPAGES * PGSIZE
  BY Bounds
<1>3. ADDRESSES \div 2 > USERTOP + INTSIZE /\ 2 * (ADDRESSES \div 2) <= ADDRESSES
  BY <1>1, <1>2
<1>4. ADDRESSES \div 2 \in Nat
  BY <1>1
<1>5. \A s \in Sizes : s \in Int /\ s <= ADDRESSES \div 2 - 1
  BY <1>1, <1>4 DEF Ints
<1>6. \A a \in Pointers : a \in Nat
  BY <1>1 DEF Uints
<1> QED
  BY <1>1, <1>2, <1>3, <1>4, <1>5, <1>6

\* kalloc() returns a page of the list.
LEMMA PageFree ==
  ASSUME free # {}, free \subseteq Pages
  PROVE  Page \in free /\ Page \in Pages
<1>1. PICK n \in free : \A m \in free : n <= m
  BY LeastElement, Bounds
<1> QED
  BY <1>1 DEF Page, Min

\* PageUp(a) is the first page from address a on.
LEMMA PageUpIs ==
  ASSUME NEW a \in Nat
  PROVE  PageUp(a) \in Nat /\ \A i \in Nat : i * PGSIZE >= a <=> i >= PageUp(a)
<1> DEFINE g == PGSIZE  n == PageUp(a)
<1>1. g \in Nat /\ g > 0
  BY Bounds
<1> HIDE DEF g
<1>2. n \in Nat /\ n * g <= a + g - 1 /\ a + g - 1 < (n + 1) * g
  <2>1. n = (a + g - 1) \div g
    BY DEF g, PageUp
  <2> HIDE DEF n
  <2>2. a + g - 1 \in Nat
    BY <1>1
  <2> QED
    BY <1>1, <2>1, <2>2
<1> HIDE DEF n
<1>3. ASSUME NEW i \in Nat PROVE i * g >= a <=> i >= n
  <2>1. CASE i >= n
    <3>1. PICK d \in Nat : i = n + d
      BY <1>2, <2>1, i - n \in Nat
    <3>2. d * g >= 0
      BY <1>1
    <3>3. i * g = n * g + d * g
      BY <1>1, <1>2, <3>1
    <3>4. n * g >= a
      BY <1>1, <1>2
    <3> QED
      BY <1>1, <1>2, <2>1, <3>2, <3>3, <3>4
  <2>2. CASE i < n
    <3>1. PICK d \in Nat : n = i + 1 + d
      BY <1>2, <2>2, n - i - 1 \in Nat
    <3>2. d * g >= 0
      BY <1>1
    <3>3. n * g = i * g + g + d * g
      BY <1>1, <1>2, <3>1
    <3>4. i * g \in Nat /\ n * g \in Nat
      BY <1>1, <1>2
    <3> QED
      BY <1>1, <1>2, <2>2, <3>2, <3>3, <3>4
  <2> QED
    BY <1>2, <2>1, <2>2
<1> QED
  BY <1>2, <1>3 DEF g, n

\* It grows with the address.
LEMMA PageUpGrows ==
  ASSUME NEW a \in Nat, NEW b \in Nat, a <= b
  PROVE  PageUp(a) <= PageUp(b)
<1> DEFINE n == PageUp(b)
<1>1. n \in Nat /\ n * PGSIZE >= b
  BY PageUpIs
<1>2. n * PGSIZE \in Nat
  BY <1>1, Bounds
<1>3. n * PGSIZE >= a
  BY <1>1, <1>2
<1> QED
  BY <1>1, <1>3, PageUpIs

\* Whole pages.
LEMMA PageUpWhole ==
  /\ PageUp(0) = 0
  /\ \A t \in Nat : /\ PageUp(t * PGSIZE) = t /\ PageUp(t * PGSIZE + PGSIZE) = t + 1
                    /\ t * PGSIZE \in Nat /\ (t + 1) * PGSIZE = t * PGSIZE + PGSIZE
<1>1. ASSUME NEW t \in Nat PROVE PageUp(t * PGSIZE) = t /\ t * PGSIZE \in Nat
  <2>1. t * PGSIZE \in Nat
    BY Bounds
  <2>2. PageUp(t * PGSIZE) \in Nat /\ \A i \in Nat : i * PGSIZE >= t * PGSIZE <=> i >= PageUp(t * PGSIZE)
    BY <2>1, PageUpIs
  <2>3. t >= PageUp(t * PGSIZE)
    BY <2>1, <2>2
  <2>4. ASSUME NEW i \in Nat, i < t PROVE ~(i * PGSIZE >= t * PGSIZE)
    <3>1. PICK d \in Nat : t = i + 1 + d
      BY <2>4, t - i - 1 \in Nat
    <3>2. t * PGSIZE = i * PGSIZE + PGSIZE + d * PGSIZE /\ d * PGSIZE \in Nat /\ i * PGSIZE \in Nat
      BY <3>1, Bounds
    <3> QED
      BY <3>2, Bounds
  <2> QED
    BY <2>1, <2>2, <2>3, <2>4
<1>2. ASSUME NEW t \in Nat PROVE (t + 1) * PGSIZE = t * PGSIZE + PGSIZE
  BY Bounds
<1>3. PageUp(0) = 0
  <2>1. 0 * PGSIZE = 0
    BY Bounds
  <2> QED
    BY <1>1, <2>1
<1>4. ASSUME NEW t \in Nat PROVE PageUp(t * PGSIZE + PGSIZE) = t + 1
  <2>1. t + 1 \in Nat
    OBVIOUS
  <2> QED
    BY <1>1, <1>2, <2>1
<1> QED
  BY <1>1, <1>2, <1>3, <1>4

\* Sizes up to USERTOP have pages; a size that is not 0 has one.
LEMMA PageUpTop ==
  ASSUME NEW a \in Nat
  PROVE  /\ a <= USERTOP => PageUp(a) <= UPAGES
         /\ a > 0 => PageUp(a) > 0
<1>1. a <= USERTOP => PageUp(a) <= UPAGES
  BY PageUpIs, Bounds
<1>2. ASSUME a > 0 PROVE PageUp(a) > 0
  <2>1. ~(0 * PGSIZE >= a)
    BY <1>2, Bounds
  <2> QED
    BY <2>1, PageUpIs
<1> QED
  BY <1>1, <1>2

\* A span of addresses is on pages below its end.
LEMMA SpanBelow ==
  ASSUME NEW a \in Nat, NEW b \in Nat, NEW c \in Nat, b <= c
  PROVE  \A i \in Span(a, b) : i \in Upages /\ i < PageUp(c)
<1> SUFFICES ASSUME NEW i \in Span(a, b) PROVE i \in Upages /\ i < PageUp(c)
  OBVIOUS
<1>1. i \in Upages /\ i \in Nat /\ i * PGSIZE < b
  BY Bounds DEF Span
<1>2. i * PGSIZE \in Nat
  BY <1>1, Bounds
<1>3. ~(i * PGSIZE >= c)
  BY <1>1, <1>2
<1> QED
  BY <1>1, <1>3, PageUpIs

\* A page of the addresses from a up to b is one of those between theirs.
LEMMA SpanReached ==
  ASSUME NEW pd, NEW a \in Nat, NEW c \in Nat, a % PGSIZE = 0, Reaches(pd, a, a + c)
  PROVE  Span(a, a + c) \subseteq Mapped(pd)
<1> SUFFICES ASSUME NEW i \in Span(a, a + c) PROVE i \in Mapped(pd)
  OBVIOUS
<1>1. i \in Upages /\ i \in Nat /\ i * PGSIZE < a + c /\ (i + 1) * PGSIZE > a
      /\ PGSIZE \in Nat \ {0}
  BY Bounds DEF Span
<1>2. PICK x \in Nat : x = i * PGSIZE
  BY <1>1
<1>3. (i + 1) * PGSIZE = x + PGSIZE
  BY <1>1, <1>2
<1>4. a \div PGSIZE <= i
  <2> DEFINE d == a \div PGSIZE
  <2>1. d \in Nat /\ d * PGSIZE <= a
    BY <1>1
  <2> HIDE DEF d
  <2>2. d * PGSIZE < (i + 1) * PGSIZE
    BY <1>1, <2>1, (i + 1) * PGSIZE \in Nat, d * PGSIZE \in Nat
  <2>3. ~(d >= i + 1)
    <3>1. ASSUME d >= i + 1 PROVE FALSE
      <4>1. PICK e \in Nat : d = i + 1 + e
        BY <1>1, <2>1, <3>1, d - (i + 1) \in Nat
      <4>2. d * PGSIZE = (i + 1) * PGSIZE + e * PGSIZE /\ e * PGSIZE \in Nat
        BY <1>1, <4>1
      <4> QED
        BY <1>1, <2>2, <4>2, (i + 1) * PGSIZE \in Nat
    <3> QED
      BY <3>1
  <2> QED
    BY <1>1, <2>1, <2>3 DEF d
<1>5. i <= (a + c - 1) \div PGSIZE
  <2>1. a + c - 1 \in Nat /\ x <= a + c - 1
    BY <1>1, <1>2
  <2> QED
    BY <1>1, <1>2, <2>1
<1> QED
  BY <1>1, <1>4, <1>5 DEF Reaches

\* Pages below a size.
LEMMA BelowIs ==
  ASSUME NEW a \in Nat
  PROVE  Below(a) = {i \in Upages : i < PageUp(a)}
<1>1. ASSUME NEW i \in Upages PROVE i * PGSIZE < a <=> i < PageUp(a)
  <2>1. i \in Nat /\ i * PGSIZE \in Nat /\ PageUp(a) \in Nat
    BY PageUpIs, Bounds
  <2>2. i * PGSIZE >= a <=> i >= PageUp(a)
    BY <2>1, PageUpIs
  <2> QED
    BY <2>1, <2>2
<1> QED
  BY <1>1 DEF Below

\* Sequences of up to three steps.
LEMMA Tails ==
  /\ \A a : Tail(<<a>>) = <<>> /\ Head(<<a>>) = a /\ <<a>> # <<>>
  /\ \A a, b : Tail(<<a, b>>) = <<b>> /\ Head(<<a, b>>) = a /\ <<a, b>> # <<>>
  /\ \A a, b, c : /\ Tail(<<a, b, c>>) = <<b, c>> /\ Head(<<a, b, c>>) = a
                  /\ <<a, b, c>> # <<>>
<1>1. \A a : Tail(<<a>>) = <<>> /\ Head(<<a>>) = a /\ <<a>> # <<>>
  OBVIOUS
<1>2. \A a, b : Tail(<<a, b>>) = <<b>> /\ Head(<<a, b>>) = a /\ <<a, b>> # <<>>
  OBVIOUS
<1>3. \A a, b, c : Tail(<<a, b, c>>) = <<b, c>> /\ Head(<<a, b, c>>) = a /\ <<a, b, c>> # <<>>
  OBVIOUS
<1> QED
  BY <1>1, <1>2, <1>3

\* A sequence that starts with s and goes on with t.
LEMMA JoinedIs ==
  ASSUME NEW S, NEW s \in Seq(S), NEW t \in Seq(S), NEW u \in Seq(S),
         Len(u) = Len(s) + Len(t), \A i \in 1..Len(s) : u[i] = s[i],
         \A i \in 1..Len(t) : u[Len(s) + i] = t[i]
  PROVE  s \o t = u
<1>1. Len(s) \in Nat /\ Len(t) \in Nat
  OBVIOUS
<1>2. ASSUME NEW i \in 1..(Len(s) + Len(t)) PROVE (s \o t)[i] = u[i]
  <2>1. (s \o t)[i] = IF i <= Len(s) THEN s[i] ELSE t[i - Len(s)]
    BY ConcatProperties
  <2>2. CASE i <= Len(s)
    BY <1>1, <2>1, <2>2
  <2>3. CASE i > Len(s)
    <3>1. i - Len(s) \in 1..Len(t) /\ Len(s) + (i - Len(s)) = i
      BY <1>1, <2>3
    <3>2. u[i] = t[i - Len(s)]
      BY <3>1
    <3> QED
      BY <1>1, <2>1, <2>3, <3>2
  <2> QED
    BY <1>1, <2>2, <2>3
<1>3. s \o t \in Seq(S) /\ Len(s \o t) = Len(s) + Len(t)
  BY ConcatProperties
<1> QED
  BY <1>2, <1>3, SeqEqual

\* Two short sequences, put together.
LEMMA Joined ==
  ASSUME NEW a, NEW b, NEW c
  PROVE  /\ <<>> \o <<>> = <<>>
         /\ <<>> \o <<a>> = <<a>> /\ <<a>> \o <<>> = <<a>>
         /\ <<>> \o <<a, b>> = <<a, b>> /\ <<a, b>> \o <<>> = <<a, b>>
         /\ <<a>> \o <<b>> = <<a, b>>
         /\ <<a>> \o <<b, c>> = <<a, b, c>> /\ <<a, b>> \o <<c>> = <<a, b, c>>
<1> DEFINE T == {a, b, c}
<1>1. <<>> \in Seq(T) /\ <<a>> \in Seq(T) /\ <<a, b>> \in Seq(T)
  OBVIOUS
<1>2. <<>> \o <<>> = <<>> /\ <<>> \o <<a>> = <<a>> /\ <<a>> \o <<>> = <<a>>
      /\ <<>> \o <<a, b>> = <<a, b>> /\ <<a, b>> \o <<>> = <<a, b>>
  BY <1>1, ConcatEmptySeq
<1>3. <<a>> \o <<b>> = <<a, b>>
  <2> DEFINE s == <<a>>  t == <<b>>  u == <<a, b>>
  <2>1. s \in Seq(T) /\ t \in Seq(T) /\ u \in Seq(T) /\ Len(s) = 1 /\ Len(t) = 1 /\ Len(u) = 2
    OBVIOUS
  <2>2. u[1] = a /\ u[2] = b /\ s[1] = a /\ t[1] = b
    OBVIOUS
  <2> HIDE DEF s, t, u, T
  <2>3. Len(u) = Len(s) + Len(t) /\ (\A i \in 1..Len(s) : u[i] = s[i])
        /\ \A i \in 1..Len(t) : u[Len(s) + i] = t[i]
    BY <2>1, <2>2
  <2>4. s \o t = u
    BY <2>1, <2>3, JoinedIs
  <2> QED
    BY <2>4 DEF s, t, u
<1>4. <<a>> \o <<b, c>> = <<a, b, c>>
  <2> DEFINE s == <<a>>  t == <<b, c>>  u == <<a, b, c>>
  <2>1. s \in Seq(T) /\ t \in Seq(T) /\ u \in Seq(T) /\ Len(s) = 1 /\ Len(t) = 2 /\ Len(u) = 3
    OBVIOUS
  <2>2. u[1] = a /\ u[2] = b /\ u[3] = c /\ s[1] = a /\ t[1] = b /\ t[2] = c
    OBVIOUS
  <2> HIDE DEF s, t, u, T
  <2>3. Len(u) = Len(s) + Len(t) /\ (\A i \in 1..Len(s) : u[i] = s[i])
        /\ \A i \in 1..Len(t) : u[Len(s) + i] = t[i]
    BY <2>1, <2>2
  <2>4. s \o t = u
    BY <2>1, <2>3, JoinedIs
  <2> QED
    BY <2>4 DEF s, t, u
<1>5. <<a, b>> \o <<c>> = <<a, b, c>>
  <2> DEFINE s == <<a, b>>  t == <<c>>  u == <<a, b, c>>
  <2>1. s \in Seq(T) /\ t \in Seq(T) /\ u \in Seq(T) /\ Len(s) = 2 /\ Len(t) = 1 /\ Len(u) = 3
    OBVIOUS
  <2>2. u[1] = a /\ u[2] = b /\ u[3] = c /\ s[1] = a /\ s[2] = b /\ t[1] = c
    OBVIOUS
  <2> HIDE DEF s, t, u, T
  <2>3. Len(u) = Len(s) + Len(t) /\ (\A i \in 1..Len(s) : u[i] = s[i])
        /\ \A i \in 1..Len(t) : u[Len(s) + i] = t[i]
    BY <2>1, <2>2
  <2>4. s \o t = u
    BY <2>1, <2>3, JoinedIs
  <2> QED
    BY <2>4 DEF s, t, u
<1> QED
  BY <1>2, <1>3, <1>4, <1>5

----------------------------------------------------------------------------
(***************************************************************************)
(* Who has each page.  Pages 1..n are installed; F is the free list, L the *)
(* pages that are lost, K[p] the kernel stack of p and T[p][w] its page    *)
(* tables: its own, the one it builds, and the one it gives back.          *)
(***************************************************************************)

Which == {"own", "new", "old"}

\* own[q] is the one place where page q is.
PlaceOf(own, F, L, K, T, q) ==
  \/ own[q].kind = "free" /\ q \in F
  \/ own[q].kind = "leaked" /\ q \in L
  \/ own[q].kind = "kstack" /\ own[q].proc \in Procs /\ K[own[q].proc] = q
  \/ /\ own[q].proc \in Procs /\ own[q].which \in Which
     /\ \/ own[q].kind = "dir" /\ T[own[q].proc][own[q].which].dir = q
        \/ own[q].kind = "table" /\ q \in T[own[q].proc][own[q].which].tables
        \/ /\ own[q].kind = "user" /\ own[q].page \in Upages
           /\ T[own[q].proc][own[q].which].user[own[q].page] = q

\* Page x of the table w of p is own's, as the given kind.
IsAt(own, n, x, k, p, w) ==
  x \in 1..n /\ own[x].kind = k /\ own[x].proc = p /\ own[x].which = w

AllAt(own, n, T, p, w) ==
  /\ T[p][w].dir # 0 => IsAt(own, n, T[p][w].dir, "dir", p, w)
  /\ \A x \in T[p][w].tables : IsAt(own, n, x, "table", p, w)
  /\ \A i \in Upages : T[p][w].user[i] # 0 =>
       IsAt(own, n, T[p][w].user[i], "user", p, w) /\ own[T[p][w].user[i]].page = i

Assigned(own, n, F, L, K, T) ==
  /\ F \subseteq 1..n /\ L \subseteq 1..n
  /\ \A q \in 1..n : PlaceOf(own, F, L, K, T, q)
  /\ \A q \in F : own[q].kind = "free"
  /\ \A q \in L : own[q].kind = "leaked"
  /\ \A p \in Procs : K[p] # 0 => K[p] \in 1..n /\ own[K[p]].kind = "kstack" /\ own[K[p]].proc = p
  /\ \A p \in Procs, w \in Which : AllAt(own, n, T, p, w)

Account(n, F, L, K, T) == \E own : Assigned(own, n, F, L, K, T)

\* T2 is T with page table w of p replaced by pd.
OneTable(T2, T, p, w, pd) ==
  \A r \in Procs, v \in Which : T2[r][v] = IF r = p /\ v = w THEN pd ELSE T[r][v]

\* A free page becomes a kernel stack.
LEMMA TakeStack ==
  ASSUME NEW n \in Nat, NEW F, NEW L, NEW K, NEW T, NEW K2, Account(n, F, L, K, T),
         NEW q \in F, NEW p \in Procs, K[p] = 0,
         \A r \in Procs : K2[r] = IF r = p THEN q ELSE K[r]
  PROVE  Account(n, F \ {q}, L, K2, T)
<1>1. PICK own : Assigned(own, n, F, L, K, T)
  BY DEF Account
<1> DEFINE own2 == [x \in 1..n |-> IF x = q THEN [kind |-> "kstack", proc |-> p, which |-> "own", page |-> 0]
                                   ELSE own[x]]
<1>2. \A x \in 1..n : x # q => own2[x] = own[x]
  OBVIOUS
<1>3. q \in 1..n /\ own2[q].kind = "kstack" /\ own2[q].proc = p /\ q # 0
  BY <1>1 DEF Assigned, AllAt, IsAt
<1> HIDE DEF own2
<1>4. Assigned(own2, n, F \ {q}, L, K2, T)
  <2>1. (F \ {q}) \subseteq 1..n /\ (L) \subseteq 1..n
    BY <1>1, <1>2, <1>3 DEF Assigned
  <2>2. ASSUME NEW x \in 1..n PROVE PlaceOf(own2, F \ {q}, L, K2, T, x)
    <3>1. PlaceOf(own, F, L, K, T, x)
      BY <1>1 DEF Assigned
    <3>2. CASE own2[x] = own[x]
      BY <1>1, <1>2, <1>3, <3>1, <3>2, SMTT(30) DEF PlaceOf
    <3>3. CASE own2[x] # own[x]
      BY <1>1, <1>2, <1>3, <3>1, <3>3, SMTT(30) DEF PlaceOf
    <3> QED
      BY <3>2, <3>3
  <2>3. (\A x \in F \ {q} : own2[x].kind = "free") /\ (\A x \in L : own2[x].kind = "leaked")
    BY <1>1, <1>2, <1>3 DEF Assigned
  <2>4. \A r \in Procs : K2[r] # 0 =>
          K2[r] \in 1..n /\ own2[K2[r]].kind = "kstack" /\ own2[K2[r]].proc = r
    BY <1>1, <1>2, <1>3 DEF Assigned, AllAt, IsAt
  <2>5. \A r \in Procs, v \in Which : AllAt(own2, n, T, r, v)
    BY <1>1, <1>2, <1>3, SMTT(30) DEF Assigned, AllAt, IsAt
  <2> QED
    BY <2>1, <2>2, <2>3, <2>4, <2>5 DEF Assigned, AllAt, IsAt
<1> QED
  BY <1>4 DEF Account

\* A free page becomes a user page, a page directory, or a page table.
LEMMA TakeUser ==
  ASSUME NEW n \in Nat, NEW F, NEW L, NEW K, NEW T, NEW T2, Account(n, F, L, K, T),
         NEW q \in F, NEW p \in Procs, NEW w \in Which, NEW i \in Upages,
         T[p][w] \in PgDirs, T[p][w].user[i] = 0,
         OneTable(T2, T, p, w, [T[p][w] EXCEPT !.user[i] = q])
  PROVE  Account(n, F \ {q}, L, K, T2)
<1>1. PICK own : Assigned(own, n, F, L, K, T)
  BY DEF Account
<1> DEFINE own2 == [x \in 1..n |-> IF x = q THEN [kind |-> "user", proc |-> p, which |-> w, page |-> i]
                                   ELSE own[x]]
<1>2. \A x \in 1..n : x # q => own2[x] = own[x]
  OBVIOUS
<1>3. /\ q \in 1..n /\ own2[q].kind = "user" /\ own2[q].proc = p /\ own2[q].which = w
      /\ own2[q].page = i /\ q # 0
  BY <1>1 DEF Assigned, AllAt, IsAt
<1> HIDE DEF own2
<1>4. /\ T2[p][w].dir = T[p][w].dir /\ T2[p][w].tables = T[p][w].tables
      /\ \A j \in Upages : T2[p][w].user[j] = IF j = i THEN q ELSE T[p][w].user[j]
      /\ \A r \in Procs, v \in Which : (r # p \/ v # w) => T2[r][v] = T[r][v]
  BY DEF OneTable, PgDirs
<1>5. Assigned(own2, n, F \ {q}, L, K, T2)
  <2>1. (F \ {q}) \subseteq 1..n /\ (L) \subseteq 1..n
    BY <1>1, <1>2, <1>3, <1>4 DEF Assigned
  <2>2. ASSUME NEW x \in 1..n PROVE PlaceOf(own2, F \ {q}, L, K, T2, x)
    <3>1. PlaceOf(own, F, L, K, T, x)
      BY <1>1 DEF Assigned
    <3>2. CASE own2[x] = own[x]
      BY <1>1, <1>2, <1>3, <1>4, <3>1, <3>2, SMTT(30) DEF PlaceOf
    <3>3. CASE own2[x] # own[x]
      BY <1>1, <1>2, <1>3, <1>4, <3>1, <3>3, SMTT(30) DEF PlaceOf
    <3> QED
      BY <3>2, <3>3
  <2>3. (\A x \in F \ {q} : own2[x].kind = "free") /\ (\A x \in L : own2[x].kind = "leaked")
    BY <1>1, <1>2, <1>3, <1>4 DEF Assigned
  <2>4. \A r \in Procs : K[r] # 0 =>
          K[r] \in 1..n /\ own2[K[r]].kind = "kstack" /\ own2[K[r]].proc = r
    BY <1>1, <1>2, <1>3, <1>4 DEF Assigned, AllAt, IsAt
  <2>5. \A r \in Procs, v \in Which : AllAt(own2, n, T2, r, v)
    BY <1>1, <1>2, <1>3, <1>4, SMTT(30) DEF Assigned, AllAt, IsAt
  <2> QED
    BY <2>1, <2>2, <2>3, <2>4, <2>5 DEF Assigned, AllAt, IsAt
<1> QED
  BY <1>5 DEF Account

\* A free page becomes the directory of a new page table.
LEMMA TakeDir ==
  ASSUME NEW n \in Nat, NEW F, NEW L, NEW K, NEW T, NEW T2, Account(n, F, L, K, T),
         NEW q \in F, NEW p \in Procs, NEW w \in Which, T[p][w] = NoDir,
         OneTable(T2, T, p, w, [NoDir EXCEPT !.dir = q])
  PROVE  Account(n, F \ {q}, L, K, T2)
<1>1. PICK own : Assigned(own, n, F, L, K, T)
  BY DEF Account
<1> DEFINE own2 == [x \in 1..n |-> IF x = q THEN [kind |-> "dir", proc |-> p, which |-> w, page |-> 0]
                                   ELSE own[x]]
<1>2. \A x \in 1..n : x # q => own2[x] = own[x]
  OBVIOUS
<1>3. q \in 1..n /\ own2[q].kind = "dir" /\ own2[q].proc = p /\ own2[q].which = w /\ q # 0
  BY <1>1 DEF Assigned, AllAt, IsAt
<1> HIDE DEF own2
<1>4. /\ T2[p][w].dir = q /\ T2[p][w].tables = {} /\ T[p][w].tables = {}
      /\ \A j \in Upages : T2[p][w].user[j] = 0 /\ T[p][w].user[j] = 0
      /\ T[p][w].dir = 0
      /\ \A r \in Procs, v \in Which : (r # p \/ v # w) => T2[r][v] = T[r][v]
  BY DEF OneTable, NoDir
<1>5. Assigned(own2, n, F \ {q}, L, K, T2)
  <2>1. (F \ {q}) \subseteq 1..n /\ (L) \subseteq 1..n
    BY <1>1, <1>2, <1>3, <1>4 DEF Assigned
  <2>2. ASSUME NEW x \in 1..n PROVE PlaceOf(own2, F \ {q}, L, K, T2, x)
    <3>1. PlaceOf(own, F, L, K, T, x)
      BY <1>1 DEF Assigned
    <3>2. CASE own2[x] = own[x]
      BY <1>1, <1>2, <1>3, <1>4, <3>1, <3>2, SMTT(30) DEF PlaceOf
    <3>3. CASE own2[x] # own[x]
      BY <1>1, <1>2, <1>3, <1>4, <3>1, <3>3, SMTT(30) DEF PlaceOf
    <3> QED
      BY <3>2, <3>3
  <2>3. (\A x \in F \ {q} : own2[x].kind = "free") /\ (\A x \in L : own2[x].kind = "leaked")
    BY <1>1, <1>2, <1>3, <1>4 DEF Assigned
  <2>4. \A r \in Procs : K[r] # 0 =>
          K[r] \in 1..n /\ own2[K[r]].kind = "kstack" /\ own2[K[r]].proc = r
    BY <1>1, <1>2, <1>3, <1>4 DEF Assigned, AllAt, IsAt
  <2>5. \A r \in Procs, v \in Which : AllAt(own2, n, T2, r, v)
    BY <1>1, <1>2, <1>3, <1>4, SMTT(30) DEF Assigned, AllAt, IsAt
  <2> QED
    BY <2>1, <2>2, <2>3, <2>4, <2>5 DEF Assigned, AllAt, IsAt
<1> QED
  BY <1>5 DEF Account

\* A free page becomes a page table page.
LEMMA TakeTable ==
  ASSUME NEW n \in Nat, NEW F, NEW L, NEW K, NEW T, NEW T2, Account(n, F, L, K, T),
         NEW q \in F, NEW p \in Procs, NEW w \in Which, T[p][w] \in PgDirs,
         OneTable(T2, T, p, w, [T[p][w] EXCEPT !.tables = @ \cup {q}])
  PROVE  Account(n, F \ {q}, L, K, T2)
<1>1. PICK own : Assigned(own, n, F, L, K, T)
  BY DEF Account
<1> DEFINE own2 == [x \in 1..n |-> IF x = q THEN [kind |-> "table", proc |-> p, which |-> w, page |-> 0]
                                   ELSE own[x]]
<1>2. \A x \in 1..n : x # q => own2[x] = own[x]
  OBVIOUS
<1>3. q \in 1..n /\ own2[q].kind = "table" /\ own2[q].proc = p /\ own2[q].which = w /\ q # 0
  BY <1>1 DEF Assigned, AllAt, IsAt
<1> HIDE DEF own2
<1>4. /\ T2[p][w].dir = T[p][w].dir /\ T2[p][w].tables = T[p][w].tables \cup {q}
      /\ T2[p][w].user = T[p][w].user
      /\ \A r \in Procs, v \in Which : (r # p \/ v # w) => T2[r][v] = T[r][v]
  BY DEF OneTable, PgDirs
<1>5. Assigned(own2, n, F \ {q}, L, K, T2)
  <2>1. (F \ {q}) \subseteq 1..n /\ (L) \subseteq 1..n
    BY <1>1, <1>2, <1>3, <1>4 DEF Assigned
  <2>2. ASSUME NEW x \in 1..n PROVE PlaceOf(own2, F \ {q}, L, K, T2, x)
    <3>1. PlaceOf(own, F, L, K, T, x)
      BY <1>1 DEF Assigned
    <3>2. CASE own2[x] = own[x]
      BY <1>1, <1>2, <1>3, <1>4, <3>1, <3>2, SMTT(30) DEF PlaceOf
    <3>3. CASE own2[x] # own[x]
      BY <1>1, <1>2, <1>3, <1>4, <3>1, <3>3, SMTT(30) DEF PlaceOf
    <3> QED
      BY <3>2, <3>3
  <2>3. (\A x \in F \ {q} : own2[x].kind = "free") /\ (\A x \in L : own2[x].kind = "leaked")
    BY <1>1, <1>2, <1>3, <1>4 DEF Assigned
  <2>4. \A r \in Procs : K[r] # 0 =>
          K[r] \in 1..n /\ own2[K[r]].kind = "kstack" /\ own2[K[r]].proc = r
    BY <1>1, <1>2, <1>3, <1>4 DEF Assigned, AllAt, IsAt
  <2>5. \A r \in Procs, v \in Which : AllAt(own2, n, T2, r, v)
    BY <1>1, <1>2, <1>3, <1>4, SMTT(30) DEF Assigned, AllAt, IsAt
  <2> QED
    BY <2>1, <2>2, <2>3, <2>4, <2>5 DEF Assigned, AllAt, IsAt
<1> QED
  BY <1>5 DEF Account

\* A user page is freed, if there is one.
LEMMA GiveUser ==
  ASSUME NEW n \in Nat, NEW F, NEW L, NEW K, NEW T, NEW T2, Account(n, F, L, K, T),
         NEW p \in Procs, NEW w \in Which, NEW i \in Upages, T[p][w] \in PgDirs,
         OneTable(T2, T, p, w, [T[p][w] EXCEPT !.user[i] = 0])
  PROVE  Account(n, F \cup ({T[p][w].user[i]} \ {0}), L, K, T2)
<1>1. PICK own : Assigned(own, n, F, L, K, T)
  BY DEF Account
<1> DEFINE q == T[p][w].user[i]
           own2 == [x \in 1..n |-> IF x = q THEN [kind |-> "free", proc |-> p, which |-> w, page |-> 0]
                                   ELSE own[x]]
<1>2. \A x \in 1..n : /\ x # q => own2[x] = own[x]
                      /\ x = q => own2[x].kind = "free"
  OBVIOUS
<1>3. q # 0 => q \in 1..n
  BY <1>1 DEF Assigned, AllAt, IsAt
<1>4. /\ T2[p][w].dir = T[p][w].dir /\ T2[p][w].tables = T[p][w].tables
      /\ \A j \in Upages : T2[p][w].user[j] = IF j = i THEN 0 ELSE T[p][w].user[j]
      /\ \A r \in Procs, v \in Which : (r # p \/ v # w) => T2[r][v] = T[r][v]
  BY DEF OneTable, PgDirs
<1> HIDE DEF own2
<1>5. Assigned(own2, n, F \cup ({q} \ {0}), L, K, T2)
  <2>1. (F \cup ({q} \ {0})) \subseteq 1..n /\ (L) \subseteq 1..n
    BY <1>1, <1>2, <1>3, <1>4 DEF Assigned
  <2>2. ASSUME NEW x \in 1..n PROVE PlaceOf(own2, F \cup ({q} \ {0}), L, K, T2, x)
    <3>1. PlaceOf(own, F, L, K, T, x)
      BY <1>1 DEF Assigned
    <3>2. CASE own2[x] = own[x]
      BY <1>1, <1>2, <1>3, <1>4, <3>1, <3>2, SMTT(30) DEF PlaceOf
    <3>3. CASE own2[x] # own[x]
      BY <1>1, <1>2, <1>3, <1>4, <3>1, <3>3, SMTT(30) DEF PlaceOf
    <3> QED
      BY <3>2, <3>3
  <2>3. (\A x \in F \cup ({q} \ {0}) : own2[x].kind = "free") /\ (\A x \in L : own2[x].kind = "leaked")
    BY <1>1, <1>2, <1>3, <1>4 DEF Assigned, AllAt, IsAt
  <2>4. \A r \in Procs : K[r] # 0 =>
          K[r] \in 1..n /\ own2[K[r]].kind = "kstack" /\ own2[K[r]].proc = r
    BY <1>1, <1>2, <1>3, <1>4 DEF Assigned, AllAt, IsAt
  <2>5. ASSUME NEW r \in Procs, NEW v \in Which PROVE AllAt(own2, n, T2, r, v)
    <3>1. AllAt(own, n, T, r, v) /\ AllAt(own, n, T, p, w)
      BY <1>1 DEF Assigned
    <3>2. CASE r = p /\ v = w
      <4>1. q # 0 => own[q].kind = "user" /\ own[q].page = i
        BY <3>1 DEF AllAt, IsAt
      <4>2. /\ T[p][w].dir # 0 => T[p][w].dir # q
            /\ \A x \in T[p][w].tables : x \in 1..n /\ x # q
        BY <3>1, <4>1 DEF AllAt, IsAt
      <4>3. \A j \in Upages : j # i /\ T[p][w].user[j] # 0 => T[p][w].user[j] # q
        BY <3>1, <4>1 DEF AllAt, IsAt
      <4> HIDE DEF q
      <4>4. T2[p][w].dir # 0 => IsAt(own2, n, T2[p][w].dir, "dir", p, w)
        BY <1>2, <1>4, <3>1, <4>2 DEF AllAt, IsAt
      <4>5. \A x \in T2[p][w].tables : IsAt(own2, n, x, "table", p, w)
        BY <1>2, <1>4, <3>1, <4>2 DEF AllAt, IsAt
      <4>6. ASSUME NEW j \in Upages, T2[p][w].user[j] # 0
            PROVE  /\ IsAt(own2, n, T2[p][w].user[j], "user", p, w)
                   /\ own2[T2[p][w].user[j]].page = j
        <5>1. j # i /\ T2[p][w].user[j] = T[p][w].user[j]
          BY <1>4, <4>6
        <5> QED
          BY <1>2, <3>1, <4>3, <4>6, <5>1 DEF AllAt, IsAt
      <4> QED
        BY <3>2, <4>4, <4>5, <4>6 DEF AllAt
    <3>3. CASE r # p \/ v # w
      <4>1. T2[r][v] = T[r][v]
        BY <1>4, <3>3
      <4>2. \A x \in 1..n : own[x].proc = r /\ own[x].which = v => own2[x] = own[x]
        BY <1>2, <3>1, <3>3 DEF AllAt, IsAt
      <4> QED
        BY <3>1, <4>1, <4>2 DEF AllAt, IsAt
    <3> QED
      BY <3>2, <3>3
  <2> QED
    BY <2>1, <2>2, <2>3, <2>4, <2>5 DEF Assigned, AllAt, IsAt
<1> QED
  BY <1>5 DEF Account

\* All pages of a page table are freed, or lost.
LEMMA GiveTable ==
  ASSUME NEW n \in Nat, NEW F, NEW L, NEW K, NEW T, NEW T2, Account(n, F, L, K, T),
         NEW p \in Procs, NEW w \in Which, T[p][w] \in PgDirs,
         OneTable(T2, T, p, w, NoDir)
  PROVE  /\ Account(n, F \cup PagesOf(T[p][w]), L, K, T2)
         /\ Account(n, F, L \cup PagesOf(T[p][w]), K, T2)
<1>1. PICK own : Assigned(own, n, F, L, K, T)
  BY DEF Account
<1> DEFINE S == PagesOf(T[p][w])
           own2(k) == [x \in 1..n |-> IF x \in S THEN [kind |-> k, proc |-> p, which |-> w, page |-> 0]
                                      ELSE own[x]]
<1>2. \A k : \A x \in 1..n : /\ x \notin S => own2(k)[x] = own[x]
                             /\ x \in S => own2(k)[x].kind = k
  OBVIOUS
<1>3. /\ S \subseteq 1..n
      /\ \A x \in S : own[x].proc = p /\ own[x].which = w /\ own[x].kind \in {"dir", "table", "user"}
      /\ T[p][w].dir # 0 => T[p][w].dir \in S
      /\ \A x \in T[p][w].tables : x \in S
      /\ \A j \in Upages : T[p][w].user[j] # 0 => T[p][w].user[j] \in S
  BY <1>1 DEF Assigned, AllAt, IsAt, PagesOf, PgDirs
<1>4. /\ T2[p][w].dir = 0 /\ T2[p][w].tables = {}
      /\ \A j \in Upages : T2[p][w].user[j] = 0
      /\ \A r \in Procs, v \in Which : (r # p \/ v # w) => T2[r][v] = T[r][v]
  BY DEF OneTable, NoDir
<1>5. \A x \in 1..n : /\ own[x].kind \in {"dir", "table", "user"}
                      /\ own[x].proc = p /\ own[x].which = w
                      => x \in S
  BY <1>1, <1>3, SMTT(30) DEF Assigned, PlaceOf, AllAt, IsAt
<1> HIDE DEF own2, S
<1>6. Assigned(own2("free"), n, F \cup S, L, K, T2)
  <2>1. (F \cup S) \subseteq 1..n /\ (L) \subseteq 1..n
    BY <1>1, <1>2, <1>3, <1>4, <1>5 DEF Assigned
  <2>2. ASSUME NEW x \in 1..n PROVE PlaceOf(own2("free"), F \cup S, L, K, T2, x)
    <3>1. PlaceOf(own, F, L, K, T, x)
      BY <1>1 DEF Assigned
    <3>2. CASE own2("free")[x] = own[x]
      BY <1>1, <1>2, <1>3, <1>4, <1>5, <3>1, <3>2, SMTT(30) DEF PlaceOf
    <3>3. CASE own2("free")[x] # own[x]
      BY <1>1, <1>2, <1>3, <1>4, <1>5, <3>1, <3>3, SMTT(30) DEF PlaceOf
    <3> QED
      BY <3>2, <3>3
  <2>3. (\A x \in F \cup S : own2("free")[x].kind = "free") /\ (\A x \in L : own2("free")[x].kind = "leaked")
    BY <1>1, <1>2, <1>3, <1>4, <1>5 DEF Assigned
  <2>4. \A r \in Procs : K[r] # 0 =>
          K[r] \in 1..n /\ own2("free")[K[r]].kind = "kstack" /\ own2("free")[K[r]].proc = r
    BY <1>1, <1>2, <1>3, <1>4, <1>5 DEF Assigned, AllAt, IsAt
  <2>5. \A r \in Procs, v \in Which : AllAt(own2("free"), n, T2, r, v)
    BY <1>1, <1>2, <1>3, <1>4, <1>5, SMTT(30) DEF Assigned, AllAt, IsAt
  <2> QED
    BY <2>1, <2>2, <2>3, <2>4, <2>5 DEF Assigned, AllAt, IsAt
<1>7. Assigned(own2("leaked"), n, F, L \cup S, K, T2)
  <2>1. (F) \subseteq 1..n /\ (L \cup S) \subseteq 1..n
    BY <1>1, <1>2, <1>3, <1>4, <1>5 DEF Assigned
  <2>2. ASSUME NEW x \in 1..n PROVE PlaceOf(own2("leaked"), F, L \cup S, K, T2, x)
    <3>1. PlaceOf(own, F, L, K, T, x)
      BY <1>1 DEF Assigned
    <3>2. CASE own2("leaked")[x] = own[x]
      BY <1>1, <1>2, <1>3, <1>4, <1>5, <3>1, <3>2, SMTT(30) DEF PlaceOf
    <3>3. CASE own2("leaked")[x] # own[x]
      BY <1>1, <1>2, <1>3, <1>4, <1>5, <3>1, <3>3, SMTT(30) DEF PlaceOf
    <3> QED
      BY <3>2, <3>3
  <2>3. (\A x \in F : own2("leaked")[x].kind = "free") /\ (\A x \in L \cup S : own2("leaked")[x].kind = "leaked")
    BY <1>1, <1>2, <1>3, <1>4, <1>5 DEF Assigned
  <2>4. \A r \in Procs : K[r] # 0 =>
          K[r] \in 1..n /\ own2("leaked")[K[r]].kind = "kstack" /\ own2("leaked")[K[r]].proc = r
    BY <1>1, <1>2, <1>3, <1>4, <1>5 DEF Assigned, AllAt, IsAt
  <2>5. \A r \in Procs, v \in Which : AllAt(own2("leaked"), n, T2, r, v)
    BY <1>1, <1>2, <1>3, <1>4, <1>5, SMTT(30) DEF Assigned, AllAt, IsAt
  <2> QED
    BY <2>1, <2>2, <2>3, <2>4, <2>5 DEF Assigned, AllAt, IsAt
<1> QED
  BY <1>6, <1>7 DEF Account, S

\* A kernel stack is freed.
LEMMA GiveStack ==
  ASSUME NEW n \in Nat, NEW F, NEW L, NEW K, NEW T, NEW K2, Account(n, F, L, K, T),
         NEW p \in Procs, K[p] # 0,
         \A r \in Procs : K2[r] = IF r = p THEN 0 ELSE K[r]
  PROVE  Account(n, F \cup {K[p]}, L, K2, T)
<1>1. PICK own : Assigned(own, n, F, L, K, T)
  BY DEF Account
<1> DEFINE q == K[p]
           own2 == [x \in 1..n |-> IF x = q THEN [kind |-> "free", proc |-> p, which |-> "own", page |-> 0]
                                   ELSE own[x]]
<1>2. \A x \in 1..n : /\ x # q => own2[x] = own[x]
                      /\ x = q => own2[x].kind = "free"
  OBVIOUS
<1>3. q \in 1..n
  BY <1>1 DEF Assigned, AllAt, IsAt
<1> HIDE DEF own2
<1>4. Assigned(own2, n, F \cup {q}, L, K2, T)
  <2>1. (F \cup {q}) \subseteq 1..n /\ (L) \subseteq 1..n
    BY <1>1, <1>2, <1>3 DEF Assigned
  <2>2. ASSUME NEW x \in 1..n PROVE PlaceOf(own2, F \cup {q}, L, K2, T, x)
    <3>1. PlaceOf(own, F, L, K, T, x)
      BY <1>1 DEF Assigned
    <3>2. CASE own2[x] = own[x]
      BY <1>1, <1>2, <1>3, <3>1, <3>2, SMTT(30) DEF PlaceOf
    <3>3. CASE own2[x] # own[x]
      BY <1>1, <1>2, <1>3, <3>1, <3>3, SMTT(30) DEF PlaceOf
    <3> QED
      BY <3>2, <3>3
  <2>3. (\A x \in F \cup {q} : own2[x].kind = "free") /\ (\A x \in L : own2[x].kind = "leaked")
    BY <1>1, <1>2, <1>3 DEF Assigned, AllAt, IsAt
  <2>4. \A r \in Procs : K2[r] # 0 =>
          K2[r] \in 1..n /\ own2[K2[r]].kind = "kstack" /\ own2[K2[r]].proc = r
    BY <1>1, <1>2, <1>3 DEF Assigned, AllAt, IsAt
  <2>5. \A r \in Procs, v \in Which : AllAt(own2, n, T, r, v)
    BY <1>1, <1>2, <1>3, SMTT(30) DEF Assigned, AllAt, IsAt
  <2> QED
    BY <2>1, <2>2, <2>3, <2>4, <2>5 DEF Assigned, AllAt, IsAt
<1> QED
  BY <1>4 DEF Account

\* A page table changes hands.
LEMMA MoveTable ==
  ASSUME NEW n \in Nat, NEW F, NEW L, NEW K, NEW T, NEW T2, Account(n, F, L, K, T),
         NEW p \in Procs, NEW w \in Which, NEW s \in Procs, NEW u \in Which,
         T[s][u] = NoDir, p # s \/ w # u,
         \A r \in Procs, v \in Which :
            T2[r][v] = IF r = p /\ v = w THEN NoDir
                       ELSE IF r = s /\ v = u THEN T[p][w] ELSE T[r][v]
  PROVE  Account(n, F, L, K, T2)
<1>1. PICK own : Assigned(own, n, F, L, K, T)
  BY DEF Account
<1> DEFINE Mine(x) == own[x].kind \in {"dir", "table", "user"} /\ own[x].proc = p /\ own[x].which = w
           own2 == [x \in 1..n |->
                      IF Mine(x) THEN [kind |-> own[x].kind, proc |-> s, which |-> u, page |-> own[x].page]
                      ELSE own[x]]
<1>2. \A x \in 1..n : /\ ~Mine(x) => own2[x] = own[x]
                      /\ Mine(x) => /\ own2[x].kind = own[x].kind /\ own2[x].page = own[x].page
                                    /\ own2[x].proc = s /\ own2[x].which = u
  OBVIOUS
<1>3. /\ T2[p][w].dir = 0 /\ T2[p][w].tables = {} /\ \A j \in Upages : T2[p][w].user[j] = 0
      /\ T[s][u].dir = 0 /\ T[s][u].tables = {} /\ \A j \in Upages : T[s][u].user[j] = 0
      /\ T2[s][u] = T[p][w]
      /\ \A r \in Procs, v \in Which : (r # p \/ v # w) /\ (r # s \/ v # u) => T2[r][v] = T[r][v]
  BY DEF NoDir
<1>4. \A x \in 1..n : own[x].kind \in {"dir", "table", "user"} => ~(own[x].proc = s /\ own[x].which = u)
  BY <1>1, <1>3 DEF Assigned, PlaceOf, AllAt, IsAt
<1> HIDE DEF own2
<1>5. Assigned(own2, n, F, L, K, T2)
  <2>1. (F) \subseteq 1..n /\ (L) \subseteq 1..n
    BY <1>1, <1>2, <1>3, <1>4 DEF Assigned
  <2>2. ASSUME NEW x \in 1..n PROVE PlaceOf(own2, F, L, K, T2, x)
    <3>1. PlaceOf(own, F, L, K, T, x)
      BY <1>1 DEF Assigned
    <3>2. CASE own2[x] = own[x]
      BY <1>1, <1>2, <1>3, <1>4, <3>1, <3>2, SMTT(30) DEF PlaceOf
    <3>3. CASE own2[x] # own[x]
      <4>1. Mine(x) /\ own2[x].kind = own[x].kind /\ own2[x].page = own[x].page
            /\ own2[x].proc = s /\ own2[x].which = u
        BY <1>2, <3>3
      <4> QED
        BY <1>3, <3>1, <4>1 DEF PlaceOf
    <3> QED
      BY <3>2, <3>3
  <2>3. (\A x \in F : own2[x].kind = "free") /\ (\A x \in L : own2[x].kind = "leaked")
    BY <1>1, <1>2, <1>3, <1>4 DEF Assigned
  <2>4. \A r \in Procs : K[r] # 0 =>
          K[r] \in 1..n /\ own2[K[r]].kind = "kstack" /\ own2[K[r]].proc = r
    BY <1>1, <1>2, <1>3, <1>4 DEF Assigned, AllAt, IsAt
  <2>5. ASSUME NEW r \in Procs, NEW v \in Which PROVE AllAt(own2, n, T2, r, v)
    <3>1. AllAt(own, n, T, r, v)
      BY <1>1 DEF Assigned
    <3>2. CASE r = p /\ v = w
      BY <1>3, <3>2 DEF AllAt
    <3>3. CASE r = s /\ v = u
      <4>1. AllAt(own, n, T, p, w) /\ T2[r][v] = T[p][w]
        BY <1>1, <1>3, <3>3 DEF Assigned
      <4> QED
        BY <1>2, <3>3, <4>1 DEF AllAt, IsAt
    <3>4. CASE (r # p \/ v # w) /\ (r # s \/ v # u)
      <4>1. T2[r][v] = T[r][v]
        BY <1>3, <3>4
      <4>2. \A x \in 1..n : own[x].proc = r /\ own[x].which = v => own2[x] = own[x]
        BY <1>2, <3>4
      <4> QED
        BY <3>1, <4>1, <4>2 DEF AllAt, IsAt
    <3> QED
      BY <3>2, <3>3, <3>4
  <2> QED
    BY <2>1, <2>2, <2>3, <2>4, <2>5 DEF Assigned, AllAt, IsAt
<1> QED
  BY <1>5 DEF Account

----------------------------------------------------------------------------
(***************************************************************************)
(* Pages 1..n are installed, and each is in one place.                     *)
(***************************************************************************)

Stacks == [p \in Procs |-> proc[p].kstack]
Tables == [p \in Procs |-> [w \in Which |-> Pgdir(p, w)]]

Accounted(n) ==
  /\ Account(n, free, leaked, Stacks, Tables)
  /\ \A q \in Pages : q > n => value[q] = "absent"

Ownership(n) == Types /\ Slots /\ (\A p \in Procs : Course(p)) /\ Accounted(n)

\* The page tables, one by one.
LEMMA TablesAre ==
  ASSUME NEW p \in Procs
  PROVE  /\ Tables[p]["own"] = Own(p) /\ Tables[p]["new"] = New(p) /\ Tables[p]["old"] = Old(p)
         /\ Pgdir(p, "own") = Own(p) /\ Pgdir(p, "new") = New(p) /\ Pgdir(p, "old") = Old(p)
         /\ Stacks[p] = proc[p].kstack
<1>1. Pgdir(p, "own") = Own(p) /\ Pgdir(p, "new") = New(p) /\ Pgdir(p, "old") = Old(p)
  BY DEF Pgdir, Own, New, Old
<1>2. \A w \in Which : Tables[p][w] = Pgdir(p, w)
  BY DEF Tables
<1> QED
  BY <1>1, <1>2 DEF Which, Stacks

\* The same, after a step.
LEMMA TablesWere ==
  ASSUME NEW p \in Procs
  PROVE  /\ Tables'[p]["own"] = Own(p)' /\ Tables'[p]["new"] = New(p)' /\ Tables'[p]["old"] = Old(p)'
         /\ Stacks'[p] = proc'[p].kstack
<1>1. Pgdir(p, "own")' = Own(p)' /\ Pgdir(p, "new")' = New(p)' /\ Pgdir(p, "old")' = Old(p)'
  BY DEF Pgdir, Own, New, Old
<1>2. \A w \in Which : Tables'[p][w] = Pgdir(p, w)'
  BY DEF Tables
<1> QED
  BY <1>1, <1>2 DEF Which, Stacks

\* Page tables are such, and the empty one is.
LEMMA DirTypes ==
  ASSUME Types
  PROVE  /\ \A p \in Procs, w \in Which : Tables[p][w] \in PgDirs
         /\ \A p \in Procs : Own(p) \in PgDirs /\ New(p) \in PgDirs /\ Old(p) \in PgDirs
         /\ NoDir \in PgDirs
         /\ NoDir.dir = 0 /\ NoDir.tables = {} /\ \A i \in Upages : NoDir.user[i] = 0
<1>1. \A p \in Procs : Own(p) \in PgDirs /\ New(p) \in PgDirs /\ Old(p) \in PgDirs
  BY DEF Types, Own, New, Old
<1>2. \A p \in Procs, w \in Which : Tables[p][w] \in PgDirs
  BY <1>1, TablesAre DEF Which
<1> QED
  BY <1>1, <1>2 DEF NoDir, PgDirs

\* One page table of a process is replaced.
LEMMA SetPgdirIs ==
  ASSUME Types, NEW p \in Procs, NEW w \in Which, NEW pd \in PgDirs, SetPgdir(p, w, pd)
  PROVE  /\ OneTable(Tables', Tables, p, w, pd) /\ Stacks' = Stacks
         /\ proc' \in [Procs -> [state : States, parent : Procs, sz : 0..USERTOP,
                                 pgdir : PgDirs, kstack : Pages \cup {0}]]
         /\ local' \in [Procs -> [new : PgDirs, sz : Nat, child : Procs, old : PgDirs,
                                  prog : Programs \cup {0}]]
         /\ \A r \in Procs :
              /\ proc'[r].state = proc[r].state /\ proc'[r].parent = proc[r].parent
              /\ proc'[r].sz = proc[r].sz /\ proc'[r].kstack = proc[r].kstack
              /\ local'[r].sz = local[r].sz /\ local'[r].child = local[r].child
              /\ local'[r].prog = local[r].prog
              /\ r # p => proc'[r] = proc[r] /\ local'[r] = local[r]
         /\ Own(p)' = (IF w = "own" THEN pd ELSE Own(p))
         /\ New(p)' = (IF w = "new" THEN pd ELSE New(p))
         /\ Old(p)' = (IF w = "old" THEN pd ELSE Old(p))
<1>1. CASE w = "own"
  <2>1. proc' = [proc EXCEPT ![p].pgdir = pd] /\ local' = local
    BY <1>1 DEF SetPgdir
  <2>2. \A r \in Procs : r # p => proc'[r] = proc[r]
    BY <2>1 DEF Types
  <2>3. Own(p)' = pd /\ New(p)' = New(p) /\ Old(p)' = Old(p)
    BY <2>1 DEF Types, Own, New, Old
  <2>4. proc' \in [Procs -> [state : States, parent : Procs, sz : 0..USERTOP,
                                 pgdir : PgDirs, kstack : Pages \cup {0}]]
    BY <2>1 DEF Types
  <2>5. \A r \in Procs : /\ proc'[r].state = proc[r].state /\ proc'[r].parent = proc[r].parent
                         /\ proc'[r].sz = proc[r].sz /\ proc'[r].kstack = proc[r].kstack
    BY <2>1 DEF Types
  <2>6. OneTable(Tables', Tables, p, w, pd)
    <3>1. \A r \in Procs : r # p => Own(r)' = Own(r) /\ New(r)' = New(r) /\ Old(r)' = Old(r)
      BY <2>1, <2>2 DEF Own, New, Old
    <3> QED
      BY <1>1, <2>3, <3>1, TablesAre, TablesWere DEF OneTable, Which
  <2>7. Stacks' = Stacks
    BY <2>5 DEF Stacks
  <2> QED
    BY <1>1, <2>1, <2>2, <2>3, <2>4, <2>5, <2>6, <2>7 DEF Types
<1>2. CASE w = "new" \/ w = "old"
  <2>1. proc' = proc /\ local' = IF w = "new" THEN [local EXCEPT ![p].new = pd]
                                 ELSE [local EXCEPT ![p].old = pd]
    BY <1>2 DEF SetPgdir
  <2>2. \A r \in Procs : r # p => local'[r] = local[r]
    BY <2>1 DEF Types
  <2>3. Own(p)' = Own(p) /\ New(p)' = (IF w = "new" THEN pd ELSE New(p))
        /\ Old(p)' = (IF w = "old" THEN pd ELSE Old(p))
    BY <1>2, <2>1 DEF Types, Own, New, Old
  <2>4. local' \in [Procs -> [new : PgDirs, sz : Nat, child : Procs, old : PgDirs,
                                  prog : Programs \cup {0}]]
    BY <2>1 DEF Types
  <2>5. \A r \in Procs : /\ local'[r].sz = local[r].sz /\ local'[r].child = local[r].child
                         /\ local'[r].prog = local[r].prog
    BY <2>1 DEF Types
  <2>6. OneTable(Tables', Tables, p, w, pd)
    <3>1. \A r \in Procs : r # p => Own(r)' = Own(r) /\ New(r)' = New(r) /\ Old(r)' = Old(r)
      BY <2>1, <2>2 DEF Own, New, Old
    <3> QED
      BY <1>2, <2>3, <3>1, TablesAre, TablesWere DEF OneTable, Which
  <2>7. Stacks' = Stacks
    BY <2>1 DEF Stacks
  <2> QED
    BY <1>2, <2>1, <2>2, <2>3, <2>4, <2>5, <2>6, <2>7 DEF Types
<1> QED
  BY <1>1, <1>2 DEF Which

\* Nothing changes in any page table or kernel stack.
LEMMA TablesKept ==
  ASSUME \A r \in Procs : /\ Own(r)' = Own(r) /\ New(r)' = New(r) /\ Old(r)' = Old(r)
                          /\ proc'[r].kstack = proc[r].kstack
  PROVE  Tables' = Tables /\ Stacks' = Stacks
<1>1. \A r \in Procs, w \in Which : Pgdir(r, w)' = Pgdir(r, w)
  BY DEF Which, Pgdir, Own, New, Old
<1> QED
  BY <1>1 DEF Tables, Stacks

\* A process that takes no step, and whose call's variables are as before, is
\* where it was.
LEMMA CourseKept ==
  ASSUME NEW r \in Procs, Course(r), todo'[r] = todo[r], local'[r] = local[r]
  PROVE  Course(r)'
<1>1. New(r)' = New(r) /\ Old(r)' = Old(r)
  BY DEF New, Old
<1> QED
  BY <1>1 DEF Course, Execing, Built, InSetupkvm, InAllocuvm, InDeallocuvm, InFreedir, InCopyuvm, InSegment, InLoad, InCommit, InGrown, InForked, InFailed, InReaped, InNothing, Clear, Blank

\* The last of what a process has to do.
LEMMA Finals ==
  /\ \A a : Final(<<a>>) = a
  /\ \A a, b : Final(<<a, b>>) = b
  /\ \A a, b, c : Final(<<a, b, c>>) = c
<1>1. \A a : Len(<<a>>) = 1
  OBVIOUS
<1>2. \A a, b : Len(<<a, b>>) = 2
  OBVIOUS
<1>3. \A a, b, c : Len(<<a, b, c>>) = 3
  OBVIOUS
<1> QED
  BY <1>1, <1>2, <1>3 DEF Final

\* A step inside a call changes nothing about who works for whom, or about slots.
LEMMA SlotsKept ==
  ASSUME Slots, NEW p \in Procs, proc[p].state = "live",
         todo[p] # <<>>, todo'[p] # <<>>, Final(todo'[p]) = Final(todo[p]),
         \A r \in Procs : /\ r # p => todo'[r] = todo[r] /\ Own(r)' = Own(r) /\ New(r)' = New(r)
                          /\ proc'[r].state = proc[r].state /\ proc'[r].kstack = proc[r].kstack
                          /\ local'[r].child = local[r].child,
         New(p)'.dir = 0 => New(p)' = NoDir
  PROVE  Slots'
<1>1. \A q, r \in Procs : (Makes(r, q)' <=> Makes(r, q)) /\ (Reaps(r, q)' <=> Reaps(r, q))
  BY DEF Makes, Reaps, Final
<1>2. \A r \in Procs :
       /\ proc'[r].state \notin {"live", "zombie"} => Own(r)' = NoDir
       /\ proc'[r].state \in {"unused", "reaped"} <=> proc'[r].kstack = 0
       /\ proc'[r].state # "live" => todo'[r] = <<>>
       /\ New(r)'.dir = 0 => New(r)' = NoDir
  BY DEF Slots
<1>3. \A q, r \in Procs : /\ Makes(r, q)' => proc'[q].state = "embryo"
                          /\ Reaps(r, q)' => proc'[q].state = "reaped"
  BY <1>1 DEF Slots
<1>4. \A s, q, r \in Procs : /\ Makes(s, q)' /\ Makes(r, q)' => s = r
                             /\ Reaps(s, q)' /\ Reaps(r, q)' => s = r
  BY <1>1 DEF Slots
<1> QED
  BY <1>2, <1>3, <1>4 DEF Slots

----------------------------------------------------------------------------
(***************************************************************************)
(* Which call a step belongs to.                                           *)
(***************************************************************************)

\* What is to be done next, and after that.
LEMMA ThenIs ==
  ASSUME DOMAIN todo = Procs, NEW p \in Procs, NEW s, Then(p, s)
  PROVE  /\ todo'[p] = s \o Tail(todo[p]) /\ DOMAIN todo' = Procs
         /\ \A r \in Procs : r # p => todo'[r] = todo[r]
  BY DEF Then

\* The same when everything else is given up.
LEMMA OnlyIs ==
  ASSUME DOMAIN todo = Procs, NEW p \in Procs, NEW s, Only(p, s)
  PROVE  /\ todo'[p] = s /\ DOMAIN todo' = Procs
         /\ \A r \in Procs : r # p => todo'[r] = todo[r]
  BY DEF Only

\* The names of the steps.
LEMMA Heads ==
  /\ \A a : <<a>>[1] = a
  /\ \A a, b : <<a, b>>[1] = a /\ <<a, b>>[2] = b
  /\ \A a, b, c, d : <<a, b, c, d>>[1] = a /\ <<a, b, c, d>>[2] = b /\ <<a, b, c, d>>[3] = c /\ <<a, b, c, d>>[4] = d
  /\ \A a, b, c, d, e : /\ <<a, b, c, d, e>>[1] = a /\ <<a, b, c, d, e>>[2] = b
                        /\ <<a, b, c, d, e>>[3] = c /\ <<a, b, c, d, e>>[4] = d
                        /\ <<a, b, c, d, e>>[5] = e
  OBVIOUS

\* What a process is about to do tells where it is.
LEMMA Names ==
  ASSUME NEW p \in Procs
  PROVE  /\ InSetupkvm(p) => todo[p] # <<>> /\ Head(todo[p])[1] = "setupkvm"
         /\ InAllocuvm(p) => todo[p] # <<>> /\ Head(todo[p])[1] = "allocuvm"
         /\ InDeallocuvm(p) => todo[p] # <<>> /\ Head(todo[p])[1] = "deallocuvm"
         /\ InFreedir(p) => todo[p] # <<>> /\ Head(todo[p])[1] = "freedir"
         /\ InCopyuvm(p) => todo[p] # <<>> /\ Head(todo[p])[1] = "copyuvm"
         /\ InSegment(p) => todo[p] # <<>> /\ Head(todo[p])[1] = "segment"
         /\ InLoad(p) => todo[p] # <<>> /\ Head(todo[p])[1] = "load"
         /\ InCommit(p) => todo[p] # <<>> /\ Head(todo[p])[1] = "commit"
         /\ InGrown(p) => todo[p] # <<>> /\ Head(todo[p])[1] = "grown"
         /\ InForked(p) => todo[p] # <<>> /\ Head(todo[p])[1] = "forked"
         /\ InFailed(p) => todo[p] # <<>> /\ Head(todo[p])[1] = "failed"
         /\ InReaped(p) => todo[p] # <<>> /\ Head(todo[p])[1] = "reaped"
<1>1. InSetupkvm(p) => todo[p] # <<>> /\ Head(todo[p])[1] = "setupkvm"
  BY Tails, Heads DEF InSetupkvm
<1>2. InAllocuvm(p) => todo[p] # <<>> /\ Head(todo[p])[1] = "allocuvm"
  BY Tails, Heads DEF InAllocuvm
<1>3. InDeallocuvm(p) => todo[p] # <<>> /\ Head(todo[p])[1] = "deallocuvm"
  <2>1. ASSUME NEW w, NEW o, NEW j, NEW e, todo[p] = <<<<"deallocuvm", w, o, j>>, e>>
        PROVE  todo[p] # <<>> /\ Head(todo[p])[1] = "deallocuvm"
    BY <2>1, Tails, Heads
  <2>2. ASSUME NEW w, NEW o, NEW j, NEW e,
               todo[p] = <<<<"deallocuvm", w, o, j>>, <<"freedir", w>>, e>>
        PROVE  todo[p] # <<>> /\ Head(todo[p])[1] = "deallocuvm"
    BY <2>2, Tails, Heads
  <2> QED
    BY <2>1, <2>2 DEF InDeallocuvm
<1>4. InFreedir(p) => todo[p] # <<>> /\ Head(todo[p])[1] = "freedir"
  BY Tails, Heads DEF InFreedir
<1>5. InCopyuvm(p) => todo[p] # <<>> /\ Head(todo[p])[1] = "copyuvm"
  BY Tails, Heads DEF InCopyuvm
<1>6. InSegment(p) => todo[p] # <<>> /\ Head(todo[p])[1] = "segment"
  BY Tails, Heads DEF InSegment
<1>7. InLoad(p) => todo[p] # <<>> /\ Head(todo[p])[1] = "load"
  BY Tails, Heads DEF InLoad
<1>8. InCommit(p) => todo[p] # <<>> /\ Head(todo[p])[1] = "commit"
  BY Tails, Heads DEF InCommit
<1>9. InGrown(p) => todo[p] # <<>> /\ Head(todo[p])[1] = "grown"
  BY Tails, Heads DEF InGrown
<1>10. InForked(p) => todo[p] # <<>> /\ Head(todo[p])[1] = "forked"
  BY Tails, Heads DEF InForked
<1>11. InFailed(p) => todo[p] # <<>> /\ Head(todo[p])[1] = "failed"
  BY Tails, Heads DEF InFailed
<1>12. InReaped(p) => todo[p] # <<>> /\ Head(todo[p])[1] = "reaped"
  BY Tails, Heads DEF InReaped
<1> QED
  BY <1>1, <1>2, <1>3, <1>4, <1>5, <1>6, <1>7, <1>8, <1>9, <1>10, <1>11, <1>12

\* A process at a step has come there the way Course says.
LEMMA Where ==
  ASSUME NEW p \in Procs, Course(p)
  PROVE  /\ At(p, "setupkvm") => InSetupkvm(p)
         /\ At(p, "allocuvm") => InAllocuvm(p)
         /\ At(p, "deallocuvm") => InDeallocuvm(p)
         /\ At(p, "freedir") => InFreedir(p)
         /\ At(p, "copyuvm") => InCopyuvm(p)
         /\ At(p, "segment") => InSegment(p)
         /\ At(p, "load") => InLoad(p)
         /\ At(p, "commit") => InCommit(p)
         /\ At(p, "grown") => InGrown(p)
         /\ At(p, "forked") => InForked(p)
         /\ At(p, "failed") => InFailed(p)
         /\ At(p, "reaped") => InReaped(p)
         /\ todo[p] = <<>> => InNothing(p)
<1> DEFINE h == Head(todo[p])[1]  t == todo[p] # <<>>
<1>1. \A s : At(p, s) => t /\ h = s
  BY DEF At
<1>2. /\ InSetupkvm(p) => t /\ h = "setupkvm"
      /\ InAllocuvm(p) => t /\ h = "allocuvm"
      /\ InDeallocuvm(p) => t /\ h = "deallocuvm"
      /\ InFreedir(p) => t /\ h = "freedir"
      /\ InCopyuvm(p) => t /\ h = "copyuvm"
      /\ InSegment(p) => t /\ h = "segment"
      /\ InLoad(p) => t /\ h = "load"
      /\ InCommit(p) => t /\ h = "commit"
      /\ InGrown(p) => t /\ h = "grown"
      /\ InForked(p) => t /\ h = "forked"
      /\ InFailed(p) => t /\ h = "failed"
      /\ InReaped(p) => t /\ h = "reaped"
  BY Names
<1>3. InNothing(p) => ~t
  BY DEF InNothing
<1>4. todo[p] = <<>> => ~t
  OBVIOUS
<1> HIDE DEF h, t
<1> QED
  BY <1>1, <1>2, <1>3, <1>4 DEF Course

----------------------------------------------------------------------------
(***************************************************************************)
(* Every step keeps Ownership.                                             *)
(***************************************************************************)

\* Who has a page has one of the pages that are installed.
LEMMA Installed ==
  ASSUME NEW n \in Nat, Types, Accounted(n)
  PROVE  /\ free \subseteq 1..n
         /\ \A p \in Procs, w \in Which : PagesOf(Tables[p][w]) \subseteq 1..n
         /\ \A p \in Procs : proc[p].kstack # 0 => proc[p].kstack \in 1..n
<1>1. PICK own : Assigned(own, n, free, leaked, Stacks, Tables)
  BY DEF Accounted, Account
<1>2. free \subseteq 1..n /\ \A p \in Procs : proc[p].kstack # 0 => proc[p].kstack \in 1..n
  BY <1>1 DEF Assigned, Stacks
<1>3. ASSUME NEW p \in Procs, NEW w \in Which PROVE PagesOf(Tables[p][w]) \subseteq 1..n
  <2>1. AllAt(own, n, Tables, p, w)
    BY <1>1 DEF Assigned
  <2> QED
    BY <2>1 DEF AllAt, IsAt, PagesOf
<1> QED
  BY <1>2, <1>3

\* kalloc() and kfree().
LEMMA KallocIs ==
  ASSUME NEW n \in Nat, Types, Accounted(n), NEW v, free # {}, Kalloc(v)
  PROVE  /\ Page \in free /\ Page \in Pages /\ Page \in 1..n /\ Page # 0
         /\ free' = free \ {Page} /\ free' \subseteq Pages
         /\ DOMAIN value' = Pages /\ value'[Page] = v
         /\ \A q \in Pages : q # Page => value'[q] = value[q]
         /\ \A q \in Pages : q > n => value'[q] = "absent"
<1>1. Page \in free /\ Page \in Pages
  BY PageFree DEF Types
<1>2. Page \in 1..n
  BY <1>1, Installed
<1>3. /\ free' = free \ {Page} /\ DOMAIN value' = Pages /\ value'[Page] = v
      /\ \A q \in Pages : q # Page => value'[q] = value[q]
  BY <1>1 DEF Kalloc, Types
<1>4. \A q \in Pages : q > n => q # Page
  BY <1>2, Bounds
<1> QED
  BY <1>1, <1>2, <1>3, <1>4, Bounds DEF Types, Accounted

\* kfree() gives pages back; nothing is given back that is not installed.
LEMMA KfreeIs ==
  ASSUME NEW n \in Nat, Types, Accounted(n), NEW S, S \subseteq Pages, S \subseteq 1..n, Kfree(S)
  PROVE  /\ free' = free \cup S /\ free' \subseteq Pages
         /\ DOMAIN value' = Pages
         /\ \A q \in Pages : value'[q] = IF q \in S THEN "junk" ELSE value[q]
         /\ \A q \in Pages : q > n => value'[q] = "absent"
<1>1. /\ free' = free \cup S /\ DOMAIN value' = Pages
      /\ \A q \in Pages : value'[q] = IF q \in S THEN "junk" ELSE value[q]
  BY DEF Kfree
<1>2. \A q \in Pages : q > n => q \notin S
  BY Bounds
<1> QED
  BY <1>1, <1>2 DEF Types, Accounted

\* SetNew is SetPgdir for the new page table.
LEMMA SetNewIs ==
  ASSUME NEW p, NEW pd, SetNew(p, pd), proc' = proc
  PROVE  SetPgdir(p, "new", pd)
  BY DEF SetNew, SetPgdir

\* A step inside a call keeps Ownership if its own part of it is kept.
LEMMA InsideKept ==
  ASSUME NEW n, Ownership(n), NEW p \in Procs, Types', Accounted(n)', Course(p)',
         todo[p] # <<>>, todo'[p] # <<>>, Final(todo'[p]) = Final(todo[p]),
         \A r \in Procs : /\ r # p => /\ todo'[r] = todo[r] /\ proc'[r] = proc[r]
                                      /\ local'[r] = local[r]
                          /\ proc'[r].state = proc[r].state /\ proc'[r].kstack = proc[r].kstack
                          /\ local'[r].child = local[r].child,
         New(p)'.dir = 0 => New(p)' = NoDir
  PROVE  Ownership(n)'
<1>1. \A r \in Procs : Course(r)'
  BY CourseKept DEF Ownership
<1>2. Slots'
  <2>1. proc[p].state = "live"
    BY DEF Ownership, Slots
  <2>2. \A r \in Procs : r # p => Own(r)' = Own(r) /\ New(r)' = New(r)
    BY DEF Own, New
  <2> QED
    BY <2>1, <2>2, SlotsKept DEF Ownership
<1> QED
  BY <1>1, <1>2 DEF Ownership

\* setupkvm().
LEMMA SetupkvmOwns ==
  ASSUME NEW n \in Nat, Ownership(n), NEW p \in Procs, Setupkvm(p)
  PROVE  Ownership(n)'
<1> DEFINE pd == New(p)
<1>1. InSetupkvm(p) /\ Types /\ Slots /\ Accounted(n) /\ DOMAIN todo = Procs
  BY Where DEF Ownership, Setupkvm, Types
<1>2. pd \in PgDirs /\ pd = Tables[p]["new"] /\ "new" \in Which
  BY <1>1, DirTypes, TablesAre DEF Which
<1>3. PICK r :
        /\ Tail(todo[p]) = r /\ todo[p] # <<>>
        /\ \/ /\ r = <<<<"copyuvm", 0>>, <<"forked">>>>
              /\ todo[p] = <<<<"setupkvm">>, <<"copyuvm", 0>>, <<"forked">>>>
           \/ /\ r = <<<<"segment", 1>>>> /\ Execing(p)
              /\ todo[p] = <<<<"setupkvm">>, <<"segment", 1>>>>
  <2>1. CASE todo[p] = <<<<"setupkvm">>, <<"copyuvm", 0>>, <<"forked">>>>
    <3>1. Tail(todo[p]) = <<<<"copyuvm", 0>>, <<"forked">>>> /\ todo[p] # <<>>
      BY <2>1, Tails
    <3> QED
      BY <2>1, <3>1
  <2>2. CASE todo[p] = <<<<"setupkvm">>, <<"segment", 1>>>> /\ Execing(p)
    BY <2>2, Tails
  <2> QED
    BY <1>1, <2>1, <2>2 DEF InSetupkvm
<1>4. PICK s \in {<<>>, <<<<"setupkvm">>>>}, pd2 \in PgDirs :
        /\ Then(p, s) /\ SetPgdir(p, "new", pd2)
        /\ \A i \in Upages : pd2.user[i] = 0
        /\ pd2.dir = 0 => pd2 = NoDir
        /\ free' \subseteq Pages /\ leaked' \subseteq Pages /\ DOMAIN value' = Pages
        /\ \A q \in Pages : q > n => value'[q] = "absent"
        /\ Account(n, free', leaked', Stacks', Tables')
  <2>1. CASE free = {}
    <3>1. SetupFails(p) /\ proc' = proc
      BY <2>1 DEF Setupkvm
    <3>2. SetPgdir(p, "new", NoDir) /\ Then(p, <<>>) /\ free' = free /\ value' = value
      BY <3>1, SetNewIs DEF SetupFails, NoPage
    <3>3. leaked' = leaked \cup PagesOf(pd) /\ leaked' \subseteq Pages
      BY <1>1, <1>2, <3>1 DEF SetupFails, PagesOf, PgDirs, Types
    <3>4. OneTable(Tables', Tables, p, "new", NoDir) /\ Stacks' = Stacks
      BY <1>1, <1>2, <3>2, SetPgdirIs, DirTypes
    <3>5. Account(n, free', leaked', Stacks', Tables')
      BY <1>1, <1>2, <3>2, <3>3, <3>4, GiveTable DEF Accounted
    <3> QED
      BY <1>1, <3>2, <3>3, <3>5, DirTypes DEF Accounted, Types
  <2>2. CASE free # {}
    <3> DEFINE s == IF Cardinality(pd.tables) + Cardinality({pd.dir} \ {0}) = KTABLES
                    THEN <<>> ELSE <<<<"setupkvm">>>>
               pd2 == IF pd.dir = 0 THEN [NoDir EXCEPT !.dir = Page]
                      ELSE [pd EXCEPT !.tables = @ \cup {Page}]
    <3>1. /\ Kalloc("zero") /\ SetNew(p, pd2) /\ Then(p, s) /\ leaked' = leaked
          /\ proc' = proc
      BY <2>2 DEF Setupkvm
    <3>2. /\ Page \in free /\ Page \in Pages /\ free' = free \ {Page} /\ free' \subseteq Pages
          /\ Page # 0 /\ DOMAIN value' = Pages /\ \A q \in Pages : q > n => value'[q] = "absent"
      BY <1>1, <2>2, <3>1, KallocIs
    <3>3. pd.dir = 0 => pd = NoDir
      BY <1>1 DEF Slots
    <3>4. \A i \in Upages : pd.user[i] = 0
      BY <1>1, Bounds DEF InSetupkvm, Blank
    <3>5. /\ pd2 \in PgDirs /\ pd2.dir # 0 /\ \A i \in Upages : pd2.user[i] = 0
      BY <1>1, <1>2, <3>2, <3>4, DirTypes DEF PgDirs, NoDir
    <3>6. SetPgdir(p, "new", pd2)
      BY <3>1, SetNewIs
    <3>7. OneTable(Tables', Tables, p, "new", pd2) /\ Stacks' = Stacks
      BY <1>1, <1>2, <3>5, <3>6, SetPgdirIs
    <3>8. Account(n, free', leaked', Stacks', Tables')
      <4>1. CASE pd.dir = 0
        <5>1. OneTable(Tables', Tables, p, "new", [NoDir EXCEPT !.dir = Page])
          BY <3>7, <4>1
        <5>2. Account(n, free \ {Page}, leaked, Stacks, Tables')
          BY <1>1, <1>2, <3>2, <3>3, <4>1, <5>1, TakeDir DEF Accounted
        <5> QED
          BY <3>1, <3>2, <3>7, <5>2
      <4>2. CASE pd.dir # 0
        <5>1. OneTable(Tables', Tables, p, "new", [Tables[p]["new"] EXCEPT !.tables = @ \cup {Page}])
          BY <1>2, <3>7, <4>2
        <5>2. Account(n, free \ {Page}, leaked, Stacks, Tables')
          BY <1>1, <1>2, <3>2, <5>1, TakeTable DEF Accounted
        <5> QED
          BY <3>1, <3>2, <3>7, <5>2
      <4> QED
        BY <4>1, <4>2
    <3> HIDE DEF pd2, s
    <3>9. s \in {<<>>, <<<<"setupkvm">>>>}
      BY DEF s
    <3> QED
      BY <1>1, <3>1, <3>2, <3>5, <3>6, <3>8, <3>9 DEF Types
  <2> QED
    BY <2>1, <2>2
<1>5. /\ todo'[p] = s \o r /\ DOMAIN todo' = Procs /\ \A q \in Procs : q # p => todo'[q] = todo[q]
  BY <1>1, <1>3, <1>4, ThenIs
<1>6. /\ \A q \in Procs :
           /\ proc'[q].state = proc[q].state /\ proc'[q].kstack = proc[q].kstack
           /\ local'[q].child = local[q].child
           /\ q # p => proc'[q] = proc[q] /\ local'[q] = local[q]
      /\ New(p)' = pd2 /\ Old(p)' = Old(p) /\ local'[p].prog = local[p].prog
      /\ local'[p].sz = local[p].sz
      /\ proc' \in [Procs -> [state : States, parent : Procs, sz : 0..USERTOP,
                                 pgdir : PgDirs, kstack : Pages \cup {0}]]
      /\ local' \in [Procs -> [new : PgDirs, sz : Nat, child : Procs, old : PgDirs,
                                  prog : Programs \cup {0}]]
  BY <1>1, <1>2, <1>4, SetPgdirIs
<1>7. Types' /\ Accounted(n)'
  BY <1>4, <1>5, <1>6 DEF Types, Accounted
<1>8. todo'[p] = r \/ todo'[p] = todo[p]
  <2>1. CASE s = <<>>
    <3>1. <<>> \o <<<<"copyuvm", 0>>, <<"forked">>>> = <<<<"copyuvm", 0>>, <<"forked">>>>
      BY Joined
    <3>2. <<>> \o <<<<"segment", 1>>>> = <<<<"segment", 1>>>>
      BY Joined
    <3> QED
      BY <1>3, <1>5, <2>1, <3>1, <3>2
  <2>2. CASE s = <<<<"setupkvm">>>>
    <3>1. <<<<"setupkvm">>>> \o <<<<"copyuvm", 0>>, <<"forked">>>>
            = <<<<"setupkvm">>, <<"copyuvm", 0>>, <<"forked">>>>
      BY Joined
    <3>2. <<<<"setupkvm">>>> \o <<<<"segment", 1>>>> = <<<<"setupkvm">>, <<"segment", 1>>>>
      BY Joined
    <3> QED
      BY <1>3, <1>5, <2>2, <3>1, <3>2
  <2> QED
    BY <1>4, <2>1, <2>2
<1>9. Blank(p, 0)' /\ Old(p)' = NoDir
  BY <1>1, <1>4, <1>6 DEF Blank, InSetupkvm
<1>10. Course(p)' /\ todo'[p] # <<>> /\ Final(todo'[p]) = Final(todo[p])
  <2>1. CASE todo'[p] = todo[p]
    <3>1. InSetupkvm(p)'
      BY <1>1, <1>6, <1>9, <2>1 DEF InSetupkvm, Execing
    <3> QED
      BY <1>3, <2>1, <3>1 DEF Course, Final
  <2>2. CASE todo'[p] = r /\ r = <<<<"copyuvm", 0>>, <<"forked">>>>
    <3>1. InCopyuvm(p)'
      BY <1>9, <2>2 DEF InCopyuvm
    <3>2. todo'[p] # <<>> /\ Final(todo'[p]) = <<"forked">>
      BY <2>2, Finals, Tails
    <3>3. todo[p] = <<<<"setupkvm">>, <<"copyuvm", 0>>, <<"forked">>>>
      BY <1>3, <2>2
    <3>4. Final(todo[p]) = <<"forked">>
      BY <3>3, Finals
    <3> QED
      BY <3>1, <3>2, <3>4 DEF Course
  <2>3. CASE todo'[p] = r /\ r = <<<<"segment", 1>>>> /\ Execing(p)
    <3>1. InSegment(p)'
      <4>1. Execing(p)'
        BY <1>6, <1>9, <2>3 DEF Execing
      <4>2. 1 \in Nat \ {0} /\ todo'[p] = <<<<"segment", 1>>>>
        BY <2>3
      <4> QED
        BY <4>1, <4>2, Zenon DEF InSegment
    <3>2. todo'[p] # <<>> /\ Final(todo'[p]) = <<"segment", 1>>
      BY <2>3, Finals, Tails
    <3>3. todo[p] = <<<<"setupkvm">>, <<"segment", 1>>>>
      BY <1>3, <2>3
    <3>4. Final(todo[p]) = <<"segment", 1>>
      BY <3>3, Finals
    <3> QED
      BY <3>1, <3>2, <3>4 DEF Course
  <2> QED
    BY <1>3, <1>8, <2>1, <2>2, <2>3
<1>11. New(p)'.dir = 0 => New(p)' = NoDir
  BY <1>4, <1>6
<1> QED
  BY <1>3, <1>5, <1>6, <1>7, <1>10, <1>11, InsideKept

\* A panic changes nothing else.
LEMMA PanicOwns ==
  ASSUME NEW n, Ownership(n), UNCHANGED <<free, value, proc, todo, local, leaked>>
  PROVE  Ownership(n)'
<1>1. Types' /\ Slots'
  <2>1. Types'
    BY DEF Ownership, Types
  <2>2. Slots'
    BY DEF Ownership, Slots, Makes, Reaps, Own, New
  <2> QED
    BY <2>1, <2>2
<1>2. Accounted(n)'
  <2>1. Tables' = Tables /\ Stacks' = Stacks
    BY TablesKept DEF Own, New, Old
  <2> QED
    BY <2>1 DEF Ownership, Accounted
<1>3. \A r \in Procs : Course(r)'
  BY CourseKept DEF Ownership
<1> QED
  BY <1>1, <1>2, <1>3 DEF Ownership

\* Addresses below USERTOP are on pages that a page table has.
LEMMA OnPage ==
  ASSUME NEW i \in Nat, NEW a \in Nat, a <= USERTOP, ~(i * PGSIZE >= a)
  PROVE  i \in Upages
<1>1. i < PageUp(a) /\ PageUp(a) <= UPAGES /\ PageUp(a) \in Nat
  BY PageUpIs, PageUpTop
<1> QED
  BY <1>1, Bounds

\* allocuvm() leaves its result.
LEMMA ResultIs ==
  ASSUME Types, NEW p \in Procs, NEW sz \in Nat, local' = [local EXCEPT ![p].sz = sz],
         proc' = proc
  PROVE  /\ local' \in [Procs -> [new : PgDirs, sz : Nat, child : Procs, old : PgDirs,
                                  prog : Programs \cup {0}]]
         /\ \A r \in Procs : /\ local'[r].child = local[r].child /\ local'[r].prog = local[r].prog
                             /\ r # p => local'[r] = local[r]
         /\ local'[p].sz = sz
         /\ New(p)' = New(p) /\ Old(p)' = Old(p) /\ Own(p)' = Own(p)
         /\ Tables' = Tables /\ Stacks' = Stacks
<1>1. local' \in [Procs -> [new : PgDirs, sz : Nat, child : Procs, old : PgDirs,
                                  prog : Programs \cup {0}]]
  BY DEF Types
<1>2. \A r \in Procs : /\ local'[r].child = local[r].child /\ local'[r].prog = local[r].prog
                       /\ local'[r].new = local[r].new /\ local'[r].old = local[r].old
                       /\ r # p => local'[r] = local[r]
  BY DEF Types
<1>3. local'[p].sz = sz
  BY DEF Types
<1>4. \A r \in Procs : New(r)' = New(r) /\ Old(r)' = Old(r) /\ Own(r)' = Own(r)
  BY <1>2 DEF New, Old, Own
<1> QED
  BY <1>1, <1>2, <1>3, <1>4, TablesKept

\* allocuvm().
LEMMA AllocuvmOwns ==
  ASSUME NEW n \in Nat, Ownership(n), NEW p \in Procs, Allocuvm(p)
  PROVE  Ownership(n)'
<1>1. InAllocuvm(p) /\ Types /\ Slots /\ Accounted(n) /\ DOMAIN todo = Procs
  BY Where DEF Ownership, Allocuvm, Types
<1>0. PICK w \in {"own", "new"}, o \in 0..USERTOP, m \in Nat, i \in Nat : \E e :
        /\ todo[p] = <<<<"allocuvm", w, o, m, i>>, e>>
        /\ \/ w = "own" /\ Clear(p) /\ \E k \in Int : e = <<"grown", k>>
           \/ w = "new" /\ Built(p) /\ e \in Loads
  BY <1>1 DEF InAllocuvm
<1>2. PICK e :
        /\ todo[p] = <<<<"allocuvm", w, o, m, i>>, e>>
        /\ \/ w = "own" /\ Clear(p) /\ \E k \in Int : e = <<"grown", k>>
           \/ w = "new" /\ Built(p) /\ e \in Loads
  BY <1>0
<1>3. /\ Arg(p, 2) = w /\ Arg(p, 3) = o /\ Arg(p, 4) = m /\ Arg(p, 5) = i
      /\ Tail(todo[p]) = <<e>> /\ todo[p] # <<>> /\ Final(todo[p]) = e
  <2>1. Head(todo[p]) = <<"allocuvm", w, o, m, i>> /\ Tail(todo[p]) = <<e>> /\ todo[p] # <<>>
    BY <1>2, Tails
  <2>2. Final(todo[p]) = e
    BY <1>2, Finals
  <2> QED
    BY <2>1, <2>2 DEF Arg
<1>4. w \in Which /\ Pgdir(p, w) = Tables[p][w] /\ Tables[p][w] \in PgDirs /\ o \in Nat /\ USERTOP \in Nat
  BY <1>1, DirTypes, Bounds DEF Which, Tables
<1> DEFINE pd == Pgdir(p, w)
<1>5. CASE m > USERTOP \/ m < o \/ i * PGSIZE >= m
  <2> DEFINE sz == IF m > USERTOP THEN 0 ELSE IF m < o THEN o ELSE m
  <2>1. /\ local' = [local EXCEPT ![p].sz = sz]
        /\ Then(p, <<>>) /\ NoPage /\ proc' = proc /\ leaked' = leaked
    BY <1>3, <1>5, Zenon DEF Allocuvm
  <2>2. sz \in Nat /\ sz <= USERTOP
    BY <1>4
  <2> HIDE DEF sz
  <2>3. todo'[p] = <<e>> /\ DOMAIN todo' = Procs /\ \A r \in Procs : r # p => todo'[r] = todo[r]
    <3>1. <<>> \o <<e>> = <<e>>
      BY Joined
    <3> QED
      BY <1>1, <1>3, <2>1, <3>1, ThenIs
  <2>4. todo'[p] # <<>> /\ Final(todo'[p]) = e
    BY <2>3, Tails, Finals
  <2>8. /\ New(p)' = New(p) /\ Old(p)' = Old(p) /\ local'[p].prog = local[p].prog
        /\ local'[p].sz = sz
    BY <1>1, <2>1, <2>2, ResultIs
  <2>5. Types' /\ Accounted(n)'
    BY <1>1, <2>1, <2>2, <2>3, ResultIs DEF Types, Accounted, NoPage
  <2>6. Course(p)'
    <3>1. CASE w = "own"
      <4>1. PICK k \in Int : e = <<"grown", k>> /\ Clear(p)
        BY <1>2, <3>1
      <4>2. Clear(p)' /\ local'[p].sz <= USERTOP
        BY <2>2, <2>8, <4>1 DEF Clear
      <4>3. todo'[p] = <<<<"grown", k>>>>
        BY <2>3, <4>1
      <4>4. InGrown(p)'
        BY <4>1, <4>2, <4>3, Zenon DEF InGrown
      <4> QED
        BY <4>4 DEF Course
    <3>2. CASE w = "new"
      <4>1. Built(p)'
        BY <1>1, <1>2, <2>1, <2>2, <3>2, <2>8 DEF Execing, Built
      <4>2. InLoad(p)' \/ InCommit(p)'
        BY <1>2, <2>3, <3>2, <4>1 DEF InLoad, InCommit, Loads
      <4> QED
        BY <4>2 DEF Course
    <3> QED
      BY <3>1, <3>2
  <2>7. New(p)'.dir = 0 => New(p)' = NoDir
    BY <1>1, <2>8 DEF Slots
  <2> QED
    BY <1>1, <1>3, <2>1, <2>2, <2>3, <2>4, <2>5, <2>6, <2>7, ResultIs, InsideKept
<1>6. CASE ~(m > USERTOP \/ m < o \/ i * PGSIZE >= m) /\ free = {}
  <2> DEFINE d == <<"deallocuvm", w, m, PageUp(o)>>
  <2>1. /\ local' = [local EXCEPT ![p].sz = 0]
        /\ Then(p, <<d>>) /\ NoPage /\ proc' = proc /\ leaked' = leaked
    BY <1>3, <1>6, Zenon DEF Allocuvm
  <2>3. todo'[p] = <<d, e>> /\ DOMAIN todo' = Procs /\ \A r \in Procs : r # p => todo'[r] = todo[r]
    <3>1. <<d>> \o <<e>> = <<d, e>>
      BY Joined
    <3> QED
      BY <1>1, <1>3, <2>1, <3>1, ThenIs
  <2>4. todo'[p] # <<>> /\ Final(todo'[p]) = e
    BY <2>3, Tails, Finals
  <2>8. /\ New(p)' = New(p) /\ Old(p)' = Old(p) /\ local'[p].prog = local[p].prog
        /\ local'[p].sz = 0
    BY <1>1, <2>1, ResultIs
  <2>5. Types' /\ Accounted(n)'
    BY <1>1, <2>1, <2>3, ResultIs DEF Types, Accounted, NoPage
  <2>6. Course(p)'
    <3>1. m \in 0..USERTOP /\ PageUp(o) \in Nat /\ 0 <= USERTOP
      BY <1>4, <1>6, PageUpIs
    <3>2. CASE w = "own"
      <4>1. Clear(p)' /\ local'[p].sz <= USERTOP
        BY <1>1, <1>2, <2>1, <3>1, <3>2, ResultIs DEF Clear
      <4>2. InDeallocuvm(p)'
        BY <1>2, <2>3, <3>1, <3>2, <4>1, Zenon DEF InDeallocuvm
      <4> QED
        BY <4>2 DEF Course
    <3>3. CASE w = "new"
      <4>1. Built(p)'
        BY <1>1, <1>2, <2>1, <3>1, <3>3, <2>8 DEF Execing, Built
      <4>2. InDeallocuvm(p)'
        BY <1>2, <2>3, <3>1, <3>3, <4>1, Zenon DEF InDeallocuvm
      <4> QED
        BY <4>2 DEF Course
    <3> QED
      BY <3>2, <3>3
  <2>7. New(p)'.dir = 0 => New(p)' = NoDir
    BY <1>1, <2>8 DEF Slots
  <2> QED
    BY <1>1, <1>3, <2>1, <2>3, <2>4, <2>5, <2>6, <2>7, ResultIs, InsideKept
<1>7. CASE ~(m > USERTOP \/ m < o \/ i * PGSIZE >= m) /\ free # {} /\ pd.user[i] # 0
  <2>1. UNCHANGED <<free, value, proc, todo, local, leaked>>
    BY <1>3, <1>7, Zenon DEF Allocuvm, NoPage
  <2> QED
    BY <2>1, PanicOwns
<1>8. CASE ~(m > USERTOP \/ m < o \/ i * PGSIZE >= m) /\ free # {} /\ pd.user[i] = 0
  <2> DEFINE d == <<"allocuvm", w, o, m, i + 1>>
             pd2 == [pd EXCEPT !.user[i] = Page]
  <2>1. /\ Kalloc("zero") /\ SetPgdir(p, w, pd2) /\ Then(p, <<d>>) /\ leaked' = leaked
    BY <1>3, <1>8, Zenon DEF Allocuvm
  <2>2. todo'[p] = <<d, e>> /\ DOMAIN todo' = Procs /\ \A r \in Procs : r # p => todo'[r] = todo[r]
    <3>1. <<d>> \o <<e>> = <<d, e>>
      BY Joined
    <3> QED
      BY <1>1, <1>3, <2>1, <3>1, ThenIs
  <2>3. todo'[p] # <<>> /\ Final(todo'[p]) = e
    BY <2>2, Tails, Finals
  <2>4. i \in Upages
    BY <1>4, <1>8, OnPage
  <2>5. /\ Page \in free /\ Page \in Pages /\ free' = free \ {Page} /\ free' \subseteq Pages
        /\ DOMAIN value' = Pages /\ \A q \in Pages : q > n => value'[q] = "absent"
    BY <1>1, <1>8, <2>1, KallocIs
  <2>6. pd2 \in PgDirs /\ pd2.dir = pd.dir
    BY <1>4, <2>4, <2>5 DEF PgDirs
  <2>7. /\ OneTable(Tables', Tables, p, w, pd2) /\ Stacks' = Stacks
        /\ \A r \in Procs :
              /\ proc'[r].state = proc[r].state /\ proc'[r].kstack = proc[r].kstack
              /\ local'[r].child = local[r].child
              /\ r # p => proc'[r] = proc[r] /\ local'[r] = local[r]
        /\ local'[p].prog = local[p].prog /\ local'[p].sz = local[p].sz
        /\ New(p)' = (IF w = "new" THEN pd2 ELSE New(p)) /\ Old(p)' = Old(p)
        /\ proc' \in [Procs -> [state : States, parent : Procs, sz : 0..USERTOP,
                                 pgdir : PgDirs, kstack : Pages \cup {0}]]
        /\ local' \in [Procs -> [new : PgDirs, sz : Nat, child : Procs, old : PgDirs,
                                  prog : Programs \cup {0}]]
    BY <1>1, <1>2, <1>4, <2>1, <2>6, SetPgdirIs
  <2>8. Account(n, free', leaked', Stacks', Tables')
    <3>1. Account(n, free \ {Page}, leaked, Stacks, Tables')
      BY <1>1, <1>4, <1>8, <2>4, <2>5, <2>7, TakeUser DEF Accounted
    <3> QED
      BY <2>1, <2>5, <2>7, <3>1
  <2>9. Types' /\ Accounted(n)'
    BY <1>1, <2>1, <2>2, <2>5, <2>7, <2>8 DEF Types, Accounted
  <2>10. Course(p)'
    <3>1. Clear(p) /\ w = "own" => Clear(p)'
      BY <2>7 DEF Clear
    <3>2. Built(p) /\ w = "new" => Built(p)'
      BY <1>4, <2>6, <2>7, TablesAre DEF Execing, Built
    <3>3. i + 1 \in Nat
      OBVIOUS
    <3>4. InAllocuvm(p)'
      BY <1>2, <2>2, <3>1, <3>2, <3>3, Zenon DEF InAllocuvm
    <3> QED
      BY <3>4 DEF Course
  <2>11. New(p)'.dir = 0 => New(p)' = NoDir
    <3>1. CASE w = "new"
      <4>1. Built(p) /\ pd = New(p) /\ New(p)' = pd2
        BY <1>2, <1>4, <2>7, <3>1, TablesAre
      <4>2. pd.dir # 0
        BY <4>1 DEF Built
      <4> QED
        BY <2>6, <4>1, <4>2
    <3>2. CASE w # "new"
      <4>1. New(p)' = New(p)
        BY <2>7, <3>2
      <4>2. New(p).dir = 0 => New(p) = NoDir
        BY <1>1 DEF Slots
      <4> QED
        BY <4>1, <4>2
    <3> QED
      BY <3>1, <3>2
  <2> QED
    BY <1>3, <2>2, <2>3, <2>7, <2>9, <2>10, <2>11, InsideKept
<1> QED
  BY <1>5, <1>6, <1>7, <1>8

\* deallocuvm().
LEMMA DeallocuvmOwns ==
  ASSUME NEW n \in Nat, Ownership(n), NEW p \in Procs, Deallocuvm(p)
  PROVE  Ownership(n)'
<1>1. InDeallocuvm(p) /\ Types /\ Slots /\ Accounted(n) /\ DOMAIN todo = Procs
  BY Where DEF Ownership, Deallocuvm, Types
<1> DEFINE Short(w, e) ==
             \/ w = "own" /\ Clear(p) /\ local[p].sz <= USERTOP /\ \E k \in Int : e = <<"grown", k>>
             \/ w = "new" /\ Built(p) /\ e \in Loads
           Long(w, e) == /\ w \in {"new", "old"} /\ e \in LastOf(w)
                         /\ IF w = "new" THEN Old(p) = NoDir ELSE New(p) = NoDir
<1>0. PICK w \in Which, o \in 0..USERTOP, j \in Nat : \E e :
        \/ todo[p] = <<<<"deallocuvm", w, o, j>>, e>> /\ Short(w, e)
        \/ todo[p] = <<<<"deallocuvm", w, o, j>>, <<"freedir", w>>, e>> /\ o = USERTOP /\ Long(w, e)
  <2>1. USERTOP \in 0..USERTOP
    BY Bounds
  <2> QED
    BY <1>1, <2>1, Zenon DEF InDeallocuvm, Which
<1>2. PICK e :
        \/ todo[p] = <<<<"deallocuvm", w, o, j>>, e>> /\ Short(w, e)
        \/ todo[p] = <<<<"deallocuvm", w, o, j>>, <<"freedir", w>>, e>> /\ o = USERTOP /\ Long(w, e)
  BY <1>0
<1>3. /\ Arg(p, 2) = w /\ Arg(p, 3) = o /\ Arg(p, 4) = j
      /\ todo[p] # <<>> /\ Final(todo[p]) = e
      /\ \/ Tail(todo[p]) = <<e>> /\ Short(w, e)
         \/ Tail(todo[p]) = <<<<"freedir", w>>, e>> /\ o = USERTOP /\ Long(w, e)
  <2> HIDE DEF Short, Long
  <2>1. CASE todo[p] = <<<<"deallocuvm", w, o, j>>, e>> /\ Short(w, e)
    <3>1. /\ Head(todo[p]) = <<"deallocuvm", w, o, j>> /\ Tail(todo[p]) = <<e>> /\ todo[p] # <<>>
          /\ Final(todo[p]) = e
      BY <2>1, Tails, Finals
    <3> QED
      BY <2>1, <3>1 DEF Arg
  <2>2. CASE /\ todo[p] = <<<<"deallocuvm", w, o, j>>, <<"freedir", w>>, e>>
             /\ o = USERTOP /\ Long(w, e)
    <3>1. Head(todo[p]) = <<"deallocuvm", w, o, j>> /\ todo[p] # <<>> /\ Final(todo[p]) = e
      BY <2>2, Tails, Finals
    <3>2. Tail(todo[p]) = <<<<"freedir", w>>, e>>
      BY <2>2, Tails
    <3> QED
      BY <2>2, <3>1, <3>2 DEF Arg
  <2> QED
    BY <1>2, <2>1, <2>2
<1>4. Pgdir(p, w) = Tables[p][w] /\ Tables[p][w] \in PgDirs /\ o \in Nat /\ USERTOP \in Nat
  BY <1>1, DirTypes, Bounds DEF Tables
<1> DEFINE pd == Pgdir(p, w)
<1>5. CASE j * PGSIZE >= o
  <2>1. Then(p, <<>>) /\ NoPage /\ proc' = proc /\ local' = local /\ leaked' = leaked
    BY <1>3, <1>5, Zenon DEF Deallocuvm
  <2>2. /\ DOMAIN todo' = Procs /\ \A r \in Procs : r # p => todo'[r] = todo[r]
        /\ \/ todo'[p] = <<e>> /\ Short(w, e)
           \/ todo'[p] = <<<<"freedir", w>>, e>> /\ Long(w, e)
    <3> HIDE DEF Short, Long
    <3>1. <<>> \o <<e>> = <<e>> /\ <<>> \o <<<<"freedir", w>>, e>> = <<<<"freedir", w>>, e>>
      BY Joined
    <3> QED
      BY <1>1, <1>3, <2>1, <3>1, ThenIs
  <2>3. \A r \in Procs : New(r)' = New(r) /\ Old(r)' = Old(r) /\ Own(r)' = Own(r)
    BY <2>1 DEF New, Old, Own
  <2>4. Types' /\ Accounted(n)'
    <3>1. Tables' = Tables /\ Stacks' = Stacks
      BY <2>1, <2>3, TablesKept
    <3> QED
      BY <1>1, <2>1, <2>2, <3>1 DEF Types, Accounted, NoPage
  <2>5. todo'[p] # <<>> /\ Final(todo'[p]) = e
    <3> HIDE DEF Short, Long
    <3>1. CASE todo'[p] = <<e>>
      BY <3>1, Tails, Finals
    <3>2. CASE todo'[p] = <<<<"freedir", w>>, e>>
      BY <3>2, Tails, Finals
    <3> QED
      BY <2>2, <3>1, <3>2
  <2>6. Course(p)'
    <3>1. CASE todo'[p] = <<e>> /\ Short(w, e)
      <4>1. InGrown(p)' \/ InLoad(p)' \/ InCommit(p)'
        BY <2>1, <2>3, <3>1 DEF InGrown, InLoad, InCommit, Clear, Built, Execing, Loads
      <4> QED
        BY <4>1 DEF Course
    <3>2. CASE todo'[p] = <<<<"freedir", w>>, e>> /\ Long(w, e)
      <4>1. InFreedir(p)'
        BY <2>3, <3>2, Zenon DEF InFreedir
      <4> QED
        BY <4>1 DEF Course
    <3> QED
      BY <2>2, <3>1, <3>2
  <2>7. New(p)'.dir = 0 => New(p)' = NoDir
    BY <1>1, <2>3 DEF Slots
  <2> QED
    BY <1>3, <2>1, <2>2, <2>4, <2>5, <2>6, <2>7, InsideKept
<1>6. CASE ~(j * PGSIZE >= o)
  <2> DEFINE d == <<"deallocuvm", w, o, j + 1>>
             pd2 == [pd EXCEPT !.user[j] = 0]
             S == {pd.user[j]} \ {0}
  <2>1. Kfree(S) /\ SetPgdir(p, w, pd2) /\ Then(p, <<d>>) /\ leaked' = leaked
    BY <1>3, <1>6, Zenon DEF Deallocuvm
  <2>2. /\ DOMAIN todo' = Procs /\ \A r \in Procs : r # p => todo'[r] = todo[r]
        /\ \/ todo'[p] = <<d, e>> /\ Short(w, e)
           \/ todo'[p] = <<d, <<"freedir", w>>, e>> /\ o = USERTOP /\ Long(w, e)
    <3> HIDE DEF Short, Long
    <3>1. <<d>> \o <<e>> = <<d, e>> /\ <<d>> \o <<<<"freedir", w>>, e>> = <<d, <<"freedir", w>>, e>>
      BY Joined
    <3> QED
      BY <1>1, <1>3, <2>1, <3>1, ThenIs
  <2>3. j \in Upages
    BY <1>4, <1>6, OnPage
  <2>4. S \subseteq Pages /\ S \subseteq 1..n
    <3>1. S \subseteq PagesOf(Tables[p][w])
      BY <1>4, <2>3 DEF PagesOf
    <3>2. S \subseteq Pages
      BY <1>4, <2>3 DEF PgDirs
    <3> QED
      BY <1>1, <3>1, <3>2, Installed
  <2>5. /\ free' = free \cup S /\ free' \subseteq Pages
        /\ DOMAIN value' = Pages /\ \A q \in Pages : q > n => value'[q] = "absent"
    BY <1>1, <2>1, <2>4, KfreeIs
  <2>6. pd2 \in PgDirs /\ pd2.dir = pd.dir
    BY <1>4, <2>3 DEF PgDirs
  <2>7. /\ OneTable(Tables', Tables, p, w, pd2) /\ Stacks' = Stacks
        /\ \A r \in Procs :
              /\ proc'[r].state = proc[r].state /\ proc'[r].kstack = proc[r].kstack
              /\ local'[r].child = local[r].child
              /\ r # p => proc'[r] = proc[r] /\ local'[r] = local[r]
        /\ local'[p].prog = local[p].prog /\ local'[p].sz = local[p].sz
        /\ New(p)' = (IF w = "new" THEN pd2 ELSE New(p))
        /\ Old(p)' = (IF w = "old" THEN pd2 ELSE Old(p))
        /\ proc' \in [Procs -> [state : States, parent : Procs, sz : 0..USERTOP,
                                 pgdir : PgDirs, kstack : Pages \cup {0}]]
        /\ local' \in [Procs -> [new : PgDirs, sz : Nat, child : Procs, old : PgDirs,
                                  prog : Programs \cup {0}]]
    BY <1>1, <1>2, <1>4, <2>1, <2>6, SetPgdirIs
  <2>8. Account(n, free', leaked', Stacks', Tables')
    <3>1. Account(n, free \cup S, leaked, Stacks, Tables')
      <4>1. OneTable(Tables', Tables, p, w, [Tables[p][w] EXCEPT !.user[j] = 0])
        BY <1>4, <2>7
      <4>2. Account(n, free \cup ({Tables[p][w].user[j]} \ {0}), leaked, Stacks, Tables')
        BY <1>1, <1>4, <2>3, <4>1, GiveUser DEF Accounted
      <4> QED
        BY <1>4, <4>2
    <3> QED
      BY <2>1, <2>5, <2>7, <3>1
  <2>9. Types' /\ Accounted(n)'
    BY <1>1, <2>1, <2>2, <2>5, <2>7, <2>8 DEF Types, Accounted
  <2>10. todo'[p] # <<>> /\ Final(todo'[p]) = e
    <3> HIDE DEF Short, Long
    <3>1. CASE todo'[p] = <<d, e>>
      BY <3>1, Tails, Finals
    <3>2. CASE todo'[p] = <<d, <<"freedir", w>>, e>>
      BY <3>2, Tails, Finals
    <3> QED
      BY <2>2, <3>1, <3>2
  <2>11. Course(p)'
    <3>1. Clear(p) /\ w = "own" => Clear(p)'
      BY <2>7 DEF Clear
    <3>2. Built(p) /\ w = "new" => Built(p)'
      BY <1>4, <2>6, <2>7, TablesAre DEF Execing, Built
    <3>3. j + 1 \in Nat
      OBVIOUS
    <3>4. InDeallocuvm(p)'
      <4>1. CASE todo'[p] = <<d, e>> /\ Short(w, e)
        <5>1. CASE w = "own"
          <6>1. Clear(p)' /\ local'[p].sz <= USERTOP /\ \E k \in Int : e = <<"grown", k>>
            BY <2>7, <3>1, <4>1, <5>1
          <6> QED
            BY <3>3, <4>1, <5>1, <6>1, Zenon DEF InDeallocuvm
        <5>2. CASE w = "new"
          <6>1. Built(p)' /\ e \in Loads
            BY <3>2, <4>1, <5>2
          <6> QED
            BY <3>3, <4>1, <5>2, <6>1, Zenon DEF InDeallocuvm
        <5> QED
          BY <4>1, <5>1, <5>2
      <4>2. CASE todo'[p] = <<d, <<"freedir", w>>, e>> /\ o = USERTOP /\ Long(w, e)
        <5>1. IF w = "new" THEN Old(p)' = NoDir ELSE New(p)' = NoDir
          BY <2>7, <4>2
        <5> QED
          BY <3>3, <4>2, <5>1, Zenon DEF InDeallocuvm
      <4> QED
        BY <2>2, <4>1, <4>2
    <3> QED
      BY <3>4 DEF Course
  <2>12. New(p)'.dir = 0 => New(p)' = NoDir
    <3>1. CASE w = "new" /\ pd.dir = 0
      <4>1. pd = NoDir
        BY <1>1, <1>4, <3>1, TablesAre DEF Slots
      <4>2. pd2 = NoDir
        BY <2>3, <4>1 DEF NoDir
      <4> QED
        BY <2>7, <3>1, <4>2
    <3>2. CASE w = "new" /\ pd.dir # 0
      <4>1. New(p)' = pd2
        BY <2>7, <3>2
      <4> QED
        BY <2>6, <3>2, <4>1
    <3>3. CASE w # "new"
      <4>1. New(p)' = New(p)
        BY <2>7, <3>3
      <4>2. New(p).dir = 0 => New(p) = NoDir
        BY <1>1 DEF Slots
      <4> QED
        BY <4>1, <4>2
    <3> QED
      BY <3>1, <3>2, <3>3
  <2> QED
    BY <1>3, <2>2, <2>7, <2>9, <2>10, <2>11, <2>12, InsideKept
<1> QED
  BY <1>5, <1>6

\* The end of freevm().
LEMMA FreedirOwns ==
  ASSUME NEW n \in Nat, Ownership(n), NEW p \in Procs, Freedir(p)
  PROVE  Ownership(n)'
<1>1. InFreedir(p) /\ Types /\ Slots /\ Accounted(n) /\ DOMAIN todo = Procs
  BY Where DEF Ownership, Freedir, Types
<1>0. PICK w \in {"new", "old"} : \E e :
        /\ todo[p] = <<<<"freedir", w>>, e>>
        /\ e \in LastOf(w) /\ IF w = "new" THEN Old(p) = NoDir ELSE New(p) = NoDir
  BY <1>1 DEF InFreedir
<1>2. PICK e :
        /\ todo[p] = <<<<"freedir", w>>, e>>
        /\ e \in LastOf(w) /\ IF w = "new" THEN Old(p) = NoDir ELSE New(p) = NoDir
  BY <1>0
<1>3. Arg(p, 2) = w /\ Tail(todo[p]) = <<e>> /\ todo[p] # <<>> /\ Final(todo[p]) = e
  <2>1. /\ Head(todo[p]) = <<"freedir", w>> /\ Tail(todo[p]) = <<e>> /\ todo[p] # <<>>
        /\ Final(todo[p]) = e
    BY <1>2, Tails, Finals
  <2> QED
    BY <2>1 DEF Arg
<1>4. w \in Which /\ Pgdir(p, w) = Tables[p][w] /\ Tables[p][w] \in PgDirs /\ NoDir \in PgDirs
  BY <1>1, DirTypes DEF Which, Tables
<1> DEFINE S == PagesOf(Pgdir(p, w))
<1>5. Kfree(S) /\ SetPgdir(p, w, NoDir) /\ Then(p, <<>>) /\ leaked' = leaked
  BY <1>3, Zenon DEF Freedir
<1>6. todo'[p] = <<e>> /\ DOMAIN todo' = Procs /\ \A r \in Procs : r # p => todo'[r] = todo[r]
  <2>1. <<>> \o <<e>> = <<e>>
    BY Joined
  <2> QED
    BY <1>1, <1>3, <1>5, <2>1, ThenIs
<1>7. S \subseteq Pages /\ S \subseteq 1..n
  BY <1>1, <1>4, Installed DEF PagesOf, PgDirs
<1>8. /\ free' = free \cup S /\ free' \subseteq Pages
      /\ DOMAIN value' = Pages /\ \A q \in Pages : q > n => value'[q] = "absent"
  BY <1>1, <1>5, <1>7, KfreeIs
<1>9. /\ OneTable(Tables', Tables, p, w, NoDir) /\ Stacks' = Stacks
      /\ \A r \in Procs :
            /\ proc'[r].state = proc[r].state /\ proc'[r].kstack = proc[r].kstack
            /\ local'[r].child = local[r].child
            /\ r # p => proc'[r] = proc[r] /\ local'[r] = local[r]
      /\ New(p)' = (IF w = "new" THEN NoDir ELSE New(p))
      /\ Old(p)' = (IF w = "old" THEN NoDir ELSE Old(p))
      /\ proc' \in [Procs -> [state : States, parent : Procs, sz : 0..USERTOP,
                               pgdir : PgDirs, kstack : Pages \cup {0}]]
      /\ local' \in [Procs -> [new : PgDirs, sz : Nat, child : Procs, old : PgDirs,
                                prog : Programs \cup {0}]]
  BY <1>1, <1>4, <1>5, SetPgdirIs
<1>10. Account(n, free', leaked', Stacks', Tables')
  <2>1. Account(n, free \cup S, leaked, Stacks, Tables')
    <3>1. Account(n, free \cup PagesOf(Tables[p][w]), leaked, Stacks, Tables')
      BY <1>1, <1>4, <1>9, GiveTable DEF Accounted
    <3> QED
      BY <1>4, <3>1
  <2> QED
    BY <1>5, <1>8, <1>9, <2>1
<1>11. Types' /\ Accounted(n)'
  BY <1>1, <1>5, <1>6, <1>8, <1>9, <1>10 DEF Types, Accounted
<1>12. todo'[p] # <<>> /\ Final(todo'[p]) = e
  BY <1>6, Tails, Finals
<1>13. Clear(p)'
  BY <1>2, <1>9 DEF Clear
<1>14. Course(p)'
  <2>1. InForked(p)' \/ InFailed(p)' \/ InReaped(p)'
    BY <1>2, <1>6, <1>13 DEF LastOf, InForked, InFailed, InReaped, Clear
  <2> QED
    BY <2>1 DEF Course
<1>15. New(p)'.dir = 0 => New(p)' = NoDir
  BY <1>13 DEF Clear
<1> QED
  BY <1>3, <1>6, <1>9, <1>11, <1>12, <1>14, <1>15, InsideKept

\* The same for the steps that start and end a call, when nobody else's slot
\* changes.
LEMMA CallKept ==
  ASSUME NEW n, Ownership(n), NEW p \in Procs, Types', Accounted(n)', Course(p)',
         proc[p].state = "live",
         \A q \in Procs : (Makes(p, q)' => Makes(p, q)) /\ (Reaps(p, q)' => Reaps(p, q)),
         \A r \in Procs : /\ r # p => /\ todo'[r] = todo[r] /\ proc'[r] = proc[r]
                                      /\ local'[r] = local[r]
                          /\ proc'[r].state = proc[r].state /\ proc'[r].kstack = proc[r].kstack,
         New(p)'.dir = 0 => New(p)' = NoDir
  PROVE  Ownership(n)'
<1>1. \A r \in Procs : Course(r)'
  BY CourseKept DEF Ownership
<1>2. \A q, r \in Procs : (Makes(r, q)' => Makes(r, q)) /\ (Reaps(r, q)' => Reaps(r, q))
  BY DEF Makes, Reaps, Final
<1>3. \A r \in Procs :
       /\ proc'[r].state \notin {"live", "zombie"} => Own(r)' = NoDir
       /\ proc'[r].state \in {"unused", "reaped"} <=> proc'[r].kstack = 0
       /\ proc'[r].state # "live" => todo'[r] = <<>>
       /\ New(r)'.dir = 0 => New(r)' = NoDir
  BY DEF Ownership, Slots, Own, New
<1>4. \A q, r \in Procs : /\ Makes(r, q)' => proc'[q].state = "embryo"
                          /\ Reaps(r, q)' => proc'[q].state = "reaped"
  BY <1>2 DEF Ownership, Slots
<1>5. \A s, q, r \in Procs : /\ Makes(s, q)' /\ Makes(r, q)' => s = r
                             /\ Reaps(s, q)' /\ Reaps(r, q)' => s = r
  BY <1>2 DEF Ownership, Slots
<1> QED
  BY <1>1, <1>3, <1>4, <1>5 DEF Ownership, Slots

\* Only fork() makes a process, and only wait() takes one.
LEMMA NobodyElse ==
  ASSUME NEW p \in Procs,
         todo'[p] = <<>> \/ Final(todo'[p])[1] \notin {"forked", "reaped"}
  PROVE  \A q \in Procs : (Makes(p, q)' => Makes(p, q)) /\ (Reaps(p, q)' => Reaps(p, q))
<1>1. \A q \in Procs : <<"forked">>[1] = "forked" /\ <<"reaped", q>>[1] = "reaped"
  BY Heads
<1> QED
  BY <1>1 DEF Makes, Reaps, Final

\* The pages change what they hold, but not who has them.
LEMMA AccountKept ==
  ASSUME NEW n, Accounted(n), free' = free, leaked' = leaked,
         \A r \in Procs : proc'[r].pgdir = proc[r].pgdir /\ proc'[r].kstack = proc[r].kstack,
         \A r \in Procs : New(r)' = New(r) /\ Old(r)' = Old(r),
         \A q \in Pages : q > n => value'[q] = value[q]
  PROVE  Accounted(n)'
<1>1. Tables' = Tables /\ Stacks' = Stacks
  BY TablesKept DEF Own
<1> QED
  BY <1>1 DEF Accounted

\* freevm() of the new page table.
LEMMA FreevmIs ==
  ASSUME NEW w, NEW e
  PROVE  /\ Freevm(w) \o <<e>> = <<<<"deallocuvm", w, USERTOP, 0>>, <<"freedir", w>>, e>>
         /\ <<>> \o <<e>> = <<e>>
  BY Joined DEF Freevm

\* copyuvm().
LEMMA CopyuvmOwns ==
  ASSUME NEW n \in Nat, Ownership(n), NEW p \in Procs, Copyuvm(p)
  PROVE  Ownership(n)'
<1>1. InCopyuvm(p) /\ Types /\ Slots /\ Accounted(n) /\ DOMAIN todo = Procs
  BY Where DEF Ownership, Copyuvm, Types
<1>2. PICK i \in Nat : todo[p] = <<<<"copyuvm", i>>, <<"forked">>>> /\ Old(p) = NoDir /\ Blank(p, i)
  BY <1>1 DEF InCopyuvm
<1>3. /\ Arg(p, 2) = i /\ Tail(todo[p]) = <<<<"forked">>>> /\ todo[p] # <<>>
      /\ Final(todo[p]) = <<"forked">>
  <2>1. /\ Head(todo[p]) = <<"copyuvm", i>> /\ Tail(todo[p]) = <<<<"forked">>>> /\ todo[p] # <<>>
        /\ Final(todo[p]) = <<"forked">>
    BY <1>2, Tails, Finals
  <2> QED
    BY <2>1 DEF Arg
<1>4. /\ "new" \in Which /\ New(p) = Tables[p]["new"] /\ New(p) \in PgDirs
      /\ proc[p].sz \in Nat /\ proc[p].sz <= USERTOP
  BY <1>1, DirTypes, TablesAre, Bounds DEF Which, Types
<1> DEFINE from == proc[p].pgdir.user[i]
<1>5. CASE New(p).dir = 0 \/ i * PGSIZE >= proc[p].sz \/ (from # 0 /\ free = {})
  <2>1. PICK s \in {<<>>, Freevm("new")} :
          Then(p, s) /\ NoPage /\ proc' = proc /\ local' = local /\ leaked' = leaked
    <3>1. CASE New(p).dir = 0 \/ i * PGSIZE >= proc[p].sz
      BY <1>3, <3>1, Zenon DEF Copyuvm
    <3>2. CASE ~(New(p).dir = 0 \/ i * PGSIZE >= proc[p].sz) /\ from # 0 /\ free = {}
      BY <1>3, <3>2, Zenon DEF Copyuvm
    <3> QED
      BY <1>5, <3>1, <3>2
  <2>2. /\ DOMAIN todo' = Procs /\ \A r \in Procs : r # p => todo'[r] = todo[r]
        /\ todo'[p] = s \o <<<<"forked">>>>
    BY <1>1, <1>3, <2>1, ThenIs
  <2>3. \/ todo'[p] = <<<<"forked">>>>
        \/ todo'[p] = <<<<"deallocuvm", "new", USERTOP, 0>>, <<"freedir", "new">>, <<"forked">>>>
    BY <2>1, <2>2, FreevmIs
  <2>4. todo'[p] # <<>> /\ Final(todo'[p]) = <<"forked">>
    <3>1. CASE todo'[p] = <<<<"forked">>>>
      BY <3>1, Tails, Finals
    <3>2. CASE todo'[p] = <<<<"deallocuvm", "new", USERTOP, 0>>, <<"freedir", "new">>, <<"forked">>>>
      BY <3>2, Tails, Finals
    <3> QED
      BY <2>3, <3>1, <3>2
  <2>5. \A r \in Procs : New(r)' = New(r) /\ Old(r)' = Old(r)
    BY <2>1 DEF New, Old
  <2>6. Types' /\ Accounted(n)'
    BY <1>1, <2>1, <2>2, <2>5, AccountKept DEF Types, NoPage
  <2>7. Course(p)'
    <3>1. CASE todo'[p] = <<<<"forked">>>>
      BY <1>2, <2>5, <3>1 DEF Course, InForked
    <3>2. CASE todo'[p] = <<<<"deallocuvm", "new", USERTOP, 0>>, <<"freedir", "new">>, <<"forked">>>>
      <4>1. 0 \in Nat /\ <<"forked">> \in LastOf("new") /\ Old(p)' = NoDir /\ "new" \in {"new", "old"}
        BY <1>2, <2>5 DEF LastOf
      <4>2. InDeallocuvm(p)'
        BY <3>2, <4>1, Zenon DEF InDeallocuvm
      <4> QED
        BY <4>2 DEF Course
    <3> QED
      BY <2>3, <3>1, <3>2
  <2>8. New(p)'.dir = 0 => New(p)' = NoDir
    BY <1>1, <2>5 DEF Slots
  <2> QED
    BY <1>3, <2>1, <2>2, <2>4, <2>6, <2>7, <2>8, InsideKept
<1>6. CASE ~(New(p).dir = 0 \/ i * PGSIZE >= proc[p].sz) /\ from = 0
  <2>1. UNCHANGED <<free, value, proc, todo, local, leaked>>
    BY <1>3, <1>6, Zenon DEF Copyuvm, NoPage
  <2> QED
    BY <2>1, PanicOwns
<1>7. CASE ~(New(p).dir = 0 \/ i * PGSIZE >= proc[p].sz) /\ from # 0 /\ free # {}
  <2> DEFINE d == <<"copyuvm", i + 1>>
             pd2 == [New(p) EXCEPT !.user[i] = Page]
  <2>1. /\ Kalloc(Copy(value[from])) /\ SetNew(p, pd2) /\ Then(p, <<d>>) /\ leaked' = leaked
        /\ proc' = proc
    BY <1>3, <1>7, Zenon DEF Copyuvm
  <2>2. todo'[p] = <<d, <<"forked">>>> /\ DOMAIN todo' = Procs
        /\ \A r \in Procs : r # p => todo'[r] = todo[r]
    <3>1. <<d>> \o <<<<"forked">>>> = <<d, <<"forked">>>>
      BY Joined
    <3> QED
      BY <1>1, <1>3, <2>1, <3>1, ThenIs
  <2>3. todo'[p] # <<>> /\ Final(todo'[p]) = <<"forked">>
    BY <2>2, Tails, Finals
  <2>4. i \in Upages
    BY <1>4, <1>7, OnPage
  <2>5. /\ Page \in free /\ Page \in Pages /\ free' = free \ {Page} /\ free' \subseteq Pages
        /\ DOMAIN value' = Pages /\ \A q \in Pages : q > n => value'[q] = "absent"
    BY <1>1, <1>7, <2>1, KallocIs
  <2>6. /\ pd2 \in PgDirs /\ pd2.dir = New(p).dir
        /\ \A k \in Upages : k # i => pd2.user[k] = New(p).user[k]
    BY <1>4, <2>4, <2>5 DEF PgDirs
  <2>7. /\ OneTable(Tables', Tables, p, "new", pd2) /\ Stacks' = Stacks
        /\ \A r \in Procs :
              /\ proc'[r].state = proc[r].state /\ proc'[r].kstack = proc[r].kstack
              /\ local'[r].child = local[r].child
              /\ r # p => proc'[r] = proc[r] /\ local'[r] = local[r]
        /\ New(p)' = pd2 /\ Old(p)' = Old(p)
        /\ proc' \in [Procs -> [state : States, parent : Procs, sz : 0..USERTOP,
                                 pgdir : PgDirs, kstack : Pages \cup {0}]]
        /\ local' \in [Procs -> [new : PgDirs, sz : Nat, child : Procs, old : PgDirs,
                                  prog : Programs \cup {0}]]
    <3>1. SetPgdir(p, "new", pd2)
      BY <2>1, SetNewIs
    <3> QED
      BY <1>1, <1>4, <2>6, <3>1, SetPgdirIs
  <2>8. Account(n, free', leaked', Stacks', Tables')
    <3>1. OneTable(Tables', Tables, p, "new", [Tables[p]["new"] EXCEPT !.user[i] = Page])
      BY <1>4, <2>7
    <3>2. Tables[p]["new"].user[i] = 0
      BY <1>2, <1>4, <2>4 DEF Blank
    <3>3. Account(n, free \ {Page}, leaked, Stacks, Tables')
      <4>1. Tables[p]["new"] \in PgDirs /\ Account(n, free, leaked, Stacks, Tables)
        BY <1>1, <1>4 DEF Accounted
      <4> QED
        BY <1>4, <2>4, <2>5, <3>1, <3>2, <4>1, TakeUser
    <3> QED
      BY <2>1, <2>5, <2>7, <3>3
  <2>9. Types' /\ Accounted(n)'
    BY <1>1, <2>1, <2>2, <2>5, <2>7, <2>8 DEF Types, Accounted
  <2>10. Course(p)'
    <3>1. Blank(p, i + 1)'
      <4>1. \A k \in Upages : k >= i + 1 => k >= i /\ k # i
        BY Bounds
      <4> QED
        BY <1>2, <2>6, <2>7, <4>1 DEF Blank
    <3>2. i + 1 \in Nat /\ Old(p)' = NoDir
      BY <1>2, <2>7
    <3>3. InCopyuvm(p)'
      BY <2>2, <3>1, <3>2, Zenon DEF InCopyuvm
    <3> QED
      BY <3>3 DEF Course
  <2>11. New(p)'.dir = 0 => New(p)' = NoDir
    BY <1>7, <2>6, <2>7
  <2> QED
    BY <1>3, <2>2, <2>3, <2>7, <2>9, <2>10, <2>11, InsideKept
<1> QED
  BY <1>5, <1>6, <1>7

\* exec() gives up.
LEMMA BadOwns ==
  ASSUME NEW n \in Nat, Ownership(n), NEW p \in Procs, Old(p) = NoDir, todo[p] # <<>>, Bad(p),
         UNCHANGED <<free, value, proc, local, leaked>>
  PROVE  Ownership(n)'
<1>1. Types /\ Slots /\ Accounted(n) /\ DOMAIN todo = Procs /\ proc[p].state = "live"
  BY DEF Ownership, Slots, Types
<1>2. /\ DOMAIN todo' = Procs /\ \A r \in Procs : r # p => todo'[r] = todo[r]
      /\ IF New(p).dir = 0 THEN todo'[p] = <<<<"failed">>>>
         ELSE todo'[p] = <<<<"deallocuvm", "new", USERTOP, 0>>, <<"freedir", "new">>, <<"failed">>>>
  <2>1. Only(p, (IF New(p).dir = 0 THEN <<>> ELSE Freevm("new")) \o <<<<"failed">>>>)
    BY DEF Bad
  <2>2. todo'[p] = (IF New(p).dir = 0 THEN <<>> ELSE Freevm("new")) \o <<<<"failed">>>>
        /\ DOMAIN todo' = Procs /\ \A r \in Procs : r # p => todo'[r] = todo[r]
    BY <1>1, <2>1, OnlyIs
  <2> QED
    BY <2>2, FreevmIs
<1>3. \A r \in Procs : New(r)' = New(r) /\ Old(r)' = Old(r)
  BY DEF New, Old
<1>4. Types' /\ Accounted(n)'
  BY <1>1, <1>2, <1>3, AccountKept DEF Types
<1>5. Course(p)' /\ Final(todo'[p]) = <<"failed">>
  <2>1. CASE New(p).dir = 0
    <3>1. Clear(p)'
      BY <1>1, <1>3, <2>1 DEF Clear, Slots
    <3>2. InFailed(p)'
      BY <1>2, <2>1, <3>1 DEF InFailed
    <3> QED
      BY <1>2, <2>1, <3>2, Finals DEF Course
  <2>2. CASE New(p).dir # 0
    <3>1. 0 \in Nat /\ <<"failed">> \in LastOf("new") /\ Old(p)' = NoDir /\ "new" \in {"new", "old"}
      BY <1>3 DEF LastOf
    <3>2. todo'[p] = <<<<"deallocuvm", "new", USERTOP, 0>>, <<"freedir", "new">>, <<"failed">>>>
      BY <1>2, <2>2
    <3>3. InDeallocuvm(p)'
      BY <3>1, <3>2, Zenon DEF InDeallocuvm
    <3> QED
      BY <3>2, <3>3, Finals DEF Course
  <2> QED
    BY <2>1, <2>2
<1>6. \A q \in Procs : (Makes(p, q)' => Makes(p, q)) /\ (Reaps(p, q)' => Reaps(p, q))
  BY <1>5, Heads, NobodyElse
<1>7. New(p)'.dir = 0 => New(p)' = NoDir
  BY <1>1, <1>3 DEF Slots
<1> QED
  BY <1>1, <1>2, <1>4, <1>5, <1>6, <1>7, CallKept

\* The arguments of exec().
LEMMA ProgIs ==
  ASSUME NEW prog \in Programs, NEW k \in DOMAIN prog.segs
  PROVE  /\ prog.segs[k].va \in Nat /\ prog.segs[k].memsz \in Nat /\ prog.segs[k].filesz \in Nat
         /\ prog.segs[k].short \in BOOLEAN /\ k \in 1..Len(prog.segs) /\ Len(prog.segs) \in Nat
         /\ EndOf(prog.segs[k]) \in Nat
<1> DEFINE s == prog.segs
           Headers == [va : Uints, memsz : Uints, filesz : Uints, short : BOOLEAN]
<1>1. s \in Seq(Headers) /\ k \in DOMAIN s
  BY MemoryAssumption
<1> HIDE DEF s, Headers
<1>2. k \in 1..Len(s) /\ Len(s) \in Nat /\ s[k] \in Headers
  BY <1>1
<1>3. ADDRESSES \in Nat \ {0} /\ Uints \subseteq Nat
  BY Addresses DEF Uints
<1>4. s[k].va \in Nat /\ s[k].memsz \in Nat /\ s[k].filesz \in Nat /\ s[k].short \in BOOLEAN
  BY <1>2, <1>3 DEF Headers
<1>5. EndOf(s[k]) \in Nat
  BY <1>3, <1>4 DEF EndOf, Wrap
<1> QED
  BY <1>2, <1>4, <1>5 DEF s

\* The end of the page that a legal size is on is legal.
LEMMA TopLegal ==
  ASSUME NEW a \in Nat, a <= USERTOP
  PROVE  PageUp(a) \in Nat /\ PageUp(a) * PGSIZE \in 0..USERTOP
<1>1. PageUp(a) \in Nat /\ PageUp(a) <= UPAGES
  BY PageUpIs, PageUpTop
<1>2. PICK d \in Nat : UPAGES = PageUp(a) + d
  BY <1>1, Bounds, UPAGES - PageUp(a) \in Nat
<1>3. UPAGES * PGSIZE = PageUp(a) * PGSIZE + d * PGSIZE /\ d * PGSIZE \in Nat
      /\ PageUp(a) * PGSIZE \in Nat
  BY <1>1, <1>2, Bounds
<1> QED
  BY <1>1, <1>3, Bounds

\* Steps put together in front of nothing.
LEMMA Twice ==
  ASSUME NEW a, NEW b
  PROVE  (<<a>> \o <<b>>) \o <<>> = <<a, b>>
<1>1. <<a>> \o <<b>> = <<a, b>> /\ <<a, b>> \o <<>> = <<a, b>>
  BY Joined
<1> QED
  BY <1>1

\* A segment of the program, or its stack.
LEMMA SegmentOwns ==
  ASSUME NEW n \in Nat, Ownership(n), NEW p \in Procs, Segment(p)
  PROVE  Ownership(n)'
<1>1. InSegment(p) /\ Types /\ Slots /\ Accounted(n) /\ DOMAIN todo = Procs
  BY Where DEF Ownership, Segment, Types
<1>2. PICK k \in Nat \ {0} : todo[p] = <<<<"segment", k>>>> /\ Execing(p)
  BY <1>1 DEF InSegment
<1>3. Arg(p, 2) = k /\ Tail(todo[p]) = <<>> /\ todo[p] # <<>>
  <2>1. Head(todo[p]) = <<"segment", k>> /\ Tail(todo[p]) = <<>> /\ todo[p] # <<>>
    BY <1>2, Tails
  <2> QED
    BY <2>1 DEF Arg
<1>4. UNCHANGED <<free, value, proc, local, leaked>> /\ proc[p].state = "live"
  BY <1>1, <1>3 DEF Segment, Slots
<1> DEFINE segs == local[p].prog.segs
           sz == local[p].sz
           top == PageUp(sz) * PGSIZE
<1>5. CASE New(p).dir = 0 \/ (k \in DOMAIN segs /\ segs[k].memsz < segs[k].filesz)
  <2>1. Bad(p)
    BY <1>3, <1>5, Zenon DEF Segment
  <2> QED
    BY <1>2, <1>3, <1>4, <2>1, BadOwns DEF Execing
<1>6. CASE ~(New(p).dir = 0 \/ (k \in DOMAIN segs /\ segs[k].memsz < segs[k].filesz))
  <2>1. PICK o \in 0..USERTOP, m \in Nat, e \in Loads :
          /\ Then(p, AllocSteps("new", o, m) \o <<e>>)
          /\ e[1] \in {"load", "commit"}
    <3>1. sz \in Nat /\ sz <= USERTOP /\ sz \in 0..USERTOP /\ local[p].prog \in Programs /\ PGSIZE \in Nat
      BY <1>1, <1>2, Bounds DEF Execing, Types
    <3>2. CASE k \in DOMAIN segs
      <4>1. Then(p, AllocSteps("new", sz, EndOf(segs[k])) \o <<<<"load", k>>>>)
        BY <1>3, <1>6, <3>2, Zenon DEF Segment
      <4>2. EndOf(segs[k]) \in Nat
        BY <3>1, <3>2, ProgIs
      <4>3. <<"load", k>> \in Loads /\ <<"load", k>>[1] = "load"
        BY Heads DEF Loads
      <4> QED
        BY <3>1, <4>1, <4>2, <4>3
    <3>3. CASE k \notin DOMAIN segs
      <4>1. Then(p, AllocSteps("new", top, top + PGSIZE) \o <<<<"commit">>>>)
        BY <1>3, <1>6, <3>3, Zenon DEF Segment
      <4>2. top \in 0..USERTOP /\ top + PGSIZE \in Nat
        BY <3>1, TopLegal
      <4>3. <<"commit">> \in Loads /\ <<"commit">>[1] = "commit"
        BY Heads DEF Loads
      <4> QED
        BY <4>1, <4>2, <4>3
    <3> QED
      BY <3>2, <3>3
  <2> DEFINE a == <<"allocuvm", "new", o, m, PageUp(o)>>
  <2>2. todo'[p] = <<a, e>> /\ DOMAIN todo' = Procs /\ \A r \in Procs : r # p => todo'[r] = todo[r]
    <3>1. AllocSteps("new", o, m) = <<a>>
      BY DEF AllocSteps, AllocFrom
    <3>2. Then(p, <<a>> \o <<e>>)
      BY <2>1, <3>1
    <3>3. /\ todo'[p] = (<<a>> \o <<e>>) \o Tail(todo[p]) /\ DOMAIN todo' = Procs
          /\ \A r \in Procs : r # p => todo'[r] = todo[r]
      BY <1>1, <3>2, ThenIs
    <3> QED
      BY <1>3, <3>3, Twice
  <2>3. Final(todo'[p]) = e
    BY <2>2, Finals
  <2>4. \A r \in Procs : New(r)' = New(r) /\ Old(r)' = Old(r)
    BY <1>4 DEF New, Old
  <2>5. Types' /\ Accounted(n)'
    BY <1>1, <1>4, <2>2, <2>4, AccountKept DEF Types
  <2>6. Course(p)'
    <3>1. Built(p)'
      BY <1>2, <1>4, <1>6, <2>4 DEF Built, Execing
    <3>2. PageUp(o) \in Nat /\ "new" \in {"own", "new"}
      BY PageUpIs
    <3>3. InAllocuvm(p)'
      BY <2>1, <2>2, <3>1, <3>2, Zenon DEF InAllocuvm
    <3> QED
      BY <3>3 DEF Course
  <2>7. \A q \in Procs : (Makes(p, q)' => Makes(p, q)) /\ (Reaps(p, q)' => Reaps(p, q))
    BY <2>1, <2>3, NobodyElse
  <2>8. New(p)'.dir = 0 => New(p)' = NoDir
    BY <1>1, <2>4 DEF Slots
  <2> QED
    BY <1>4, <2>2, <2>5, <2>6, <2>7, <2>8, CallKept
<1> QED
  BY <1>5, <1>6

\* Pages of a page table are filled.
LEMMA FillIs ==
  ASSUME NEW n \in Nat, Types, Accounted(n), NEW p \in Procs, NEW w \in Which,
         NEW S, S \subseteq Upages, NEW v, Fill(Tables[p][w], S, v)
  PROVE  /\ DOMAIN value' = Pages
         /\ \A q \in Pages : q > n => value'[q] = value[q]
         /\ \A q \in Pages : value'[q] = IF q \in {Tables[p][w].user[i] : i \in S} THEN v ELSE value[q]
<1>1. /\ DOMAIN value' = Pages
      /\ \A q \in Pages : value'[q] = IF q \in {Tables[p][w].user[i] : i \in S} THEN v ELSE value[q]
  BY DEF Fill
<1>2. \A i \in S : Tables[p][w].user[i] \in 1..n \/ Tables[p][w].user[i] = 0
  BY Installed DEF PagesOf
<1>3. \A q \in Pages : q > n => q \notin 1..n /\ q # 0
  BY Bounds
<1> QED
  BY <1>1, <1>2, <1>3

\* loaduvm().
LEMMA LoadOwns ==
  ASSUME NEW n \in Nat, Ownership(n), NEW p \in Procs, Load(p)
  PROVE  Ownership(n)'
<1>1. InLoad(p) /\ Types /\ Slots /\ Accounted(n) /\ DOMAIN todo = Procs
  BY Where DEF Ownership, Load, Types
<1>2. PICK k \in Nat \ {0} : todo[p] = <<<<"load", k>>>> /\ Built(p)
  BY <1>1 DEF InLoad
<1>3. Arg(p, 2) = k /\ Tail(todo[p]) = <<>> /\ todo[p] # <<>>
  <2>1. Head(todo[p]) = <<"load", k>> /\ Tail(todo[p]) = <<>> /\ todo[p] # <<>>
    BY <1>2, Tails
  <2> QED
    BY <2>1 DEF Arg
<1>4. UNCHANGED <<free, proc, local, leaked>> /\ proc[p].state = "live"
  BY <1>1, <1>3 DEF Load, Slots
<1> DEFINE seg == local[p].prog.segs[k]
<1>5. CASE Bad(p) /\ value' = value
  BY <1>2, <1>3, <1>4, <1>5, BadOwns DEF Execing, Built
<1>6. CASE UNCHANGED <<todo, value>>
  BY <1>4, <1>6, PanicOwns
<1>7. CASE Fill(New(p), Span(seg.va, seg.va + seg.filesz), "text") /\ Then(p, <<<<"segment", k + 1>>>>)
  <2>1. Fill(New(p), Span(seg.va, seg.va + seg.filesz), "text") /\ Then(p, <<<<"segment", k + 1>>>>)
    BY <1>7
  <2>2. DOMAIN value' = Pages /\ \A q \in Pages : q > n => value'[q] = value[q]
    <3>1. New(p) = Tables[p]["new"] /\ "new" \in Which
      BY TablesAre DEF Which
    <3>2. Span(seg.va, seg.va + seg.filesz) \subseteq Upages
      BY DEF Span
    <3> QED
      <4>1. Fill(Tables[p]["new"], Span(seg.va, seg.va + seg.filesz), "text")
        BY <2>1, <3>1
      <4> QED
        BY <1>1, <3>1, <3>2, <4>1, FillIs
  <2>3. /\ todo'[p] = <<<<"segment", k + 1>>>> /\ DOMAIN todo' = Procs
        /\ \A r \in Procs : r # p => todo'[r] = todo[r]
    <3>1. <<<<"segment", k + 1>>>> \o <<>> = <<<<"segment", k + 1>>>>
      BY Joined
    <3> QED
      BY <1>1, <1>3, <2>1, <3>1, ThenIs
  <2>4. \A r \in Procs : New(r)' = New(r) /\ Old(r)' = Old(r)
    BY <1>4 DEF New, Old
  <2>5. Types' /\ Accounted(n)'
    BY <1>1, <1>4, <2>2, <2>3, <2>4, AccountKept DEF Types
  <2>6. Course(p)'
    <3>1. Execing(p)' /\ k + 1 \in Nat \ {0}
      BY <1>2, <1>4, <2>4 DEF Built, Execing
    <3>2. InSegment(p)'
      BY <2>3, <3>1, Zenon DEF InSegment
    <3> QED
      BY <3>2 DEF Course
  <2>7. \A q \in Procs : (Makes(p, q)' => Makes(p, q)) /\ (Reaps(p, q)' => Reaps(p, q))
    <3>1. Final(todo'[p]) = <<"segment", k + 1>>
      BY <2>3, Finals
    <3> QED
      BY <3>1, Heads, NobodyElse
  <2>8. New(p)'.dir = 0 => New(p)' = NoDir
    BY <1>1, <2>4 DEF Slots
  <2> QED
    BY <1>4, <2>3, <2>5, <2>6, <2>7, <2>8, CallKept
<1> QED
  BY <1>3, <1>5, <1>6, <1>7, Zenon DEF Load

\* The local variables of a call are set.
LEMMA LocalIs ==
  ASSUME Types, NEW p \in Procs,
         NEW l \in [new : PgDirs, sz : Nat, child : Procs, old : PgDirs, prog : Programs \cup {0}],
         local' = [local EXCEPT ![p] = l]
  PROVE  /\ local' \in [Procs -> [new : PgDirs, sz : Nat, child : Procs, old : PgDirs,
                                  prog : Programs \cup {0}]]
         /\ local'[p] = l /\ New(p)' = l.new /\ Old(p)' = l.old
         /\ \A r \in Procs : r # p => local'[r] = local[r]
  BY DEF Types, New, Old

\* A call without local variables.
LEMMA NoLocalIs ==
  /\ NoDir \in PgDirs
  /\ NoLocal \in [new : PgDirs, sz : Nat, child : Procs, old : PgDirs, prog : Programs \cup {0}]
  /\ NoLocal.new = NoDir /\ NoLocal.old = NoDir /\ NoLocal.sz = 0 /\ NoLocal.prog = 0
<1>1. NoDir \in PgDirs
  BY DEF NoDir, PgDirs
<1> QED
  BY <1>1, Bounds DEF NoLocal

\* A process enters or leaves a call that keeps its page tables.
LEMMA LocalOwns ==
  ASSUME NEW n \in Nat, Ownership(n), NEW p \in Procs, proc[p].state = "live", Clear(p),
         NEW l \in [new : PgDirs, sz : Nat, child : Procs, old : PgDirs, prog : Programs \cup {0}],
         l.new = NoDir, l.old = NoDir, local' = [local EXCEPT ![p] = l],
         UNCHANGED <<free, value, leaked>>,
         proc' \in [Procs -> [state : States, parent : Procs, sz : 0..USERTOP,
                                 pgdir : PgDirs, kstack : Pages \cup {0}]],
         \A r \in Procs : /\ proc'[r].state = proc[r].state /\ proc'[r].kstack = proc[r].kstack
                          /\ proc'[r].pgdir = proc[r].pgdir
                          /\ r # p => proc'[r] = proc[r] /\ todo'[r] = todo[r],
         DOMAIN todo' = Procs,
         todo'[p] = <<>> \/ Final(todo'[p])[1] \notin {"forked", "reaped"},
         Course(p)'
  PROVE  Ownership(n)'
<1>1. Types /\ Slots /\ Accounted(n)
  BY DEF Ownership
<1>2. /\ local' \in [Procs -> [new : PgDirs, sz : Nat, child : Procs, old : PgDirs,
                               prog : Programs \cup {0}]]
      /\ New(p)' = NoDir /\ Old(p)' = NoDir
      /\ \A r \in Procs : r # p => local'[r] = local[r]
  BY <1>1, LocalIs
<1>3. \A r \in Procs : New(r)' = New(r) /\ Old(r)' = Old(r)
  BY <1>2 DEF New, Old, Clear
<1>4. Accounted(n)'
  BY <1>1, <1>3, AccountKept
<1>5. Types'
  BY <1>1, <1>2 DEF Types
<1>6. \A q \in Procs : (Makes(p, q)' => Makes(p, q)) /\ (Reaps(p, q)' => Reaps(p, q))
  BY NobodyElse
<1> QED
  BY <1>2, <1>4, <1>5, <1>6, CallKept

\* The end of sbrk(), and of exec().
LEMMA GrownOwns ==
  ASSUME NEW n \in Nat, Ownership(n), NEW p \in Procs, Grown(p)
  PROVE  Ownership(n)'
<1>1. InGrown(p) /\ Types /\ Slots /\ DOMAIN todo = Procs
  BY Where DEF Ownership, Grown, Types
<1>2. PICK k \in Int : todo[p] = <<<<"grown", k>>>> /\ Clear(p) /\ local[p].sz <= USERTOP
  BY <1>1 DEF InGrown
<1>3. Tail(todo[p]) = <<>> /\ todo[p] # <<>>
  BY <1>2, Tails
<1>4. /\ local' = [local EXCEPT ![p] = NoLocal] /\ Then(p, <<>>) /\ UNCHANGED <<free, value, leaked>>
      /\ proc' = proc \/ proc' = [proc EXCEPT ![p].sz = local[p].sz]
  BY DEF Grown
<1>5. /\ todo'[p] = <<>> /\ DOMAIN todo' = Procs
      /\ \A r \in Procs : r # p => todo'[r] = todo[r]
  BY <1>1, <1>3, <1>4, ThenIs, Joined
<1>6. local[p].sz \in 0..USERTOP
  BY <1>1, <1>2, Bounds DEF Types
<1>7. /\ proc' \in [Procs -> [state : States, parent : Procs, sz : 0..USERTOP,
                              pgdir : PgDirs, kstack : Pages \cup {0}]]
      /\ \A r \in Procs : /\ proc'[r].state = proc[r].state /\ proc'[r].kstack = proc[r].kstack
                          /\ proc'[r].pgdir = proc[r].pgdir
                          /\ r # p => proc'[r] = proc[r]
  BY <1>1, <1>4, <1>6 DEF Types
<1>8. Course(p)'
  BY <1>1, <1>4, <1>5, LocalIs, NoLocalIs DEF Course, InNothing, Clear
<1>9. proc[p].state = "live"
  BY <1>1, <1>3 DEF Slots
<1> QED
  BY <1>2, <1>4, <1>5, <1>7, <1>8, <1>9, NoLocalIs, LocalOwns

\* The end of a call of exec() that failed.
LEMMA FailedOwns ==
  ASSUME NEW n \in Nat, Ownership(n), NEW p \in Procs, Failed(p)
  PROVE  Ownership(n)'
<1>1. InFailed(p) /\ Types /\ Slots /\ DOMAIN todo = Procs
  BY Where DEF Ownership, Failed, Types
<1>2. Tail(todo[p]) = <<>> /\ todo[p] # <<>> /\ Clear(p)
  BY <1>1, Tails DEF InFailed
<1>3. /\ local' = [local EXCEPT ![p] = NoLocal] /\ Then(p, <<>>) /\ UNCHANGED <<free, value, proc, leaked>>
  BY DEF Failed
<1>4. /\ todo'[p] = <<>> /\ DOMAIN todo' = Procs
      /\ \A r \in Procs : r # p => todo'[r] = todo[r]
  BY <1>1, <1>2, <1>3, ThenIs, Joined
<1>5. Course(p)'
  BY <1>1, <1>3, <1>4, LocalIs, NoLocalIs DEF Course, InNothing, Clear
<1>6. proc[p].state = "live"
  BY <1>1, <1>2 DEF Slots
<1>7. proc' \in [Procs -> [state : States, parent : Procs, sz : 0..USERTOP,
                           pgdir : PgDirs, kstack : Pages \cup {0}]]
  BY <1>1, <1>3 DEF Types
<1> QED
  BY <1>2, <1>3, <1>4, <1>5, <1>6, <1>7, NoLocalIs, LocalOwns

\* A process in user code.
LEMMA OutsideIs ==
  ASSUME NEW n, Ownership(n), NEW p \in Procs, Outside(p)
  PROVE  Clear(p) /\ todo[p] = <<>> /\ proc[p].state = "live" /\ panic = ""
  BY Where DEF Ownership, Outside, InNothing

\* The start of sbrk(), and of exec().
LEMMA SbrkOwns ==
  ASSUME NEW n \in Nat, Ownership(n), NEW p \in Procs, NEW g \in Grows, Sbrk(p, g)
  PROVE  Ownership(n)'
<1> DEFINE sz == proc[p].sz
           l == [NoLocal EXCEPT !.sz = IF sz + g < 0 THEN sz ELSE sz + g]
           e == <<"grown", g>>
<1>1. Types /\ DOMAIN todo = Procs /\ Clear(p) /\ proc[p].state = "live" /\ g \in Int
      /\ sz \in Nat /\ sz <= USERTOP
  <2>1. g \in Int /\ Outside(p)
    BY MemoryAssumption DEF Sbrk, InUser
  <2>2. Types /\ Clear(p) /\ proc[p].state = "live"
    BY <2>1, OutsideIs DEF Ownership
  <2> QED
    BY <2>1, <2>2, Bounds DEF Types
<1>2. /\ local' = [local EXCEPT ![p] = l] /\ UNCHANGED <<free, value, proc, leaked>>
  BY DEF Sbrk
<1>3. /\ l \in [new : PgDirs, sz : Nat, child : Procs, old : PgDirs, prog : Programs \cup {0}]
      /\ l.new = NoDir /\ l.old = NoDir /\ l.sz = IF sz + g < 0 THEN sz ELSE sz + g
  BY <1>1, NoLocalIs, Bounds DEF NoLocal
<1> HIDE DEF l
<1>4. Clear(p)' /\ local'[p] = l
  BY <1>1, <1>2, <1>3, LocalIs DEF Clear
<1>5. /\ DOMAIN todo' = Procs /\ \A r \in Procs : r # p => todo'[r] = todo[r]
      /\ Final(todo'[p]) = e /\ Course(p)'
  <2>1. CASE g > 0
    <3> DEFINE a == <<"allocuvm", "own", sz, sz + g, PageUp(sz)>>
    <3>1. Only(p, AllocSteps("own", sz, sz + g) \o <<e>>)
      BY <1>1, <2>1 DEF Sbrk
    <3>2. AllocSteps("own", sz, sz + g) \o <<e>> = <<a, e>>
      BY Joined DEF AllocSteps, AllocFrom
    <3>3. /\ todo'[p] = <<a, e>> /\ DOMAIN todo' = Procs
          /\ \A r \in Procs : r # p => todo'[r] = todo[r]
      BY <1>1, <3>1, <3>2, OnlyIs
    <3>4. PageUp(sz) \in Nat /\ sz \in 0..USERTOP /\ sz + g \in Nat /\ "own" \in {"own", "new"}
      BY <1>1, <2>1, PageUpIs
    <3>5. InAllocuvm(p)'
      BY <1>1, <1>4, <3>3, <3>4, Zenon DEF InAllocuvm
    <3> QED
      BY <3>3, <3>5, Finals DEF Course
  <2>2. CASE g < 0 /\ sz + g >= 0
    <3> DEFINE a == <<"deallocuvm", "own", sz, PageUp(sz + g)>>
    <3>1. Only(p, <<a, e>>)
      BY <1>1, <2>2 DEF Sbrk
    <3>2. /\ todo'[p] = <<a, e>> /\ DOMAIN todo' = Procs
          /\ \A r \in Procs : r # p => todo'[r] = todo[r]
      BY <1>1, <3>1, OnlyIs
    <3>3. PageUp(sz + g) \in Nat /\ sz \in 0..USERTOP /\ "own" \in {"own", "new"}
      BY <1>1, <2>2, PageUpIs
    <3>4. local'[p].sz <= USERTOP
      BY <1>1, <1>3, <1>4, <2>2, Bounds
    <3>5. InDeallocuvm(p)'
      BY <1>1, <1>4, <3>2, <3>3, <3>4, Zenon DEF InDeallocuvm
    <3> QED
      BY <3>2, <3>5, Finals DEF Course
  <2>3. CASE ~(g > 0) /\ ~(g < 0 /\ sz + g >= 0)
    <3>1. Only(p, <<e>>)
      BY <1>1, <2>3 DEF Sbrk
    <3>2. /\ todo'[p] = <<e>> /\ DOMAIN todo' = Procs
          /\ \A r \in Procs : r # p => todo'[r] = todo[r]
      BY <1>1, <3>1, OnlyIs
    <3>3. local'[p].sz <= USERTOP
      BY <1>1, <1>3, <1>4, <2>3, Bounds
    <3>4. InGrown(p)'
      BY <1>1, <1>4, <3>2, <3>3 DEF InGrown
    <3> QED
      BY <3>2, <3>4, Finals DEF Course
  <2> QED
    BY <1>1, <2>1, <2>2, <2>3
<1>6. Final(todo'[p])[1] = "grown"
  BY <1>5, Heads
<1>7. proc' \in [Procs -> [state : States, parent : Procs, sz : 0..USERTOP,
                           pgdir : PgDirs, kstack : Pages \cup {0}]]
  BY <1>1, <1>2 DEF Types
<1> QED
  BY <1>1, <1>2, <1>3, <1>5, <1>6, <1>7, LocalOwns

\* The start of exec().
LEMMA ExecOwns ==
  ASSUME NEW n \in Nat, Ownership(n), NEW p \in Procs, NEW prog \in Programs, Exec(p, prog)
  PROVE  Ownership(n)'
<1> DEFINE l == [NoLocal EXCEPT !.prog = prog]
<1>1. Types /\ DOMAIN todo = Procs /\ Clear(p) /\ proc[p].state = "live"
  BY OutsideIs DEF Ownership, Types, Exec, InUser
<1>2. /\ local' = [local EXCEPT ![p] = l] /\ UNCHANGED <<free, value, proc, leaked>>
  BY DEF Exec
<1>3. /\ l \in [new : PgDirs, sz : Nat, child : Procs, old : PgDirs, prog : Programs \cup {0}]
      /\ l.new = NoDir /\ l.old = NoDir /\ l.sz = 0 /\ l.prog = prog
  BY NoLocalIs DEF NoLocal
<1> HIDE DEF l
<1>4. New(p)' = NoDir /\ Old(p)' = NoDir /\ local'[p] = l
  BY <1>1, <1>2, <1>3, LocalIs
<1>5. /\ DOMAIN todo' = Procs /\ \A r \in Procs : r # p => todo'[r] = todo[r]
      /\ Final(todo'[p])[1] \in {"segment", "failed"} /\ Course(p)'
  <2>1. CASE todo'[p] = <<<<"setupkvm">>, <<"segment", 1>>>>
    <3>1. Blank(p, 0)' /\ Execing(p)'
      BY <1>3, <1>4, Bounds DEF Blank, Execing, NoDir
    <3>2. InSetupkvm(p)'
      BY <1>4, <2>1, <3>1 DEF InSetupkvm
    <3>3. Final(todo'[p])[1] = "segment"
      BY <2>1, Finals, Heads
    <3> QED
      BY <1>1, <3>2, <3>3, OnlyIs DEF Course, Exec
  <2>2. CASE todo'[p] = <<<<"failed">>>>
    <3>1. InFailed(p)'
      BY <1>4, <2>2 DEF InFailed, Clear
    <3>2. Final(todo'[p])[1] = "failed"
      BY <2>2, Finals, Heads
    <3> QED
      BY <1>1, <3>1, <3>2, OnlyIs DEF Course, Exec
  <2>3. \/ Only(p, <<<<"setupkvm">>, <<"segment", 1>>>>) \/ Only(p, <<<<"failed">>>>)
    BY DEF Exec
  <2> QED
    BY <1>1, <2>1, <2>2, <2>3, OnlyIs
<1>6. proc' \in [Procs -> [state : States, parent : Procs, sz : 0..USERTOP,
                           pgdir : PgDirs, kstack : Pages \cup {0}]]
  BY <1>1, <1>2 DEF Types
<1> QED
  BY <1>1, <1>2, <1>3, <1>5, <1>6, LocalOwns

\* A program stores into one of its pages.
LEMMA StoreOwns ==
  ASSUME NEW n \in Nat, Ownership(n), NEW p \in Procs, NEW i, NEW v, Store(p, i, v)
  PROVE  Ownership(n)'
<1> DEFINE q == proc[p].pgdir.user[i]
<1>1. /\ Types /\ Slots /\ Accounted(n) /\ UNCHANGED <<free, proc, todo, local, leaked>>
      /\ value' = [value EXCEPT ![q] = v] /\ i \in Upages /\ q # 0
  BY DEF Ownership, Store, Mapped
<1>2. q \in 1..n
  <2>1. q \in PagesOf(Tables[p]["own"])
    BY <1>1, TablesAre DEF PagesOf, Own
  <2> QED
    BY <1>1, <2>1, Installed DEF Which
<1>3. DOMAIN value' = Pages /\ \A x \in Pages : x > n => value'[x] = value[x]
  BY <1>1, <1>2, Bounds DEF Types
<1>4. \A r \in Procs : New(r)' = New(r) /\ Old(r)' = Old(r) /\ Own(r)' = Own(r)
  BY <1>1 DEF New, Old, Own
<1>5. Types' /\ Accounted(n)'
  BY <1>1, <1>3, <1>4, AccountKept DEF Types
<1>6. Slots'
  BY <1>1, <1>4 DEF Slots, Makes, Reaps
<1>7. \A r \in Procs : Course(r)'
  BY <1>1, CourseKept DEF Ownership
<1> QED
  BY <1>5, <1>6, <1>7 DEF Ownership

\* A system call argument changes no page.
LEMMA ArgumentOwns ==
  ASSUME NEW n \in Nat, Ownership(n), NEW p \in Procs, NEW a, Argument(p, a)
  PROVE  Ownership(n)'
<1>1. UNCHANGED <<free, value, proc, todo, local, leaked>>
  BY DEF Argument, Use
<1> QED
  BY <1>1, PanicOwns

\* The start of fork().
LEMMA ForkOwns ==
  ASSUME NEW n \in Nat, Ownership(n), NEW p \in Procs, NEW q \in Procs, Fork(p, q)
  PROVE  Ownership(n)'
<1>1. /\ Types /\ Slots /\ Accounted(n) /\ DOMAIN todo = Procs /\ Clear(p)
      /\ proc[p].state = "live" /\ todo[p] = <<>>
      /\ proc[q].state = "unused" /\ leaked' = leaked
  BY OutsideIs DEF Ownership, Types, Fork, InUser
<1>2. CASE free = {}
  <2>1. UNCHANGED <<free, value, proc, todo, local, leaked>>
    BY <1>1, <1>2 DEF Fork, NoPage
  <2> QED
    BY <2>1, PanicOwns
<1>3. CASE free # {}
  <2> DEFINE l == [NoLocal EXCEPT !.child = q]
  <2>1. /\ Kalloc("stack")
        /\ proc' = [proc EXCEPT ![q].state = "embryo", ![q].kstack = Page]
        /\ local' = [local EXCEPT ![p] = l]
        /\ Only(p, <<<<"setupkvm">>, <<"copyuvm", 0>>, <<"forked">>>>)
    BY <1>3 DEF Fork
  <2>2. /\ Page \in free /\ Page \in Pages /\ free' = free \ {Page} /\ free' \subseteq Pages
        /\ Page # 0 /\ DOMAIN value' = Pages /\ \A x \in Pages : x > n => value'[x] = "absent"
    BY <1>1, <1>3, <2>1, KallocIs
  <2>3. /\ l \in [new : PgDirs, sz : Nat, child : Procs, old : PgDirs, prog : Programs \cup {0}]
        /\ l.new = NoDir /\ l.old = NoDir /\ l.child = q
    BY NoLocalIs DEF NoLocal
  <2> HIDE DEF l
  <2>4. /\ local' \in [Procs -> [new : PgDirs, sz : Nat, child : Procs, old : PgDirs,
                                  prog : Programs \cup {0}]]
        /\ New(p)' = NoDir /\ Old(p)' = NoDir /\ local'[p].child = q
        /\ \A r \in Procs : r # p => local'[r] = local[r]
    BY <1>1, <2>1, <2>3, LocalIs
  <2>5. /\ todo'[p] = <<<<"setupkvm">>, <<"copyuvm", 0>>, <<"forked">>>>
        /\ DOMAIN todo' = Procs /\ \A r \in Procs : r # p => todo'[r] = todo[r]
    BY <1>1, <2>1, OnlyIs
  <2>6. /\ \A r \in Procs : /\ r # q => proc'[r] = proc[r]
                            /\ proc'[r].pgdir = proc[r].pgdir
        /\ proc'[q].state = "embryo" /\ proc'[q].kstack = Page
        /\ proc' \in [Procs -> [state : States, parent : Procs, sz : 0..USERTOP,
                                 pgdir : PgDirs, kstack : Pages \cup {0}]]
    <3> DEFINE rec == [proc[q] EXCEPT !.state = "embryo", !.kstack = Page]
    <3>1. /\ rec \in [state : States, parent : Procs, sz : 0..USERTOP, pgdir : PgDirs, kstack : Pages \cup {0}]
          /\ rec.state = "embryo" /\ rec.kstack = Page /\ rec.pgdir = proc[q].pgdir
      <4>1. proc[q] \in [state : States, parent : Procs, sz : 0..USERTOP, pgdir : PgDirs, kstack : Pages \cup {0}]
        BY <1>1 DEF Types
      <4>2. "embryo" \in States
        BY DEF States
      <4> QED
        BY <2>2, <4>1, <4>2
    <3>2. proc' = [proc EXCEPT ![q] = rec]
      BY <1>1, <2>1 DEF Types
    <3> HIDE DEF rec
    <3> QED
      BY <1>1, <3>1, <3>2 DEF Types
  <2>7. \A r \in Procs : New(r)' = New(r) /\ Old(r)' = Old(r) /\ Own(r)' = Own(r)
    BY <1>1, <2>4, <2>6 DEF New, Old, Own, Clear
  <2>8. Accounted(n)'
    <3>1. Tables' = Tables
      <4>1. \A r \in Procs, w \in Which : Pgdir(r, w)' = Pgdir(r, w)
        BY <2>7 DEF Which, Pgdir, Own, New, Old
      <4> QED
        BY <4>1 DEF Tables
    <3>2. \A r \in Procs : Stacks'[r] = IF r = q THEN Page ELSE Stacks[r]
      BY <2>6 DEF Stacks
    <3>3. Stacks[q] = 0
      BY <1>1 DEF Slots, Stacks
    <3>4. Account(n, free \ {Page}, leaked, Stacks', Tables)
      BY <1>1, <2>2, <3>2, <3>3, TakeStack DEF Accounted
    <3> QED
      BY <1>1, <2>2, <3>1, <3>4 DEF Accounted
  <2>9. Types'
    BY <1>1, <2>2, <2>4, <2>5, <2>6 DEF Types
  <2>10. Course(p)'
    <3>1. Blank(p, 0)'
      BY <2>4, Bounds DEF Blank, NoDir
    <3>2. InSetupkvm(p)'
      BY <2>4, <2>5, <3>1 DEF InSetupkvm
    <3> QED
      BY <3>2 DEF Course
  <2>11. \A r \in Procs : Course(r)'
    BY <2>4, <2>5, <2>10, CourseKept DEF Ownership
  <2>12. /\ \A r, s \in Procs : r # p => (Makes(r, s)' <=> Makes(r, s)) /\ (Reaps(r, s)' <=> Reaps(r, s))
         /\ \A s \in Procs : (Makes(p, s)' <=> s = q) /\ ~Reaps(p, s)'
    <3>1. \A r, s \in Procs : r # p => (Makes(r, s)' <=> Makes(r, s)) /\ (Reaps(r, s)' <=> Reaps(r, s))
      BY <2>4, <2>5 DEF Makes, Reaps, Final
    <3>2. todo'[p] # <<>> /\ Final(todo'[p]) = <<"forked">>
      BY <2>5, Finals, Tails
    <3>3. \A s \in Procs : <<"forked">> # <<"reaped", s>>
      BY Heads
    <3>4. \A s \in Procs : (Makes(p, s)' <=> s = q) /\ ~Reaps(p, s)'
      BY <2>4, <3>2, <3>3 DEF Makes, Reaps, Final
    <3> QED
      BY <3>1, <3>4
  <2>13. Slots'
    <3>1. p # q
      BY <1>1
    <3>2. \A r \in Procs : ~Makes(r, q) /\ ~Reaps(r, q)
      BY <1>1 DEF Slots
    <3>3. \A r \in Procs :
             /\ proc'[r].state \notin {"live", "zombie"} => Own(r)' = NoDir
             /\ proc'[r].state \in {"unused", "reaped"} <=> proc'[r].kstack = 0
             /\ proc'[r].state # "live" => todo'[r] = <<>>
             /\ New(r)'.dir = 0 => New(r)' = NoDir
      <4>1. /\ proc'[q].state = "embryo" /\ Own(q)' = NoDir /\ proc'[q].kstack # 0
            /\ todo'[q] = <<>> /\ New(q)' = New(q)
        BY <1>1, <2>2, <2>5, <2>6, <2>7, <3>1 DEF Slots
      <4>2. /\ proc'[p].state = "live" /\ proc'[p] = proc[p] /\ New(p)' = NoDir
        BY <1>1, <2>4, <2>6, <3>1
      <4>3. \A r \in Procs : r # p => todo'[r] = todo[r] /\ New(r)' = New(r)
        BY <2>5, <2>7
      <4>4. ASSUME NEW r \in Procs, r # q, r # p
            PROVE  /\ proc'[r].state \notin {"live", "zombie"} => Own(r)' = NoDir
                   /\ proc'[r].state \in {"unused", "reaped"} <=> proc'[r].kstack = 0
                   /\ proc'[r].state # "live" => todo'[r] = <<>>
                   /\ New(r)'.dir = 0 => New(r)' = NoDir
        <5>1. /\ proc[r].state \notin {"live", "zombie"} => Own(r) = NoDir
              /\ proc[r].state \in {"unused", "reaped"} <=> proc[r].kstack = 0
              /\ proc[r].state # "live" => todo[r] = <<>>
              /\ New(r).dir = 0 => New(r) = NoDir
          BY <1>1 DEF Slots
        <5>2. /\ proc'[r] = proc[r] /\ Own(r)' = Own(r) /\ todo'[r] = todo[r] /\ New(r)' = New(r)
          BY <2>6, <2>7, <4>3, <4>4
        <5> QED
          BY <5>1, <5>2
      <4>5. proc[p].kstack # 0
        BY <1>1 DEF Slots
      <4>6. New(q).dir = 0 => New(q) = NoDir
        BY <1>1 DEF Slots
      <4> QED
        BY <4>1, <4>2, <4>4, <4>5, <4>6
    <3>4. \A r, s \in Procs : /\ Makes(r, s)' => proc'[s].state = "embryo"
                              /\ Reaps(r, s)' => proc'[s].state = "reaped"
      <4>1. \A r, s \in Procs : r # p /\ Makes(r, s)' => s # q /\ proc[s].state = "embryo"
        BY <1>1, <2>12, <3>2 DEF Slots
      <4>2. \A r, s \in Procs : Reaps(r, s)' => s # q /\ proc[s].state = "reaped"
        BY <1>1, <2>12, <3>2 DEF Slots
      <4> QED
        BY <2>6, <2>12, <4>1, <4>2
    <3>5. \A r, s, t \in Procs : /\ Makes(r, s)' /\ Makes(t, s)' => r = t
                                 /\ Reaps(r, s)' /\ Reaps(t, s)' => r = t
      BY <1>1, <2>12, <3>2 DEF Slots
    <3> QED
      BY <3>3, <3>4, <3>5 DEF Slots
  <2> QED
    BY <2>8, <2>9, <2>11, <2>13 DEF Ownership
<1> QED
  BY <1>2, <1>3

\* The end of fork().
LEMMA ForkedOwns ==
  ASSUME NEW n \in Nat, Ownership(n), NEW p \in Procs, Forked(p)
  PROVE  Ownership(n)'
<1> DEFINE q == local[p].child
<1>1. InForked(p) /\ Types /\ Slots /\ Accounted(n) /\ DOMAIN todo = Procs
  BY Where DEF Ownership, Forked, Types
<1>2. /\ todo[p] = <<<<"forked">>>> /\ Old(p) = NoDir /\ Tail(todo[p]) = <<>> /\ todo[p] # <<>>
      /\ Final(todo[p]) = <<"forked">>
  BY <1>1, Tails, Finals DEF InForked
<1>3. proc[p].state = "live" /\ q \in Procs /\ Makes(p, q)
  BY <1>1, <1>2 DEF Slots, Types, Makes
<1>4. proc[q].state = "embryo" /\ q # p /\ Own(q) = NoDir /\ proc[q].kstack # 0 /\ todo[q] = <<>>
  BY <1>1, <1>3 DEF Slots
<1>5. /\ local' = [local EXCEPT ![p] = NoLocal] /\ Then(p, <<>>) /\ leaked' = leaked
  BY DEF Forked
<1>6. /\ todo'[p] = <<>> /\ DOMAIN todo' = Procs
      /\ \A r \in Procs : r # p => todo'[r] = todo[r]
  BY <1>1, <1>2, <1>5, ThenIs, Joined
<1>7. /\ local' \in [Procs -> [new : PgDirs, sz : Nat, child : Procs, old : PgDirs,
                               prog : Programs \cup {0}]]
      /\ New(p)' = NoDir /\ Old(p)' = NoDir
      /\ \A r \in Procs : r # p => local'[r] = local[r]
  BY <1>1, <1>5, NoLocalIs, LocalIs
<1>8. \A r \in Procs : Course(r)'
  <2>1. Course(p)'
    BY <1>6, <1>7 DEF Course, InNothing, Clear
  <2> QED
    BY <1>6, <1>7, <2>1, CourseKept DEF Ownership
<1>9. /\ \A r \in Procs : r # q => proc'[r] = proc[r]
      /\ proc' \in [Procs -> [state : States, parent : Procs, sz : 0..USERTOP,
                              pgdir : PgDirs, kstack : Pages \cup {0}]]
      /\ IF New(p).dir = 0
         THEN /\ proc'[q].state = "unused" /\ proc'[q].kstack = 0 /\ proc'[q].pgdir = NoDir
              /\ Kfree({proc[q].kstack})
         ELSE /\ proc'[q].state = "live" /\ proc'[q].kstack = proc[q].kstack
              /\ proc'[q].pgdir = New(p) /\ NoPage
  <2>1. Unused \in [state : States, parent : Procs, sz : 0..USERTOP, pgdir : PgDirs, kstack : Pages \cup {0}]
    BY NoLocalIs, Bounds DEF Unused, States
  <2>2. CASE New(p).dir = 0
    <3>1. proc' = [proc EXCEPT ![q] = Unused] /\ Kfree({proc[q].kstack})
      BY <2>2 DEF Forked
    <3> QED
      BY <1>1, <1>3, <2>1, <2>2, <3>1 DEF Types, Unused
  <2>3. CASE New(p).dir # 0
    <3> DEFINE rec == [state |-> "live", parent |-> p, sz |-> proc[p].sz,
                       pgdir |-> New(p), kstack |-> proc[q].kstack]
    <3>1. proc' = [proc EXCEPT ![q] = rec] /\ NoPage
      BY <1>1, <1>3, <2>3 DEF Forked, Types
    <3>2. rec \in [state : States, parent : Procs, sz : 0..USERTOP, pgdir : PgDirs, kstack : Pages \cup {0}]
      BY <1>1, <1>3, DirTypes DEF Types, States
    <3> HIDE DEF rec
    <3>3. /\ \A r \in Procs : r # q => proc'[r] = proc[r]
          /\ proc'[q] = rec
          /\ proc' \in [Procs -> [state : States, parent : Procs, sz : 0..USERTOP,
                              pgdir : PgDirs, kstack : Pages \cup {0}]]
      BY <1>1, <1>3, <3>1, <3>2 DEF Types
    <3> QED
      BY <2>3, <3>1, <3>3 DEF rec
  <2> QED
    BY <2>2, <2>3
<1>10. \A r \in Procs : /\ r # q => Own(r)' = Own(r)
                        /\ r # p => New(r)' = New(r)
                        /\ Old(r)' = Old(r)
  BY <1>2, <1>7, <1>9 DEF New, Old, Own
<1>11. /\ free' \subseteq Pages /\ DOMAIN value' = Pages /\ Accounted(n)'
  <2>1. CASE New(p).dir = 0
    <3>1. New(p) = NoDir
      BY <1>1, <2>1 DEF Slots
    <3>2. {proc[q].kstack} \subseteq Pages /\ {proc[q].kstack} \subseteq 1..n
      BY <1>1, <1>3, <1>4, Installed DEF Types
    <3>3. /\ free' = free \cup {proc[q].kstack} /\ free' \subseteq Pages
          /\ DOMAIN value' = Pages /\ \A x \in Pages : x > n => value'[x] = "absent"
      BY <1>1, <1>9, <2>1, <3>2, KfreeIs
    <3>4. Tables' = Tables
      <4>1. \A r \in Procs : New(r)' = New(r) /\ Old(r)' = Old(r) /\ Own(r)' = Own(r)
        BY <1>4, <1>7, <1>9, <1>10, <2>1, <3>1 DEF Own
      <4>2. \A r \in Procs, w \in Which : Pgdir(r, w)' = Pgdir(r, w)
        BY <4>1 DEF Which, Pgdir, Own, New, Old
      <4> QED
        BY <4>2 DEF Tables
    <3>5. \A r \in Procs : Stacks'[r] = IF r = q THEN 0 ELSE Stacks[r]
      BY <1>9, <2>1 DEF Stacks
    <3>6. Stacks[q] = proc[q].kstack
      BY <1>3 DEF Stacks
    <3>7. Account(n, free \cup {Stacks[q]}, leaked, Stacks', Tables)
      BY <1>1, <1>3, <1>4, <3>5, <3>6, GiveStack DEF Accounted
    <3> QED
      BY <1>5, <3>3, <3>4, <3>6, <3>7 DEF Accounted
  <2>2. CASE New(p).dir # 0
    <3>1. \A r \in Procs, v \in Which :
            Tables'[r][v] = IF r = p /\ v = "new" THEN NoDir
                            ELSE IF r = q /\ v = "own" THEN Tables[p]["new"] ELSE Tables[r][v]
      BY <1>3, <1>4, <1>7, <1>9, <1>10, <2>2, TablesAre, TablesWere DEF Own, Which
    <3>2. Tables[q]["own"] = NoDir /\ "own" \in Which /\ "new" \in Which
      BY <1>3, <1>4, TablesAre DEF Which
    <3>3. Account(n, free, leaked, Stacks, Tables')
      BY <1>1, <1>3, <1>4, <3>1, <3>2, MoveTable, SMTT(60) DEF Accounted
    <3>4. Stacks' = Stacks
      BY <1>9, <2>2 DEF Stacks
    <3> QED
      BY <1>1, <1>5, <1>9, <2>2, <3>3, <3>4 DEF Accounted, NoPage, Types
  <2> QED
    BY <2>1, <2>2
<1>12. Types'
  BY <1>1, <1>5, <1>6, <1>7, <1>9, <1>11 DEF Types
<1>13. /\ \A r, s \in Procs : r # p => (Makes(r, s)' <=> Makes(r, s)) /\ (Reaps(r, s)' <=> Reaps(r, s))
       /\ \A s \in Procs : ~Makes(p, s)' /\ ~Reaps(p, s)'
  BY <1>6, <1>7 DEF Makes, Reaps, Final
<1>14. Slots'
  <2>1. \A r \in Procs : r # p => ~Makes(r, q) /\ ~Reaps(r, q)
    BY <1>1, <1>3, <1>4 DEF Slots
  <2>2. \A r \in Procs :
           /\ proc'[r].state \notin {"live", "zombie"} => Own(r)' = NoDir
           /\ proc'[r].state \in {"unused", "reaped"} <=> proc'[r].kstack = 0
           /\ proc'[r].state # "live" => todo'[r] = <<>>
           /\ New(r)'.dir = 0 => New(r)' = NoDir
    BY <1>1, <1>4, <1>6, <1>7, <1>9, <1>10 DEF Slots, Own
  <2>3. \A r, s \in Procs : /\ Makes(r, s)' => proc'[s].state = "embryo"
                            /\ Reaps(r, s)' => proc'[s].state = "reaped"
    BY <1>1, <1>9, <1>13, <2>1 DEF Slots
  <2>4. \A r, s, t \in Procs : /\ Makes(r, s)' /\ Makes(t, s)' => r = t
                               /\ Reaps(r, s)' /\ Reaps(t, s)' => r = t
    BY <1>1, <1>13 DEF Slots
  <2> QED
    BY <2>2, <2>3, <2>4 DEF Slots
<1> QED
  BY <1>8, <1>11, <1>12, <1>14 DEF Ownership

\* The end of exec(): the new image replaces the old one.
LEMMA CommitOwns ==
  ASSUME NEW n \in Nat, Ownership(n), NEW p \in Procs, Commit(p)
  PROVE  Ownership(n)'
<1> DEFINE sz == local[p].sz
           args == local[p].prog.args
<1>1. InCommit(p) /\ Types /\ Slots /\ Accounted(n) /\ DOMAIN todo = Procs
  BY Where DEF Ownership, Commit, Types
<1>2. /\ todo[p] = <<<<"commit">>>> /\ todo[p] # <<>> /\ Old(p) = NoDir /\ New(p).dir # 0
      /\ sz \in 0..USERTOP /\ proc[p].state = "live"
  <2>1. todo[p] = <<<<"commit">>>> /\ Old(p) = NoDir /\ New(p).dir # 0 /\ sz <= USERTOP
    BY <1>1 DEF InCommit, Built, Execing
  <2>2. todo[p] # <<>>
    BY <2>1, Tails
  <2> QED
    <3>1. sz \in Nat
      BY <1>1 DEF Types
    <3>2. proc[p].state = "live"
      BY <1>1, <2>2 DEF Slots
    <3> QED
      BY <2>1, <2>2, <3>1, <3>2, Bounds
<1>3. free' = free /\ leaked' = leaked
  BY DEF Commit
<1>4. CASE sz = 0 \/ args > sz
  <2>1. Bad(p) /\ UNCHANGED <<value, proc, local>>
    BY <1>4, Zenon DEF Commit
  <2> QED
    BY <1>2, <1>3, <2>1, BadOwns
<1>5. CASE ~(sz = 0 \/ args > sz)
  <2> DEFINE l == [NoLocal EXCEPT !.old = proc[p].pgdir]
             rec == [proc[p] EXCEPT !.pgdir = New(p), !.sz = sz]
  <2>1. /\ Fill(New(p), Span(sz - args, sz), "args")
        /\ proc' = [proc EXCEPT ![p].pgdir = New(p), ![p].sz = sz]
        /\ local' = [local EXCEPT ![p] = l]
        /\ Only(p, Freevm("old") \o <<<<"failed">>>>)
    BY <1>5 DEF Commit
  <2>2. DOMAIN value' = Pages /\ \A q \in Pages : q > n => value'[q] = value[q]
    <3>1. New(p) = Tables[p]["new"] /\ "new" \in Which /\ Span(sz - args, sz) \subseteq Upages
      BY TablesAre DEF Which, Span
    <3>2. Fill(Tables[p]["new"], Span(sz - args, sz), "args")
      BY <2>1, <3>1
    <3> QED
      BY <1>1, <3>1, <3>2, FillIs
  <2>3. /\ \A r \in Procs : r # p => proc'[r] = proc[r]
        /\ proc'[p] = rec
        /\ proc' \in [Procs -> [state : States, parent : Procs, sz : 0..USERTOP,
                              pgdir : PgDirs, kstack : Pages \cup {0}]]
    <3>1. rec \in [state : States, parent : Procs, sz : 0..USERTOP, pgdir : PgDirs, kstack : Pages \cup {0}]
      <4>1. /\ proc[p] \in [state : States, parent : Procs, sz : 0..USERTOP, pgdir : PgDirs, kstack : Pages \cup {0}]
            /\ New(p) \in PgDirs
        BY <1>1, DirTypes DEF Types
      <4> QED
        BY <1>2, <4>1
    <3>2. proc' = [proc EXCEPT ![p] = rec]
      BY <1>1, <2>1 DEF Types
    <3> HIDE DEF rec
    <3> QED
      BY <1>1, <3>1, <3>2 DEF Types
  <2>4. rec.state = "live" /\ rec.kstack = proc[p].kstack /\ rec.pgdir = New(p)
    BY <1>1, <1>2 DEF Types
  <2>5. /\ l \in [new : PgDirs, sz : Nat, child : Procs, old : PgDirs, prog : Programs \cup {0}]
        /\ l.new = NoDir /\ l.old = Own(p)
    <3>1. proc[p].pgdir \in PgDirs
      BY <1>1 DEF Types
    <3> QED
      BY <3>1, NoLocalIs DEF NoLocal, Own
  <2> HIDE DEF l, rec
  <2>6. /\ local' \in [Procs -> [new : PgDirs, sz : Nat, child : Procs, old : PgDirs,
                                  prog : Programs \cup {0}]]
        /\ New(p)' = NoDir /\ Old(p)' = Own(p)
        /\ \A r \in Procs : r # p => local'[r] = local[r]
    BY <1>1, <2>1, <2>5, LocalIs
  <2>7. /\ todo'[p] = <<<<"deallocuvm", "old", USERTOP, 0>>, <<"freedir", "old">>, <<"failed">>>>
        /\ DOMAIN todo' = Procs /\ \A r \in Procs : r # p => todo'[r] = todo[r]
    BY <1>1, <2>1, OnlyIs, FreevmIs
  <2>8. Accounted(n)'
    <3> DEFINE T == [r \in Procs |-> [v \in Which |->
                       IF r = p /\ v = "own" THEN NoDir
                       ELSE IF r = p /\ v = "old" THEN Tables[p]["own"] ELSE Tables[r][v]]]
    <3>1. "own" \in Which /\ "new" \in Which /\ "old" \in Which
      BY DEF Which
    <3>2. \A r \in Procs, v \in Which :
            T[r][v] = IF r = p /\ v = "own" THEN NoDir
                      ELSE IF r = p /\ v = "old" THEN Tables[p]["own"] ELSE Tables[r][v]
      OBVIOUS
    <3> HIDE DEF T
    <3>3. Tables[p]["old"] = NoDir /\ Tables[p]["own"] = Own(p) /\ Tables[p]["new"] = New(p)
      BY <1>2, TablesAre
    <3>4. Account(n, free, leaked, Stacks, T)
      BY <1>1, <3>1, <3>2, <3>3, MoveTable, SMTT(60) DEF Accounted
    <3>5. \A r \in Procs, v \in Which :
            Tables'[r][v] = IF r = p /\ v = "new" THEN NoDir
                            ELSE IF r = p /\ v = "own" THEN T[p]["new"] ELSE T[r][v]
      <4>1. /\ Tables'[p]["own"] = New(p) /\ Tables'[p]["new"] = NoDir /\ Tables'[p]["old"] = Own(p)
        BY <2>3, <2>4, <2>6, TablesWere DEF Own
      <4>2. \A r \in Procs : r # p => Own(r)' = Own(r) /\ New(r)' = New(r) /\ Old(r)' = Old(r)
        BY <2>3, <2>6 DEF Own, New, Old
      <4>3. \A r \in Procs, v \in Which : r # p => Tables'[r][v] = Tables[r][v]
        BY <4>2, TablesAre, TablesWere DEF Which
      <4> QED
        BY <3>2, <3>3, <4>1, <4>3 DEF Which
    <3>6. T[p]["own"] = NoDir
      BY <3>1, <3>2
    <3>7. Account(n, free, leaked, Stacks, Tables')
      BY <3>1, <3>4, <3>5, <3>6, MoveTable, SMTT(60)
    <3>8. Stacks' = Stacks
      BY <2>3, <2>4 DEF Stacks
    <3> QED
      BY <1>1, <1>3, <2>2, <3>7, <3>8 DEF Accounted
  <2>9. Types'
    BY <1>1, <1>3, <2>2, <2>3, <2>6, <2>7 DEF Types
  <2>10. Course(p)'
    <3>1. 0 \in Nat /\ <<"failed">> \in LastOf("old") /\ New(p)' = NoDir /\ "old" \in {"new", "old"}
          /\ "old" # "new"
      BY <2>6 DEF LastOf
    <3>2. InDeallocuvm(p)'
      BY <2>7, <3>1, Zenon DEF InDeallocuvm
    <3> QED
      BY <3>2 DEF Course
  <2>11. \A r \in Procs : Course(r)'
    BY <2>6, <2>7, <2>10, CourseKept DEF Ownership
  <2>12. \A r, s \in Procs : (Makes(r, s)' => Makes(r, s)) /\ (Reaps(r, s)' => Reaps(r, s))
    <3>1. Final(todo'[p]) = <<"failed">> /\ <<"failed">>[1] = "failed"
      BY <2>7, Finals, Heads
    <3>2. \A s \in Procs : (Makes(p, s)' => Makes(p, s)) /\ (Reaps(p, s)' => Reaps(p, s))
      BY <3>1, NobodyElse
    <3> QED
      BY <2>6, <2>7, <3>2 DEF Makes, Reaps, Final
  <2>13. Slots'
    <3>1. \A r \in Procs : proc'[r].state = proc[r].state /\ proc'[r].kstack = proc[r].kstack
      BY <1>2, <2>3, <2>4
    <3>2. ASSUME NEW r \in Procs
          PROVE  /\ proc'[r].state \notin {"live", "zombie"} => Own(r)' = NoDir
                 /\ proc'[r].state \in {"unused", "reaped"} <=> proc'[r].kstack = 0
                 /\ proc'[r].state # "live" => todo'[r] = <<>>
                 /\ New(r)'.dir = 0 => New(r)' = NoDir
      <4>1. /\ proc[r].state \notin {"live", "zombie"} => Own(r) = NoDir
            /\ proc[r].state \in {"unused", "reaped"} <=> proc[r].kstack = 0
            /\ proc[r].state # "live" => todo[r] = <<>>
            /\ New(r).dir = 0 => New(r) = NoDir
        BY <1>1 DEF Slots
      <4>2. CASE r = p
        BY <1>2, <2>6, <3>1, <4>1, <4>2
      <4>3. CASE r # p
        <5>1. Own(r)' = Own(r) /\ New(r)' = New(r) /\ todo'[r] = todo[r]
          BY <2>3, <2>6, <2>7, <4>3 DEF Own, New
        <5> QED
          BY <3>1, <4>1, <5>1
      <4> QED
        BY <4>2, <4>3
    <3>3. \A r, s \in Procs : /\ Makes(r, s)' => proc'[s].state = "embryo"
                              /\ Reaps(r, s)' => proc'[s].state = "reaped"
      BY <1>1, <2>12, <3>1 DEF Slots
    <3>4. \A r, s, t \in Procs : /\ Makes(r, s)' /\ Makes(t, s)' => r = t
                                 /\ Reaps(r, s)' /\ Reaps(t, s)' => r = t
      BY <1>1, <2>12 DEF Slots
    <3> QED
      BY <3>2, <3>3, <3>4 DEF Slots
  <2> QED
    BY <2>8, <2>9, <2>11, <2>13 DEF Ownership
<1> QED
  BY <1>4, <1>5

\* exit().
LEMMA ExitOwns ==
  ASSUME NEW n \in Nat, Ownership(n), NEW p \in Procs, Exit(p)
  PROVE  Ownership(n)'
<1>1. /\ Types /\ Slots /\ Accounted(n) /\ DOMAIN todo = Procs /\ Clear(p)
      /\ proc[p].state = "live" /\ todo[p] = <<>> /\ UNCHANGED <<free, value, local, leaked>>
  BY OutsideIs DEF Ownership, Types, Exit
<1>2. DOMAIN todo' = Procs /\ \A r \in Procs : todo'[r] = todo[r]
  BY <1>1, OnlyIs DEF Exit
<1>3. \A r \in Procs :
        /\ proc'[r] \in [state : States, parent : Procs, sz : 0..USERTOP,
                         pgdir : PgDirs, kstack : Pages \cup {0}]
        /\ proc'[r].pgdir = proc[r].pgdir /\ proc'[r].kstack = proc[r].kstack
        /\ proc'[r].state = IF r = p THEN "zombie" ELSE proc[r].state
  <2> TAKE r \in Procs
  <2>1. proc[r] \in [state : States, parent : Procs, sz : 0..USERTOP, pgdir : PgDirs, kstack : Pages \cup {0}]
    BY <1>1 DEF Types
  <2>2. proc'[r] = IF r = p THEN [proc[p] EXCEPT !.state = "zombie"]
                   ELSE IF proc[r].parent = p THEN [proc[r] EXCEPT !.parent = First] ELSE proc[r]
    BY DEF Exit
  <2>3. First \in Procs /\ "zombie" \in States
    BY Bounds DEF States
  <2> QED
    BY <2>1, <2>2, <2>3
<1>4. Types'
  <2>1. DOMAIN proc' = Procs /\ proc' = [r \in Procs |-> proc'[r]]
    BY DEF Exit
  <2> QED
    BY <1>1, <1>2, <1>3, <2>1 DEF Types
<1>5. \A r \in Procs : Own(r)' = Own(r) /\ New(r)' = New(r) /\ Old(r)' = Old(r)
  BY <1>1, <1>3 DEF Own, New, Old
<1>6. Accounted(n)'
  BY <1>1, <1>3, <1>5, AccountKept
<1>7. \A r \in Procs : Course(r)'
  BY <1>1, <1>2, CourseKept DEF Ownership
<1>8. \A r, s \in Procs : (Makes(r, s)' <=> Makes(r, s)) /\ (Reaps(r, s)' <=> Reaps(r, s))
  BY <1>1, <1>2 DEF Makes, Reaps, Final
<1>9. Slots'
  <2>1. \A r \in Procs :
           /\ proc'[r].state \notin {"live", "zombie"} => Own(r)' = NoDir
           /\ proc'[r].state \in {"unused", "reaped"} <=> proc'[r].kstack = 0
           /\ proc'[r].state # "live" => todo'[r] = <<>>
           /\ New(r)'.dir = 0 => New(r)' = NoDir
    BY <1>1, <1>2, <1>3, <1>5 DEF Slots
  <2>2. \A r, s \in Procs : /\ Makes(r, s)' => proc'[s].state = "embryo"
                            /\ Reaps(r, s)' => proc'[s].state = "reaped"
    BY <1>1, <1>3, <1>8 DEF Slots
  <2>3. \A r, s, t \in Procs : /\ Makes(r, s)' /\ Makes(t, s)' => r = t
                               /\ Reaps(r, s)' /\ Reaps(t, s)' => r = t
    BY <1>1, <1>8 DEF Slots
  <2> QED
    BY <2>1, <2>2, <2>3 DEF Slots
<1> QED
  BY <1>4, <1>6, <1>7, <1>9 DEF Ownership

\* wait().
LEMMA WaitOwns ==
  ASSUME NEW n \in Nat, Ownership(n), NEW p \in Procs, NEW q \in Procs, Wait(p, q)
  PROVE  Ownership(n)'
<1> DEFINE l == [NoLocal EXCEPT !.old = proc[q].pgdir]
           rec == [Unused EXCEPT !.state = "reaped"]
<1>1. /\ Types /\ Slots /\ Accounted(n) /\ DOMAIN todo = Procs /\ Clear(p)
      /\ proc[p].state = "live" /\ todo[p] = <<>>
      /\ proc[q].state = "zombie" /\ leaked' = leaked
  BY OutsideIs DEF Ownership, Types, Wait, InUser
<1>2. /\ Kfree({proc[q].kstack}) /\ local' = [local EXCEPT ![p] = l]
      /\ proc' = [proc EXCEPT ![q] = rec]
      /\ Only(p, Freevm("old") \o <<<<"reaped", q>>>>)
  BY DEF Wait
<1>3. p # q /\ proc[q].kstack # 0 /\ todo[q] = <<>>
  BY <1>1 DEF Slots
<1>4. /\ l \in [new : PgDirs, sz : Nat, child : Procs, old : PgDirs, prog : Programs \cup {0}]
      /\ l.new = NoDir /\ l.old = Own(q)
  <2>1. proc[q].pgdir \in PgDirs
    BY <1>1 DEF Types
  <2> QED
    BY <2>1, NoLocalIs DEF NoLocal, Own
<1>5. /\ rec \in [state : States, parent : Procs, sz : 0..USERTOP, pgdir : PgDirs, kstack : Pages \cup {0}]
      /\ rec.state = "reaped" /\ rec.kstack = 0 /\ rec.pgdir = NoDir
  BY NoLocalIs, Bounds DEF Unused, States
<1> HIDE DEF l, rec
<1>6. /\ local' \in [Procs -> [new : PgDirs, sz : Nat, child : Procs, old : PgDirs,
                               prog : Programs \cup {0}]]
      /\ New(p)' = NoDir /\ Old(p)' = Own(q)
      /\ \A r \in Procs : r # p => local'[r] = local[r]
  BY <1>1, <1>2, <1>4, LocalIs
<1>7. /\ proc' \in [Procs -> [state : States, parent : Procs, sz : 0..USERTOP,
                              pgdir : PgDirs, kstack : Pages \cup {0}]]
      /\ proc'[q].state = "reaped" /\ proc'[q].kstack = 0 /\ Own(q)' = NoDir
      /\ \A r \in Procs : r # q => proc'[r] = proc[r]
  BY <1>1, <1>2, <1>5 DEF Types, Own
<1>8. /\ todo'[p] = <<<<"deallocuvm", "old", USERTOP, 0>>, <<"freedir", "old">>, <<"reaped", q>>>>
      /\ DOMAIN todo' = Procs /\ \A r \in Procs : r # p => todo'[r] = todo[r]
  <2>1. Freevm("old") \o <<<<"reaped", q>>>>
          = <<<<"deallocuvm", "old", USERTOP, 0>>, <<"freedir", "old">>, <<"reaped", q>>>>
    BY FreevmIs
  <2> QED
    BY <1>1, <1>2, <2>1, OnlyIs
<1>9. \A r \in Procs : /\ r # q => Own(r)' = Own(r)
                       /\ r # p => New(r)' = New(r) /\ Old(r)' = Old(r)
  BY <1>6, <1>7 DEF New, Old, Own
<1>10. /\ free' = free \cup {proc[q].kstack} /\ free' \subseteq Pages
       /\ DOMAIN value' = Pages /\ \A x \in Pages : x > n => value'[x] = "absent"
  <2>1. {proc[q].kstack} \subseteq Pages /\ {proc[q].kstack} \subseteq 1..n
    BY <1>1, <1>3, Installed DEF Types
  <2> QED
    BY <1>1, <1>2, <2>1, KfreeIs
<1>11. Accounted(n)'
  <2>1. Stacks[q] = proc[q].kstack /\ \A r \in Procs : Stacks'[r] = IF r = q THEN 0 ELSE Stacks[r]
    BY <1>7 DEF Stacks
  <2>2. Account(n, free', leaked', Stacks', Tables)
    <3>1. Account(n, free \cup {Stacks[q]}, leaked, Stacks', Tables)
      BY <1>1, <1>3, <2>1, GiveStack DEF Accounted
    <3> QED
      BY <1>1, <1>10, <2>1, <3>1
  <2>3. \A r \in Procs, v \in Which :
          Tables'[r][v] = IF r = q /\ v = "own" THEN NoDir
                          ELSE IF r = p /\ v = "old" THEN Tables[q]["own"] ELSE Tables[r][v]
    <3>1. /\ Tables'[q]["own"] = NoDir /\ Tables'[p]["old"] = Tables[q]["own"]
          /\ Tables'[p]["new"] = Tables[p]["new"] /\ Tables'[p]["own"] = Tables[p]["own"]
          /\ Tables'[q]["new"] = Tables[q]["new"] /\ Tables'[q]["old"] = Tables[q]["old"]
      BY <1>1, <1>3, <1>6, <1>7, <1>9, TablesAre, TablesWere DEF Clear
    <3>2. \A r \in Procs, v \in Which : r # p /\ r # q => Tables'[r][v] = Tables[r][v]
      BY <1>9, TablesAre, TablesWere DEF Which
    <3> QED
      BY <1>3, <3>1, <3>2 DEF Which
  <2>4. Tables[p]["old"] = NoDir /\ "own" \in Which /\ "old" \in Which
    BY <1>1, TablesAre DEF Which, Clear
  <2>5. Account(n, free', leaked', Stacks', Tables')
    <3>1. \A T, T2, K, F, L :
            /\ Account(n, F, L, K, T) /\ T[p]["old"] = NoDir
            /\ \A r \in Procs, v \in Which :
                  T2[r][v] = IF r = q /\ v = "own" THEN NoDir
                             ELSE IF r = p /\ v = "old" THEN T[q]["own"] ELSE T[r][v]
            => Account(n, F, L, K, T2)
      BY <1>3, <2>4, MoveTable, SMTT(60)
    <3> QED
      BY <2>2, <2>3, <2>4, <3>1
  <2> QED
    BY <1>10, <2>5 DEF Accounted
<1>12. Types'
  BY <1>1, <1>6, <1>7, <1>8, <1>10 DEF Types
<1>13. Course(p)'
  <2>1. 0 \in Nat /\ <<"reaped", q>> \in LastOf("old") /\ New(p)' = NoDir /\ "old" \in {"new", "old"}
        /\ "old" # "new"
    BY <1>6 DEF LastOf
  <2>2. InDeallocuvm(p)'
    BY <1>8, <2>1, Zenon DEF InDeallocuvm
  <2> QED
    BY <2>2 DEF Course
<1>14. \A r \in Procs : Course(r)'
  BY <1>6, <1>8, <1>13, CourseKept DEF Ownership
<1>15. /\ \A r, s \in Procs : r # p => (Makes(r, s)' <=> Makes(r, s)) /\ (Reaps(r, s)' <=> Reaps(r, s))
       /\ \A s \in Procs : ~Makes(p, s)' /\ (Reaps(p, s)' <=> s = q)
  <2>1. \A r, s \in Procs : r # p => (Makes(r, s)' <=> Makes(r, s)) /\ (Reaps(r, s)' <=> Reaps(r, s))
    BY <1>6, <1>8 DEF Makes, Reaps, Final
  <2>2. todo'[p] # <<>> /\ Final(todo'[p]) = <<"reaped", q>>
    BY <1>8, Finals, Tails
  <2>3. \A s \in Procs : <<"reaped", q>> # <<"forked">> /\ (<<"reaped", q>> = <<"reaped", s>> <=> s = q)
    BY Heads
  <2> QED
    BY <2>1, <2>2, <2>3 DEF Makes, Reaps, Final
<1>16. Slots'
  <2>1. \A r \in Procs : ~Makes(r, q) /\ ~Reaps(r, q)
    BY <1>1 DEF Slots
  <2>2. ASSUME NEW r \in Procs
        PROVE  /\ proc'[r].state \notin {"live", "zombie"} => Own(r)' = NoDir
               /\ proc'[r].state \in {"unused", "reaped"} <=> proc'[r].kstack = 0
               /\ proc'[r].state # "live" => todo'[r] = <<>>
               /\ New(r)'.dir = 0 => New(r)' = NoDir
    <3>1. /\ proc[r].state \notin {"live", "zombie"} => Own(r) = NoDir
          /\ proc[r].state \in {"unused", "reaped"} <=> proc[r].kstack = 0
          /\ proc[r].state # "live" => todo[r] = <<>>
          /\ New(r).dir = 0 => New(r) = NoDir
      BY <1>1 DEF Slots
    <3>2. CASE r = q
      BY <1>3, <1>7, <1>8, <1>9, <3>1, <3>2
    <3>3. CASE r = p
      BY <1>1, <1>3, <1>6, <1>7, <3>1, <3>3
    <3>4. CASE r # p /\ r # q
      <4>1. Own(r)' = Own(r) /\ New(r)' = New(r) /\ todo'[r] = todo[r] /\ proc'[r] = proc[r]
        BY <1>7, <1>8, <1>9, <3>4
      <4> QED
        BY <3>1, <4>1
    <3> QED
      BY <3>2, <3>3, <3>4
  <2>3. \A r, s \in Procs : /\ Makes(r, s)' => proc'[s].state = "embryo"
                            /\ Reaps(r, s)' => proc'[s].state = "reaped"
    <3>1. \A r, s \in Procs : Makes(r, s)' => s # q /\ proc[s].state = "embryo"
      BY <1>1, <1>15, <2>1 DEF Slots
    <3>2. \A r, s \in Procs : Reaps(r, s)' => s = q \/ proc[s].state = "reaped"
      BY <1>1, <1>15 DEF Slots
    <3> QED
      BY <1>7, <3>1, <3>2
  <2>4. \A r, s, t \in Procs : /\ Makes(r, s)' /\ Makes(t, s)' => r = t
                               /\ Reaps(r, s)' /\ Reaps(t, s)' => r = t
    BY <1>1, <1>15, <2>1 DEF Slots
  <2> QED
    BY <2>2, <2>3, <2>4 DEF Slots
<1> QED
  BY <1>11, <1>12, <1>14, <1>16 DEF Ownership

\* The end of wait().
LEMMA ReapedOwns ==
  ASSUME NEW n \in Nat, Ownership(n), NEW p \in Procs, Reaped(p)
  PROVE  Ownership(n)'
<1>1. InReaped(p) /\ Types /\ Slots /\ Accounted(n) /\ DOMAIN todo = Procs
  BY Where DEF Ownership, Reaped, Types
<1>2. PICK q \in Procs : todo[p] = <<<<"reaped", q>>>> /\ Clear(p)
  BY <1>1 DEF InReaped
<1>3. /\ Arg(p, 2) = q /\ Tail(todo[p]) = <<>> /\ todo[p] # <<>> /\ Reaps(p, q)
  <2>1. /\ Head(todo[p]) = <<"reaped", q>> /\ Tail(todo[p]) = <<>> /\ todo[p] # <<>>
        /\ Final(todo[p]) = <<"reaped", q>>
    BY <1>2, Tails, Finals
  <2> QED
    BY <2>1 DEF Arg, Reaps
<1>4. /\ proc[p].state = "live" /\ proc[q].state = "reaped" /\ p # q /\ proc[q].kstack = 0
      /\ Own(q) = NoDir /\ todo[q] = <<>>
  BY <1>1, <1>3 DEF Slots
<1>5. /\ proc' = [proc EXCEPT ![q] = Unused] /\ local' = [local EXCEPT ![p] = NoLocal]
      /\ Then(p, <<>>) /\ UNCHANGED <<free, value, leaked>>
  BY <1>3 DEF Reaped
<1>6. /\ todo'[p] = <<>> /\ DOMAIN todo' = Procs
      /\ \A r \in Procs : r # p => todo'[r] = todo[r]
  BY <1>1, <1>3, <1>5, ThenIs, Joined
<1>7. /\ local' \in [Procs -> [new : PgDirs, sz : Nat, child : Procs, old : PgDirs,
                               prog : Programs \cup {0}]]
      /\ New(p)' = NoDir /\ Old(p)' = NoDir
      /\ \A r \in Procs : r # p => local'[r] = local[r]
  BY <1>1, <1>5, NoLocalIs, LocalIs
<1>8. /\ proc' \in [Procs -> [state : States, parent : Procs, sz : 0..USERTOP,
                              pgdir : PgDirs, kstack : Pages \cup {0}]]
      /\ proc'[q].state = "unused" /\ proc'[q].kstack = 0 /\ Own(q)' = NoDir
      /\ \A r \in Procs : r # q => proc'[r] = proc[r]
  <2>1. /\ Unused \in [state : States, parent : Procs, sz : 0..USERTOP, pgdir : PgDirs, kstack : Pages \cup {0}]
        /\ Unused.state = "unused" /\ Unused.kstack = 0 /\ Unused.pgdir = NoDir
    BY NoLocalIs, Bounds DEF Unused, States
  <2> QED
    BY <1>1, <1>5, <2>1 DEF Types, Own
<1>9. \A r \in Procs : Own(r)' = Own(r) /\ New(r)' = New(r) /\ Old(r)' = Old(r)
  BY <1>2, <1>4, <1>7, <1>8 DEF New, Old, Own, Clear
<1>10. Accounted(n)'
  <2>1. \A r \in Procs : proc'[r].pgdir = proc[r].pgdir /\ proc'[r].kstack = proc[r].kstack
    BY <1>4, <1>8, <1>9 DEF Own
  <2> QED
    BY <1>1, <1>5, <1>9, <2>1, AccountKept
<1>11. Types'
  BY <1>1, <1>5, <1>6, <1>7, <1>8 DEF Types
<1>12. \A r \in Procs : Course(r)'
  <2>1. Course(p)'
    BY <1>6, <1>7 DEF Course, InNothing, Clear
  <2> QED
    BY <1>6, <1>7, <2>1, CourseKept DEF Ownership
<1>13. /\ \A r, s \in Procs : r # p => (Makes(r, s)' <=> Makes(r, s)) /\ (Reaps(r, s)' <=> Reaps(r, s))
       /\ \A s \in Procs : ~Makes(p, s)' /\ ~Reaps(p, s)'
  BY <1>6, <1>7 DEF Makes, Reaps, Final
<1>14. Slots'
  <2>1. \A r \in Procs : r # p => ~Makes(r, q) /\ ~Reaps(r, q)
    BY <1>1, <1>3, <1>4 DEF Slots
  <2>2. ASSUME NEW r \in Procs
        PROVE  /\ proc'[r].state \notin {"live", "zombie"} => Own(r)' = NoDir
               /\ proc'[r].state \in {"unused", "reaped"} <=> proc'[r].kstack = 0
               /\ proc'[r].state # "live" => todo'[r] = <<>>
               /\ New(r)'.dir = 0 => New(r)' = NoDir
    <3>1. /\ proc[r].state \notin {"live", "zombie"} => Own(r) = NoDir
          /\ proc[r].state \in {"unused", "reaped"} <=> proc[r].kstack = 0
          /\ proc[r].state # "live" => todo[r] = <<>>
          /\ New(r).dir = 0 => New(r) = NoDir
      BY <1>1 DEF Slots
    <3>2. CASE r = q
      BY <1>4, <1>6, <1>8, <1>9, <3>1, <3>2
    <3>3. CASE r # q
      BY <1>6, <1>8, <1>9, <3>1, <3>3
    <3> QED
      BY <3>2, <3>3
  <2>3. \A r, s \in Procs : /\ Makes(r, s)' => proc'[s].state = "embryo"
                            /\ Reaps(r, s)' => proc'[s].state = "reaped"
    BY <1>1, <1>8, <1>13, <2>1 DEF Slots
  <2>4. \A r, s, t \in Procs : /\ Makes(r, s)' /\ Makes(t, s)' => r = t
                               /\ Reaps(r, s)' /\ Reaps(t, s)' => r = t
    BY <1>1, <1>13 DEF Slots
  <2> QED
    BY <2>2, <2>3, <2>4 DEF Slots
<1> QED
  BY <1>10, <1>11, <1>12, <1>14 DEF Ownership

\* What a machine with n pages boots with.
LEMMA BootOwns ==
  ASSUME NEW n \in (KTABLES + 3)..NPAGES, Boot(n)
  PROVE  Ownership(n)
<1> DEFINE mem == KTABLES + 3
           tables == 3..(KTABLES + 2)
           pd == [dir |-> 2, tables |-> tables, user |-> [i \in Upages |-> IF i = 0 THEN mem ELSE 0]]
           init == [state |-> "live", parent |-> First, sz |-> PGSIZE, kstack |-> 1, pgdir |-> pd]
<1>1. /\ free = (mem + 1)..n /\ leaked = {} /\ DOMAIN value = Pages
      /\ \A q \in Pages : q > n => value[q] = "absent"
      /\ proc = [p \in Procs |-> IF p # First THEN Unused ELSE init]
      /\ todo = [p \in Procs |-> <<>>] /\ local = [p \in Procs |-> NoLocal]
  <2>1. DOMAIN value = Pages
    BY DEF Boot
  <2>2. ASSUME NEW q \in Pages, q > n PROVE value[q] = "absent"
    <3>1. q \in Nat /\ n \in Nat /\ KTABLES \in Nat /\ q > KTABLES + 3
      BY <2>2, Bounds
    <3>2. q # 1 /\ q # KTABLES + 3 /\ ~(q < KTABLES + 3)
      BY <3>1
    <3> QED
      BY <2>2, <3>2 DEF Boot
  <2> QED
    BY <2>1, <2>2 DEF Boot
<1>2. /\ mem \in 1..n /\ 2 \in 1..n /\ 1 \in 1..n /\ tables \subseteq 1..n /\ 1..n \subseteq Pages
      /\ n \in Nat /\ mem # 0 /\ KTABLES \in Nat
  BY Bounds DEF Pages
<1>3. 0 \in Upages /\ PGSIZE \in 0..USERTOP
  <2>1. PICK d \in Nat : UPAGES = 1 + d
    BY Bounds, UPAGES - 1 \in Nat
  <2>2. UPAGES * PGSIZE = PGSIZE + d * PGSIZE /\ d * PGSIZE \in Nat
    BY <2>1, Bounds
  <2> QED
    BY <2>2, Bounds
<1>4. pd \in PgDirs
  BY <1>2, <1>3 DEF PgDirs
<1>5. /\ init \in [state : States, parent : Procs, sz : 0..USERTOP, pgdir : PgDirs, kstack : Pages \cup {0}]
      /\ Unused \in [state : States, parent : Procs, sz : 0..USERTOP, pgdir : PgDirs, kstack : Pages \cup {0}]
  BY <1>2, <1>3, <1>4, NoLocalIs, Bounds DEF Unused, States
<1>6. Types
  <2>1. free \subseteq Pages /\ leaked \subseteq Pages
    BY <1>1, <1>2
  <2> QED
    BY <1>1, <1>5, <2>1, NoLocalIs DEF Types
<1>7. \A p \in Procs : New(p) = NoDir /\ Old(p) = NoDir /\ todo[p] = <<>>
  BY <1>1, NoLocalIs DEF New, Old
<1>8. \A p \in Procs : /\ Own(p) = IF p = First THEN pd ELSE NoDir
                       /\ proc[p].kstack = IF p = First THEN 1 ELSE 0
                       /\ proc[p].state = IF p = First THEN "live" ELSE "unused"
  BY <1>1 DEF Own, Unused
<1>9. \A p \in Procs : Course(p)
  BY <1>7 DEF Course, InNothing, Clear
<1>10. Slots
  BY <1>7, <1>8 DEF Slots, Makes, Reaps
<1>11. Account(n, free, leaked, Stacks, Tables)
  <2> DEFINE own == [q \in 1..n |->
               [kind |-> IF q = 1 THEN "kstack" ELSE IF q = 2 THEN "dir"
                         ELSE IF q < mem THEN "table" ELSE IF q = mem THEN "user" ELSE "free",
                proc |-> First, which |-> "own", page |-> 0]]
  <2>1. /\ \A q \in 1..n : own[q].proc = First /\ own[q].which = "own" /\ own[q].page = 0
        /\ own[1].kind = "kstack" /\ own[2].kind = "dir" /\ own[mem].kind = "user"
        /\ \A q \in tables : own[q].kind = "table"
        /\ \A q \in free : own[q].kind = "free"
        /\ \A q \in 1..n : q = 1 \/ q = 2 \/ q \in tables \/ q = mem \/ q \in free
    BY <1>1, <1>2
  <2>2. /\ Stacks[First] = 1 /\ First \in Procs
        /\ \A p \in Procs : p # First => Stacks[p] = 0
    BY <1>8, Bounds DEF Stacks
  <2>3. /\ Tables[First]["own"] = pd /\ "own" \in Which
        /\ \A p \in Procs, w \in Which : (p # First \/ w # "own") => Tables[p][w] = NoDir
    BY <1>7, <1>8, <2>2, TablesAre DEF Which
  <2>4. /\ pd.dir = 2 /\ pd.tables = tables /\ pd.user[0] = mem
        /\ \A i \in Upages : i # 0 => pd.user[i] = 0
        /\ NoDir.dir = 0 /\ NoDir.tables = {} /\ \A i \in Upages : NoDir.user[i] = 0
    BY <1>3 DEF NoDir
  <2>5. free \subseteq 1..n
    BY <1>1, <1>2
  <2> HIDE DEF own, pd, tables
  <2>6. \A q \in 1..n : PlaceOf(own, free, leaked, Stacks, Tables, q)
    BY <1>3, <2>1, <2>2, <2>3, <2>4 DEF PlaceOf
  <2>7. \A p \in Procs, w \in Which : AllAt(own, n, Tables, p, w)
    <3> TAKE p \in Procs, w \in Which
    <3>1. CASE p = First /\ w = "own"
      <4>1. p = First /\ w = "own" /\ Tables[p][w] = pd
        BY <2>3, <3>1
      <4>2. 2 \in 1..n /\ mem \in 1..n /\ tables \subseteq 1..n
        BY <1>1, <1>2 DEF tables
      <4>3. IsAt(own, n, Tables[p][w].dir, "dir", p, w)
        BY <2>1, <2>4, <4>1, <4>2 DEF IsAt
      <4>4. \A x \in Tables[p][w].tables : IsAt(own, n, x, "table", p, w)
        BY <2>1, <2>4, <4>1, <4>2 DEF IsAt
      <4>5. ASSUME NEW i \in Upages, Tables[p][w].user[i] # 0
            PROVE  /\ IsAt(own, n, Tables[p][w].user[i], "user", p, w)
                   /\ own[Tables[p][w].user[i]].page = i
        <5>1. i = 0 /\ Tables[p][w].user[i] = mem
          BY <2>4, <4>1, <4>5
        <5> QED
          BY <2>1, <4>1, <4>2, <5>1 DEF IsAt
      <4> QED
        BY <4>3, <4>4, <4>5 DEF AllAt
    <3>2. CASE p # First \/ w # "own"
      BY <2>3, <2>4, <3>2 DEF AllAt
    <3> QED
      BY <3>1, <3>2
  <2>8. Assigned(own, n, free, leaked, Stacks, Tables)
    BY <1>1, <1>2, <2>1, <2>2, <2>5, <2>6, <2>7 DEF Assigned
  <2> QED
    BY <2>8 DEF Account
<1> QED
  BY <1>1, <1>6, <1>9, <1>10, <1>11 DEF Ownership, Accounted

\* Every step keeps it.
LEMMA NextOwns ==
  ASSUME NEW n \in Nat, Ownership(n), [Next]_vars
  PROVE  Ownership(n)'
<1>1. CASE UNCHANGED vars
  BY <1>1, PanicOwns DEF vars
<1>2. ASSUME NEW p \in Procs, Call(p) PROVE Ownership(n)'
  BY <1>2, StoreOwns, ArgumentOwns, SbrkOwns, ForkOwns, WaitOwns, ExecOwns, ExitOwns DEF Call
<1>3. ASSUME NEW p \in Procs, Inside(p) PROVE Ownership(n)'
  BY <1>3, SetupkvmOwns, AllocuvmOwns, DeallocuvmOwns, FreedirOwns, CopyuvmOwns, SegmentOwns,
     LoadOwns DEF Inside
<1>4. ASSUME NEW p \in Procs, Ends(p) PROVE Ownership(n)'
  BY <1>4, GrownOwns, ForkedOwns, CommitOwns, FailedOwns, ReapedOwns DEF Ends
<1> QED
  BY <1>1, <1>2, <1>3, <1>4 DEF Next

\* A page that has one place has one holder.
LEMMA OneHolder ==
  ASSUME NEW n \in Nat, Types, Accounted(n), NEW q \in 1..n
  PROVE  \E h \in Holders : {g \in Holders : q \in Held(g)} = {h}
<1>1. PICK own : Assigned(own, n, free, leaked, Stacks, Tables)
  BY DEF Accounted, Account
<1> DEFINE Table(p, w) == q \in PagesOf(Tables[p][w])
<1>2. /\ q \in free <=> own[q].kind = "free"
      /\ q \in leaked <=> own[q].kind = "leaked"
      /\ own[q].kind \in {"free", "leaked", "kstack", "dir", "table", "user"}
  BY <1>1 DEF Assigned, PlaceOf, AllAt, IsAt
<1>3. \A p \in Procs : proc[p].kstack = q <=> own[q].kind = "kstack" /\ own[q].proc = p
  <2>1. \A p \in Procs : Stacks[p] = proc[p].kstack
    BY TablesAre
  <2> QED
    BY <1>1, <2>1 DEF Assigned, PlaceOf
<1>4. \A p \in Procs, w \in Which :
        Table(p, w) <=> own[q].kind \in {"dir", "table", "user"} /\ own[q].proc = p /\ own[q].which = w
  <2> TAKE p \in Procs, w \in Which
  <2>1. ASSUME Table(p, w)
        PROVE  own[q].kind \in {"dir", "table", "user"} /\ own[q].proc = p /\ own[q].which = w
    <3>1. AllAt(own, n, Tables, p, w)
      BY <1>1 DEF Assigned
    <3> QED
      BY <2>1, <3>1 DEF AllAt, IsAt, PagesOf
  <2>2. ASSUME own[q].kind \in {"dir", "table", "user"}, own[q].proc = p, own[q].which = w
        PROVE  Table(p, w)
    <3>1. PlaceOf(own, free, leaked, Stacks, Tables, q)
      BY <1>1 DEF Assigned
    <3> QED
      BY <2>2, <3>1 DEF PlaceOf, PagesOf
  <2> QED
    BY <2>1, <2>2
<1>5. /\ own[q].kind = "kstack" => own[q].proc \in Procs
      /\ own[q].kind \in {"dir", "table", "user"} => own[q].proc \in Procs /\ own[q].which \in Which
  BY <1>1 DEF Assigned, PlaceOf
<1> DEFINE Is(h) == CASE h[1] = "free" -> own[q].kind = "free"
                      [] h[1] = "leaked" -> own[q].kind = "leaked"
                      [] h[1] = "kstack" -> own[q].kind = "kstack" /\ own[q].proc = h[2]
                      [] h[1] = "pgdir" -> own[q].kind \in {"dir", "table", "user"} /\ own[q].proc = h[2] /\ own[q].which = "own"
                      [] h[1] = "new" -> own[q].kind \in {"dir", "table", "user"} /\ own[q].proc = h[2] /\ own[q].which = "new"
                      [] h[1] = "old" -> own[q].kind \in {"dir", "table", "user"} /\ own[q].proc = h[2] /\ own[q].which = "old"
<1>6. ASSUME NEW h \in Holders PROVE q \in Held(h) <=> Is(h)
  <2>0. q # 0
    OBVIOUS
  <2>1. CASE h[1] = "free" \/ h[1] = "leaked"
    BY <1>2, <2>1 DEF Held
  <2>2. CASE h \in {"kstack", "pgdir", "new", "old"} \X Procs
    <3>1. h[1] \in {"kstack", "pgdir", "new", "old"} /\ h[2] \in Procs
      BY <2>2
    <3>2. /\ Tables[h[2]]["own"] = proc[h[2]].pgdir /\ Tables[h[2]]["new"] = local[h[2]].new
          /\ Tables[h[2]]["old"] = local[h[2]].old
      BY <3>1, TablesAre DEF Own, New, Old
    <3>3. CASE h[1] = "kstack"
      BY <1>3, <2>0, <3>1, <3>3 DEF Held
    <3>4. CASE h[1] = "pgdir"
      BY <1>4, <3>1, <3>2, <3>4 DEF Held, Which
    <3>5. CASE h[1] = "new"
      BY <1>4, <3>1, <3>2, <3>5 DEF Held, Which
    <3>6. CASE h[1] = "old"
      BY <1>4, <3>1, <3>2, <3>6 DEF Held, Which
    <3> QED
      BY <3>1, <3>3, <3>4, <3>5, <3>6
  <2>3. h[1] = "free" \/ h[1] = "leaked" \/ h \in {"kstack", "pgdir", "new", "old"} \X Procs
    BY Heads DEF Holders
  <2> QED
    BY <2>1, <2>2, <2>3
<1> DEFINE h0 == CASE own[q].kind = "free" -> <<"free", First>>
                   [] own[q].kind = "leaked" -> <<"leaked", First>>
                   [] own[q].kind = "kstack" -> <<"kstack", own[q].proc>>
                   [] OTHER -> <<IF own[q].which = "own" THEN "pgdir" ELSE own[q].which, own[q].proc>>
<1>7. h0 \in Holders /\ Is(h0)
  <2>1. CASE own[q].kind \in {"free", "leaked"}
    BY <2>1, Heads DEF Holders
  <2>2. CASE own[q].kind = "kstack"
    BY <1>5, <2>2, Heads DEF Holders
  <2>3. CASE own[q].kind \in {"dir", "table", "user"}
    <3>1. own[q].proc \in Procs /\ own[q].which \in Which
      BY <1>5, <2>3
    <3> DEFINE a == IF own[q].which = "own" THEN "pgdir" ELSE own[q].which
    <3>2. a \in {"pgdir", "new", "old"} /\ h0 = <<a, own[q].proc>>
      BY <2>3, <3>1 DEF Which
    <3>3. h0[1] = a /\ h0[2] = own[q].proc /\ h0 \in Holders
      <4> HIDE DEF a, h0
      <4> QED
        BY <3>1, <3>2, Heads DEF Holders
    <3> HIDE DEF h0
    <3>4. Is(h0)
      BY <2>3, <3>1, <3>2, <3>3 DEF Which
    <3> QED
      BY <3>3, <3>4
  <2> QED
    BY <1>2, <2>1, <2>2, <2>3
<1> HIDE DEF h0
<1> DEFINE kind == IF own[q].kind \in {"free", "leaked", "kstack"} THEN own[q].kind
                   ELSE IF own[q].which = "own" THEN "pgdir" ELSE own[q].which
           who == IF own[q].kind \in {"free", "leaked"} THEN First ELSE own[q].proc
<1>8. \A g, h \in Holders : Is(g) /\ Is(h) => g = h
  <2> TAKE g, h \in Holders
  <2>1. /\ g = <<g[1], g[2]>> /\ h = <<h[1], h[2]>>
        /\ g[1] \in {"free", "leaked", "kstack", "pgdir", "new", "old"}
        /\ h[1] \in {"free", "leaked", "kstack", "pgdir", "new", "old"}
        /\ g[1] \in {"free", "leaked"} => g[2] = First
        /\ h[1] \in {"free", "leaked"} => h[2] = First
    BY Heads DEF Holders
  <2>2. Is(g) => g[1] = kind /\ g[2] = who
    BY <1>2, <2>1 DEF Which
  <2>3. Is(h) => h[1] = kind /\ h[2] = who
    BY <1>2, <2>1 DEF Which
  <2> QED
    BY <2>1, <2>2, <2>3
<1> HIDE DEF Is
<1>9. {g \in Holders : q \in Held(g)} = {h0}
  BY <1>6, <1>7, <1>8
<1> QED
  BY <1>7, <1>9

\* No page table maps a page twice.
LEMMA MappedOnce ==
  ASSUME NEW n \in Nat, Types, Accounted(n), NEW p \in Procs, NEW w \in Which,
         NEW i \in Upages, NEW j \in Upages,
         Tables[p][w].user[i] # 0, Tables[p][w].user[i] = Tables[p][w].user[j]
  PROVE  i = j
<1>1. PICK own : Assigned(own, n, free, leaked, Stacks, Tables)
  BY DEF Accounted, Account
<1>2. AllAt(own, n, Tables, p, w)
  BY <1>1 DEF Assigned
<1> QED
  BY <1>2 DEF AllAt, IsAt

\* The accounting of pages gives PagesAccounted.
LEMMA OwnershipCounts ==
  ASSUME NEW n \in Nat, Ownership(n)
  PROVE  PagesAccounted
<1>1. Types /\ Accounted(n)
  BY DEF Ownership
<1>2. ASSUME NEW q \in Pages, value[q] # "absent"
      PROVE  Cardinality({h \in Holders : q \in Held(h)}) = 1
  <2>1. q \in 1..n
    BY <1>1, <1>2, Bounds DEF Accounted
  <2>2. PICK h \in Holders : {g \in Holders : q \in Held(g)} = {h}
    BY <1>1, <2>1, OneHolder
  <2> QED
    BY <2>2, FS_Singleton
<1>3. ASSUME NEW p \in Procs, NEW i \in Mapped(proc[p].pgdir), NEW j \in Mapped(proc[p].pgdir),
             proc[p].pgdir.user[i] = proc[p].pgdir.user[j]
      PROVE  i = j
  <2>1. Tables[p]["own"] = proc[p].pgdir /\ "own" \in Which
    BY TablesAre DEF Own, Which
  <2>2. i \in Upages /\ j \in Upages /\ proc[p].pgdir.user[i] # 0
    BY DEF Mapped
  <2> QED
    BY <1>1, <1>3, <2>1, <2>2, MappedOnce
<1> QED
  BY <1>2, <1>3 DEF PagesAccounted

----------------------------------------------------------------------------
(***************************************************************************)
(* At every moment each installed page is free, or part of one kernel      *)
(* stack or page table, or one of those that setupkvm() lost; and no page  *)
(* table maps a page twice: however many pages of NPAGES are installed.    *)
(***************************************************************************)

\* With n pages installed.
THEOREM PagesOwnedOf ==
  ASSUME NEW n \in (KTABLES + 3)..NPAGES
  PROVE  Boot(n) /\ [][Next]_vars => []PagesAccounted
<1>1. n \in Nat
  BY Bounds
<1>2. Boot(n) => Ownership(n)
  BY BootOwns
<1>3. Ownership(n) /\ [Next]_vars => Ownership(n)'
  BY <1>1, NextOwns
<1>4. Ownership(n) => PagesAccounted
  BY <1>1, OwnershipCounts
<1> QED
  BY <1>2, <1>3, <1>4, PTL

\* With all of them.
THEOREM PagesOwned == Spec => []PagesAccounted
<1>1. NPAGES \in (KTABLES + 3)..NPAGES
  BY MemoryAssumption, Bounds
<1>2. Boot(NPAGES) /\ [][Next]_vars => []PagesAccounted
  BY <1>1, PagesOwnedOf
<1> QED
  BY <1>2 DEF Spec

----------------------------------------------------------------------------
(***************************************************************************)
(* What is in the memory of a process at each stage of its call.           *)
(***************************************************************************)

\* What the user pages of a page table hold; the first n of them are mapped,
\* and no others.
Text(pd) == [i \in Mapped(pd) |-> value[pd.user[i]]]
Filled(pd, n) == Mapped(pd) = {i \in Upages : i < n}

\* A process has the pages its size says, that with its code among them.
Backed(p) == 0 \in Mapped(Own(p)) /\ Filled(Own(p), PageUp(Size(p)))

\* Outside the kernel, a program may also have given back all it had.
Idle(p) == todo[p] = <<>> /\ (Backed(p) \/ Filled(Own(p), 0))

\* sbrk(): pages are added from the old size on.
Growing(p) ==
  \E n \in Nat \ {0}, i \in Nat :
    /\ todo[p] = <<<<"allocuvm", "own", Size(p), Size(p) + n, i>>, <<"grown", n>>>>
    /\ PageUp(Size(p)) <= i /\ i <= PageUp(Size(p) + n) /\ Filled(Own(p), i)
    /\ Size(p) + n > USERTOP => i = PageUp(Size(p))

\* When there are no more, or the size shrinks, those from the final size on go.
Kept(p, n) == PageUp(IF n > 0 THEN Size(p) ELSE local[p].sz)

Shrinking(p) ==
  \E n \in Int \ {0}, o \in 0..USERTOP, j \in Nat :
    /\ todo[p] = <<<<"deallocuvm", "own", o, j>>, <<"grown", n>>>>
    /\ Kept(p, n) <= j /\ local[p].sz <= USERTOP /\ (n > 0 => local[p].sz = 0)
    /\ {i \in Upages : i < Kept(p, n)} \subseteq Mapped(Own(p))
    /\ Mapped(Own(p)) \subseteq
         {i \in Upages : i < Kept(p, n) \/ (j <= i /\ i < PageUp(o))}

Grew(p) ==
  \E n \in Int :
    /\ todo[p] = <<<<"grown", n>>>>
    /\ IF n # 0 /\ local[p].sz = 0
       THEN Backed(p) \/ Filled(Own(p), 0)
       ELSE local[p].sz <= USERTOP /\ Filled(Own(p), PageUp(local[p].sz))

\* fork(): n pages are copied, unless there is no page table to copy to.
Copied(p, n) ==
  New(p).dir # 0 =>
    Filled(New(p), n) /\ \A i \in Upages : i < n => Text(New(p))[i] = Text(Own(p))[i]

ForkStarts(p) ==
  Backed(p) /\ todo[p] = <<<<"setupkvm">>, <<"copyuvm", 0>>, <<"forked">>>>
Copying(p) ==
  /\ Backed(p)
  /\ \E i \in Nat : /\ todo[p] = <<<<"copyuvm", i>>, <<"forked">>>>
                    /\ i <= PageUp(Size(p)) /\ Copied(p, i)
ForkEnds(p) == Backed(p) /\ todo[p] = <<<<"forked">>>> /\ Copied(p, PageUp(Size(p)))

\* exec(): the pages below n are those of the segments before the k-th, and what
\* the file has for them is there.
TextOf(prog, k) ==
  {i \in Upages : \E j \in DOMAIN prog.segs :
      j < k /\ i \in Span(prog.segs[j].va, prog.segs[j].va + prog.segs[j].filesz)}
Tops(prog, k, n) ==
  /\ \A j \in DOMAIN prog.segs : j < k =>
       PageUp(EndOf(prog.segs[j])) <= n
  /\ n = 0 \/ \E j \in DOMAIN prog.segs : j < k /\ n = PageUp(EndOf(prog.segs[j]))
Loaded(p, k, n) ==
  /\ Filled(New(p), n) /\ \A i \in TextOf(local[p].prog, k) : i < n
  /\ \A i \in Upages : i < n =>
       Text(New(p))[i] = IF i \in TextOf(local[p].prog, k) THEN "text" ELSE "zero"
\* There is a k-th segment.
Header(prog, k) == k \in DOMAIN prog.segs

ExecStarts(p) ==
  Backed(p) /\ todo[p] = <<<<"setupkvm">>, <<"segment", 1>>>> /\ local[p].sz = 0
AtSegment(p) ==
  /\ Backed(p)
  /\ \E k \in Nat \ {0} :
       /\ todo[p] = <<<<"segment", k>>>>
       /\ New(p).dir # 0 => /\ Tops(local[p].prog, k, PageUp(local[p].sz))
                            /\ Loaded(p, k, PageUp(local[p].sz))
Adding(p) ==
  /\ Backed(p)
  /\ \E k \in Nat \ {0}, i \in Nat :
       LET n == PageUp(local[p].sz)
           end == EndOf(local[p].prog.segs[k])
       IN /\ Header(local[p].prog, k)
          /\ todo[p] = <<<<"allocuvm", "new", local[p].sz, end, i>>, <<"load", k>>>>
          /\ n <= i /\ (i <= PageUp(end) \/ i = n) /\ (end > USERTOP => i = n)
          /\ Tops(local[p].prog, k, n) /\ Loaded(p, k, i)
AtLoad(p) ==
  /\ Backed(p)
  /\ \E k \in Nat \ {0} :
       /\ todo[p] = <<<<"load", k>>>>
       /\ local[p].sz # 0 => /\ Header(local[p].prog, k)
                             /\ Tops(local[p].prog, k + 1, PageUp(local[p].sz))
                             /\ Loaded(p, k, PageUp(local[p].sz))

\* The page for the stack comes after the last segment.
Stacking(p) ==
  /\ Backed(p)
  /\ \E k \in Nat \ {0}, i \in Nat :
       LET n == PageUp(local[p].sz)
       IN /\ todo[p] = <<<<"allocuvm", "new", n * PGSIZE, n * PGSIZE + PGSIZE, i>>, <<"commit">>>>
          /\ k \notin DOMAIN local[p].prog.segs
          /\ i \in {n, n + 1} /\ (n * PGSIZE + PGSIZE > USERTOP => i = n)
          /\ Tops(local[p].prog, k, n) /\ Loaded(p, k, i)
AtCommit(p) ==
  /\ Backed(p) /\ todo[p] = <<<<"commit">>>>
  /\ local[p].sz # 0 =>
       \E k \in Nat \ {0}, n \in Nat :
         /\ k \notin DOMAIN local[p].prog.segs
         /\ local[p].sz = n * PGSIZE + PGSIZE /\ n < UPAGES
         /\ Tops(local[p].prog, k, n) /\ Loaded(p, k, n + 1)

\* What allocuvm() added is given back, and then all of the page table.
Emptying(p) ==
  /\ Backed(p) /\ local[p].sz = 0
  /\ \E o \in 0..USERTOP, j \in Nat, e \in Loads :
       todo[p] = <<<<"deallocuvm", "new", o, j>>, e>>
Undoing(p) ==
  /\ Backed(p)
  /\ \E w \in {"new", "old"} : \E e \in LastOf(w) :
       \/ \E j \in Nat : todo[p] = <<<<"deallocuvm", w, USERTOP, j>>, <<"freedir", w>>, e>>
       \/ todo[p] = <<<<"freedir", w>>, e>>
Ending(p) ==
  Backed(p) /\ \E e \in LastOf("old") : todo[p] = <<e>>

Stage(p) ==
  \/ Idle(p) \/ Growing(p) \/ Shrinking(p) \/ Grew(p)
  \/ ForkStarts(p) \/ Copying(p) \/ ForkEnds(p)
  \/ ExecStarts(p) \/ AtSegment(p) \/ Adding(p) \/ AtLoad(p)
  \/ Stacking(p) \/ AtCommit(p) \/ Emptying(p) \/ Undoing(p) \/ Ending(p)

Staged == \A p \in Procs : Stage(p)

----------------------------------------------------------------------------
(***************************************************************************)
(* What a step leaves alone.                                               *)
(***************************************************************************)

\* No value on the user pages of table w of r changes.
Untouched(r, w) ==
  \A i \in Upages : Tables[r][w].user[i] # 0 =>
    value'[Tables[r][w].user[i]] = value[Tables[r][w].user[i]]

\* Nothing changes in what a process does and has in its memory.
Still(r) ==
  /\ todo'[r] = todo[r] /\ local'[r] = local[r] /\ Own(r)' = Own(r) /\ Size(r)' = Size(r)
  /\ Text(Own(r))' = Text(Own(r)) /\ Text(New(r))' = Text(New(r))

\* kalloc() returns a page that no program has.
LEMMA KallocLeaves ==
  ASSUME NEW n \in Nat, Types, Accounted(n), NEW v, free # {}, Kalloc(v)
  PROVE  \A r \in Procs, w \in Which : Untouched(r, w)
<1>1. PICK own : Assigned(own, n, free, leaked, Stacks, Tables)
  BY DEF Accounted, Account
<1>2. Page \in free /\ \A q \in Pages : q # Page => value'[q] = value[q]
  BY KallocIs
<1>3. own[Page].kind = "free"
  BY <1>1, <1>2 DEF Assigned
<1>4. ASSUME NEW r \in Procs, NEW w \in Which, NEW i \in Upages, Tables[r][w].user[i] # 0
      PROVE  Tables[r][w].user[i] \in Pages /\ Tables[r][w].user[i] # Page
  <2>1. own[Tables[r][w].user[i]].kind = "user"
    BY <1>1, <1>4 DEF Assigned, AllAt, IsAt
  <2>2. Tables[r][w].user[i] \in Pages
    BY <1>4, DirTypes DEF PgDirs
  <2> QED
    BY <1>3, <2>1, <2>2
<1> QED
  BY <1>2, <1>4 DEF Untouched

\* What changes on pages of one page table is not seen in another.
LEMMA TableLeaves ==
  ASSUME NEW n \in Nat, Types, Accounted(n), NEW p \in Procs, NEW w \in Which,
         \A q \in Pages : q \notin PagesOf(Tables[p][w]) => value'[q] = value[q],
         NEW r \in Procs, NEW v \in Which, r # p \/ v # w
  PROVE  Untouched(r, v)
<1>1. PICK own : Assigned(own, n, free, leaked, Stacks, Tables)
  BY DEF Accounted, Account
<1>2. ASSUME NEW i \in Upages, Tables[r][v].user[i] # 0
      PROVE  /\ Tables[r][v].user[i] \in Pages
             /\ Tables[r][v].user[i] \notin PagesOf(Tables[p][w])
  <2> DEFINE x == Tables[r][v].user[i]
  <2>1. own[x].proc = r /\ own[x].which = v
    BY <1>1, <1>2 DEF Assigned, AllAt, IsAt
  <2>2. \A y \in PagesOf(Tables[p][w]) : own[y].proc = p /\ own[y].which = w
    BY <1>1 DEF Assigned, AllAt, IsAt, PagesOf
  <2>3. x \in Pages
    BY <1>2, DirTypes DEF PgDirs
  <2> QED
    BY <2>1, <2>2, <2>3
<1> QED
  BY <1>2 DEF Untouched

\* Nor is what changes on a kernel stack.
LEMMA StackLeaves ==
  ASSUME NEW n \in Nat, Types, Accounted(n), NEW q \in Procs,
         \A x \in Pages : x # proc[q].kstack => value'[x] = value[x]
  PROVE  \A r \in Procs, w \in Which : Untouched(r, w)
<1>1. PICK own : Assigned(own, n, free, leaked, Stacks, Tables)
  BY DEF Accounted, Account
<1>2. ASSUME NEW r \in Procs, NEW w \in Which, NEW i \in Upages, Tables[r][w].user[i] # 0
      PROVE  Tables[r][w].user[i] \in Pages /\ Tables[r][w].user[i] # proc[q].kstack
  <2>1. own[Tables[r][w].user[i]].kind = "user"
    BY <1>1, <1>2 DEF Assigned, AllAt, IsAt
  <2>2. Tables[r][w].user[i] \in Pages
    BY <1>2, DirTypes DEF PgDirs
  <2>3. proc[q].kstack # 0 => own[proc[q].kstack].kind = "kstack"
    BY <1>1, TablesAre DEF Assigned
  <2> QED
    BY <1>2, <2>1, <2>2, <2>3
<1> QED
  BY <1>2 DEF Untouched

\* A page table whose pages keep their values keeps its text.
LEMMA TextKept ==
  ASSUME NEW p \in Procs
  PROVE  /\ Own(p)' = Own(p) /\ Untouched(p, "own") => Text(Own(p))' = Text(Own(p))
         /\ New(p)' = New(p) /\ Untouched(p, "new") => Text(New(p))' = Text(New(p))
<1>1. Tables[p]["own"] = Own(p) /\ Tables[p]["new"] = New(p)
  BY TablesAre
<1>2. ASSUME Own(p)' = Own(p), Untouched(p, "own") PROVE Text(Own(p))' = Text(Own(p))
  BY <1>1, <1>2 DEF Text, Mapped, Untouched
<1>3. ASSUME New(p)' = New(p), Untouched(p, "new") PROVE Text(New(p))' = Text(New(p))
  BY <1>1, <1>3 DEF Text, Mapped, Untouched
<1> QED
  BY <1>2, <1>3

\* A process that another one's step does not touch is still.
LEMMA StillIs ==
  ASSUME NEW r \in Procs, todo'[r] = todo[r], local'[r] = local[r],
         proc'[r].pgdir = proc[r].pgdir, proc'[r].sz = proc[r].sz,
         Untouched(r, "own"), Untouched(r, "new")
  PROVE  Still(r)
<1>1. Own(r)' = Own(r) /\ New(r)' = New(r) /\ Size(r)' = Size(r)
  BY DEF Own, New, Size
<1> QED
  BY <1>1, TextKept DEF Still

\* A process that is still is at the same stage.
LEMMA StageStill ==
  ASSUME NEW r \in Procs, Stage(r), Still(r)
  PROVE  Stage(r)'
<1>1. /\ todo'[r] = todo[r] /\ Own(r)' = Own(r) /\ New(r)' = New(r) /\ Size(r)' = Size(r)
      /\ local'[r].sz = local[r].sz /\ local'[r].prog = local[r].prog
      /\ Text(Own(r))' = Text(Own(r)) /\ Text(New(r))' = Text(New(r))
  BY DEF Still, New
<1>2. \A m : /\ Filled(Own(r), m)' <=> Filled(Own(r), m)
             /\ Filled(New(r), m)' <=> Filled(New(r), m)
  BY <1>1 DEF Filled, Mapped
<1>3. Backed(r)' <=> Backed(r)
  BY <1>1 DEF Backed, Filled, Mapped
<1>4. \A m : Copied(r, m)' <=> Copied(r, m)
  BY <1>1, <1>2 DEF Copied
<1>5. \A k, m : Loaded(r, k, m)' <=> Loaded(r, k, m)
  BY <1>1, <1>2 DEF Loaded
<1>6. \A m : Kept(r, m)' = Kept(r, m)
  BY <1>1 DEF Kept
<1>7. CASE Idle(r)
  BY <1>1, <1>2, <1>3, <1>7 DEF Stage, Idle
<1>8. CASE Growing(r)
  <2>1. Growing(r)'
    BY <1>1, <1>2, <1>8 DEF Growing
  <2> QED
    BY <2>1 DEF Stage
<1>9. CASE Shrinking(r)
  <2>1. Mapped(Own(r))' = Mapped(Own(r))
    BY <1>1 DEF Mapped
  <2>2. Shrinking(r)'
    BY <1>1, <1>6, <1>9, <2>1 DEF Shrinking
  <2> QED
    BY <2>2 DEF Stage
<1>10. CASE Grew(r)
  <2>1. Grew(r)'
    BY <1>1, <1>2, <1>3, <1>10 DEF Grew
  <2> QED
    BY <2>1 DEF Stage
<1>11. CASE ForkStarts(r) \/ Copying(r) \/ ForkEnds(r)
  <2>1. ForkStarts(r)' \/ Copying(r)' \/ ForkEnds(r)'
    BY <1>1, <1>3, <1>4, <1>11 DEF ForkStarts, Copying, ForkEnds
  <2> QED
    BY <2>1 DEF Stage
<1>12. CASE ExecStarts(r) \/ Emptying(r) \/ Undoing(r) \/ Ending(r)
  <2>1. ExecStarts(r)' \/ Emptying(r)' \/ Undoing(r)' \/ Ending(r)'
    BY <1>1, <1>3, <1>12 DEF ExecStarts, Emptying, Undoing, Ending
  <2> QED
    BY <2>1 DEF Stage
<1>13. CASE AtSegment(r)
  <2>1. AtSegment(r)'
    BY <1>1, <1>3, <1>5, <1>13 DEF AtSegment
  <2> QED
    BY <2>1 DEF Stage
<1>14. CASE Adding(r)
  <2>1. Adding(r)'
    BY <1>1, <1>3, <1>5, <1>14 DEF Adding
  <2> QED
    BY <2>1 DEF Stage
<1>15. CASE AtLoad(r)
  <2>1. AtLoad(r)'
    BY <1>1, <1>3, <1>5, <1>15 DEF AtLoad
  <2> QED
    BY <2>1 DEF Stage
<1>16. CASE Stacking(r)
  <2>1. Stacking(r)'
    BY <1>1, <1>3, <1>5, <1>16 DEF Stacking
  <2> QED
    BY <2>1 DEF Stage
<1>17. CASE AtCommit(r)
  <2>1. AtCommit(r)'
    BY <1>1, <1>3, <1>5, <1>17 DEF AtCommit
  <2> QED
    BY <2>1 DEF Stage
<1> QED
  BY <1>7, <1>8, <1>9, <1>10, <1>11, <1>12, <1>13, <1>14, <1>15, <1>16, <1>17 DEF Stage

\* The step that is taken, and what follows it.
LEMMA Goes ==
  ASSUME DOMAIN todo = Procs, NEW p \in Procs, NEW h
  PROVE  /\ todo[p] = <<h>> =>
              /\ Head(todo[p]) = h
              /\ Then(p, <<>>) => todo'[p] = <<>>
              /\ \A d : Then(p, <<d>>) => todo'[p] = <<d>>
              /\ \A d, e : Then(p, <<d>> \o <<e>>) => todo'[p] = <<d, e>>
         /\ \A e : todo[p] = <<h, e>> =>
              /\ Head(todo[p]) = h
              /\ Then(p, <<>>) => todo'[p] = <<e>>
              /\ \A d : Then(p, <<d>>) => todo'[p] = <<d, e>>
              /\ \A b, c : Then(p, <<b, c>>) => todo'[p] = <<b, c, e>>
         /\ \A b, e : todo[p] = <<h, b, e>> =>
              /\ Head(todo[p]) = h
              /\ Then(p, <<>>) => todo'[p] = <<b, e>>
              /\ \A d : Then(p, <<d>>) => todo'[p] = <<d, b, e>>
<1>1. ASSUME todo[p] = <<h>>
      PROVE  /\ Head(todo[p]) = h
             /\ Then(p, <<>>) => todo'[p] = <<>>
             /\ \A d : Then(p, <<d>>) => todo'[p] = <<d>>
             /\ \A d, e : Then(p, <<d>> \o <<e>>) => todo'[p] = <<d, e>>
  <2>1. Tail(todo[p]) = <<>> /\ Head(todo[p]) = h
    BY <1>1, Tails
  <2>2. ASSUME Then(p, <<>>) PROVE todo'[p] = <<>>
    BY <2>1, <2>2, ThenIs, Joined
  <2>3. ASSUME NEW d, Then(p, <<d>>) PROVE todo'[p] = <<d>>
    <3>1. <<d>> \o <<>> = <<d>>
      BY Joined
    <3> QED
      BY <2>1, <2>3, <3>1, ThenIs
  <2>4. ASSUME NEW d, NEW e, Then(p, <<d>> \o <<e>>) PROVE todo'[p] = <<d, e>>
    <3>1. todo'[p] = (<<d>> \o <<e>>) \o <<>>
      BY <2>1, <2>4, ThenIs
    <3> QED
      BY <3>1, Twice
  <2> QED
    BY <2>1, <2>2, <2>3, <2>4
<1>2. ASSUME NEW e, todo[p] = <<h, e>>
      PROVE  /\ Head(todo[p]) = h
             /\ Then(p, <<>>) => todo'[p] = <<e>>
             /\ \A d : Then(p, <<d>>) => todo'[p] = <<d, e>>
             /\ \A b, c : Then(p, <<b, c>>) => todo'[p] = <<b, c, e>>
  <2>1. Tail(todo[p]) = <<e>> /\ Head(todo[p]) = h
    BY <1>2, Tails
  <2>2. ASSUME Then(p, <<>>) PROVE todo'[p] = <<e>>
    <3>1. <<>> \o <<e>> = <<e>>
      BY Joined
    <3> QED
      BY <2>1, <2>2, <3>1, ThenIs
  <2>3. ASSUME NEW d, Then(p, <<d>>) PROVE todo'[p] = <<d, e>>
    <3>1. <<d>> \o <<e>> = <<d, e>>
      BY Joined
    <3> QED
      BY <2>1, <2>3, <3>1, ThenIs
  <2>4. ASSUME NEW b, NEW c, Then(p, <<b, c>>) PROVE todo'[p] = <<b, c, e>>
    <3>1. <<b, c>> \o <<e>> = <<b, c, e>>
      BY Joined
    <3> QED
      BY <2>1, <2>4, <3>1, ThenIs
  <2> QED
    BY <2>1, <2>2, <2>3, <2>4
<1>3. ASSUME NEW b, NEW e, todo[p] = <<h, b, e>>
      PROVE  /\ Head(todo[p]) = h
             /\ Then(p, <<>>) => todo'[p] = <<b, e>>
             /\ \A d : Then(p, <<d>>) => todo'[p] = <<d, b, e>>
  <2>1. Tail(todo[p]) = <<b, e>> /\ Head(todo[p]) = h
    BY <1>3, Tails
  <2>2. ASSUME Then(p, <<>>) PROVE todo'[p] = <<b, e>>
    <3>1. <<>> \o <<b, e>> = <<b, e>>
      BY Joined
    <3> QED
      BY <2>1, <2>2, <3>1, ThenIs
  <2>3. ASSUME NEW d, Then(p, <<d>>) PROVE todo'[p] = <<d, b, e>>
    <3>1. <<d>> \o <<b, e>> = <<d, b, e>>
      BY Joined
    <3> QED
      BY <2>1, <2>3, <3>1, ThenIs
  <2> QED
    BY <2>1, <2>2, <2>3
<1> QED
  BY <1>1, <1>2, <1>3

\* A process at a step is at one of these stages.
LEMMA StageAt ==
  ASSUME NEW p \in Procs, Stage(p)
  PROVE  /\ At(p, "setupkvm") => ForkStarts(p) \/ ExecStarts(p)
         /\ At(p, "allocuvm") => Growing(p) \/ Adding(p) \/ Stacking(p)
         /\ At(p, "deallocuvm") => Shrinking(p) \/ Emptying(p) \/ Undoing(p)
         /\ At(p, "freedir") => Undoing(p)
         /\ At(p, "copyuvm") => Copying(p)
         /\ At(p, "segment") => AtSegment(p)
         /\ At(p, "load") => AtLoad(p)
         /\ At(p, "commit") => AtCommit(p)
         /\ At(p, "grown") => Grew(p)
         /\ At(p, "forked") => ForkEnds(p)
         /\ At(p, "failed") \/ At(p, "reaped") => Ending(p)
         /\ todo[p] = <<>> => Idle(p)
<1> DEFINE h == Head(todo[p])[1]  t == todo[p] # <<>>
<1>1. \A s : At(p, s) => t /\ h = s
  BY DEF At
<1>2. todo[p] = <<>> => ~t
  OBVIOUS
<1>3. Idle(p) => ~t
  BY DEF Idle
<1>4. Growing(p) \/ Adding(p) \/ Stacking(p) => t /\ h = "allocuvm"
  <2>1. ASSUME NEW a, NEW b, NEW c, NEW d, NEW e, todo[p] = <<<<"allocuvm", a, b, c, d>>, e>>
        PROVE  t /\ h = "allocuvm"
    BY <2>1, Tails, Heads
  <2> HIDE DEF t, h
  <2>2. Growing(p) => t /\ h = "allocuvm"
    BY <2>1 DEF Growing
  <2>3. Adding(p) => t /\ h = "allocuvm"
    BY <2>1 DEF Adding
  <2>4. Stacking(p) => t /\ h = "allocuvm"
    BY <2>1 DEF Stacking
  <2> QED
    BY <2>2, <2>3, <2>4
<1>5. Shrinking(p) \/ Emptying(p) => t /\ h = "deallocuvm"
  <2>1. ASSUME NEW a, NEW b, NEW c, NEW e, todo[p] = <<<<"deallocuvm", a, b, c>>, e>>
        PROVE  t /\ h = "deallocuvm"
    BY <2>1, Tails, Heads
  <2> HIDE DEF t, h
  <2>2. Shrinking(p) => t /\ h = "deallocuvm"
    BY <2>1 DEF Shrinking
  <2>3. Emptying(p) => t /\ h = "deallocuvm"
    BY <2>1 DEF Emptying
  <2> QED
    BY <2>2, <2>3
<1>6. Undoing(p) => t /\ h \in {"deallocuvm", "freedir"}
  <2>1. ASSUME NEW a, NEW b, NEW c, NEW d, NEW e, todo[p] = <<<<"deallocuvm", a, b, c>>, d, e>>
        PROVE  t /\ h = "deallocuvm"
    BY <2>1, Tails, Heads
  <2>2. ASSUME NEW a, NEW e, todo[p] = <<<<"freedir", a>>, e>>
        PROVE  t /\ h = "freedir"
    BY <2>2, Tails, Heads
  <2> HIDE DEF t, h
  <2> QED
    BY <2>1, <2>2 DEF Undoing
<1>7. ForkStarts(p) \/ ExecStarts(p) => t /\ h = "setupkvm"
  BY Tails, Heads DEF ForkStarts, ExecStarts
<1>8. Copying(p) => t /\ h = "copyuvm"
  BY Tails, Heads DEF Copying
<1>9. Grew(p) => t /\ h = "grown"
  BY Tails, Heads DEF Grew
<1>10. ForkEnds(p) => t /\ h = "forked"
  BY Tails, Heads DEF ForkEnds
<1>11. AtSegment(p) => t /\ h = "segment"
  BY Tails, Heads DEF AtSegment
<1>12. AtLoad(p) => t /\ h = "load"
  BY Tails, Heads DEF AtLoad
<1>13. AtCommit(p) => t /\ h = "commit"
  BY Tails, Heads DEF AtCommit
<1>14. Ending(p) => t /\ h \in {"failed", "reaped"}
  BY Tails, Heads DEF Ending, LastOf
<1> HIDE DEF h, t
<1> QED
  BY <1>1, <1>2, <1>3, <1>4, <1>5, <1>6, <1>7, <1>8, <1>9, <1>10, <1>11, <1>12, <1>13, <1>14 DEF Stage

----------------------------------------------------------------------------
(***************************************************************************)
(* Every step leads from stage to stage.                                   *)
(***************************************************************************)

\* What a step of p inside a call, or one that ends it, does: the others are
\* still, and so is what p itself has in its memory.
Quiet(p) ==
  /\ \A r \in Procs : r # p => Still(r)
  /\ Text(Own(p))' = Text(Own(p)) /\ Stage(p)'

\* The page tables and values that a step of p leaves alone.
LEMMA OthersStill ==
  ASSUME NEW p \in Procs,
         \A r \in Procs : r # p => /\ todo'[r] = todo[r] /\ local'[r] = local[r]
                                   /\ proc'[r].pgdir = proc[r].pgdir /\ proc'[r].sz = proc[r].sz
                                   /\ Untouched(r, "own") /\ Untouched(r, "new")
  PROVE  \A r \in Procs : r # p => Still(r)
  BY StillIs

\* No value changes.
LEMMA ValueLeaves ==
  ASSUME value' = value
  PROVE  \A r \in Procs, w \in Which : Untouched(r, w)
  BY DEF Untouched

\* A page table without user pages.
LEMMA EmptyIs ==
  ASSUME NEW pd, \A i \in Upages : pd.user[i] = 0
  PROVE  Mapped(pd) = {} /\ Filled(pd, 0)
<1>1. Mapped(pd) = {}
  BY DEF Mapped
<1>2. \A i \in Upages : ~(i < 0)
  <2>1. \A i \in Nat : ~(i < 0)
    OBVIOUS
  <2> QED
    BY <2>1, Bounds
<1> QED
  BY <1>1, <1>2 DEF Filled

\* setupkvm().
LEMMA SetupkvmQuiet ==
  ASSUME NEW n \in Nat, Ownership(n), NEW p \in Procs, Stage(p), Setupkvm(p)
  PROVE  Quiet(p)
<1> DEFINE pd == New(p)
<1>1. InSetupkvm(p) /\ Types /\ Slots /\ Accounted(n) /\ DOMAIN todo = Procs
  BY Where DEF Ownership, Setupkvm, Types
<1>2. ForkStarts(p) \/ ExecStarts(p)
  BY StageAt DEF Setupkvm
<1>3. pd \in PgDirs /\ (\A i \in Upages : pd.user[i] = 0) /\ (pd.dir = 0 => pd = NoDir)
  BY <1>1, DirTypes, Bounds DEF InSetupkvm, Blank, Slots
<1>4. PICK s \in {<<>>, <<<<"setupkvm">>>>}, pd2 \in PgDirs :
        /\ Then(p, s) /\ SetPgdir(p, "new", pd2)
        /\ \A i \in Upages : pd2.user[i] = 0
        /\ \A r \in Procs, w \in Which : Untouched(r, w)
  <2>1. CASE free = {}
    <3>1. SetupFails(p) /\ proc' = proc
      BY <2>1 DEF Setupkvm
    <3>2. SetPgdir(p, "new", NoDir) /\ Then(p, <<>>) /\ value' = value
      BY <3>1, SetNewIs DEF SetupFails, NoPage
    <3> QED
      BY <1>1, <3>2, ValueLeaves, DirTypes
  <2>2. CASE free # {}
    <3> DEFINE s == IF Cardinality(pd.tables) + Cardinality({pd.dir} \ {0}) = KTABLES
                    THEN <<>> ELSE <<<<"setupkvm">>>>
               pd2 == IF pd.dir = 0 THEN [NoDir EXCEPT !.dir = Page]
                      ELSE [pd EXCEPT !.tables = @ \cup {Page}]
    <3>1. /\ Kalloc("zero") /\ SetNew(p, pd2) /\ Then(p, s) /\ proc' = proc
      BY <2>2 DEF Setupkvm
    <3>2. Page \in Pages /\ \A r \in Procs, w \in Which : Untouched(r, w)
      BY <1>1, <2>2, <3>1, KallocIs, KallocLeaves
    <3>3. pd2 \in PgDirs /\ \A i \in Upages : pd2.user[i] = 0
      BY <1>1, <1>3, <3>2, DirTypes DEF PgDirs, NoDir
    <3>4. SetPgdir(p, "new", pd2)
      BY <3>1, SetNewIs
    <3> HIDE DEF pd2, s
    <3>5. s \in {<<>>, <<<<"setupkvm">>>>}
      BY DEF s
    <3> QED
      BY <3>1, <3>2, <3>3, <3>4, <3>5
  <2> QED
    BY <2>1, <2>2
<1>5. /\ \A q \in Procs : /\ q # p => proc'[q] = proc[q] /\ local'[q] = local[q]
                          /\ proc'[q].sz = proc[q].sz
      /\ New(p)' = pd2 /\ Own(p)' = Own(p) /\ local'[p].prog = local[p].prog
      /\ local'[p].sz = local[p].sz
  BY <1>1, <1>4, SetPgdirIs DEF Which
<1>6. \A r \in Procs : r # p => todo'[r] = todo[r]
  BY <1>1, <1>4, ThenIs
<1>7. \A r \in Procs : r # p => Still(r)
  BY <1>4, <1>5, <1>6, OthersStill DEF Which
<1>8. Text(Own(p))' = Text(Own(p))
  BY <1>4, <1>5, TextKept DEF Which
<1>9. Backed(p) /\ Backed(p)'
  BY <1>2, <1>5 DEF ForkStarts, ExecStarts, Backed, Filled, Mapped, Size
<1>10. Filled(New(p), 0)'
  <2>1. Mapped(pd2) = {} /\ Filled(pd2, 0)
    BY <1>4, EmptyIs
  <2> QED
    BY <1>5, <2>1 DEF Filled, Mapped
<1>11. Stage(p)'
  <2>1. CASE todo[p] = <<<<"setupkvm">>, <<"copyuvm", 0>>, <<"forked">>>>
    <3>1. CASE s = <<>>
      <4>1. todo'[p] = <<<<"copyuvm", 0>>, <<"forked">>>>
        BY <1>1, <1>4, <2>1, <3>1, Goes
      <4>2. 0 \in Nat /\ 0 <= PageUp(Size(p))' /\ Copied(p, 0)'
        <5>1. PageUp(Size(p)) \in Nat /\ Size(p)' = Size(p)
          BY <1>1, <1>5, PageUpIs, Bounds DEF Size, Types
        <5> QED
          BY <1>10, <5>1, Bounds DEF Copied
      <4>3. Copying(p)'
        BY <1>9, <4>1, <4>2 DEF Copying
      <4> QED
        BY <4>3 DEF Stage
    <3>2. CASE s = <<<<"setupkvm">>>>
      <4>1. todo'[p] = todo[p]
        BY <1>1, <1>4, <2>1, <3>2, Goes
      <4> QED
        BY <1>9, <2>1, <4>1 DEF Stage, ForkStarts
    <3> QED
      BY <1>4, <3>1, <3>2
  <2>2. CASE todo[p] = <<<<"setupkvm">>, <<"segment", 1>>>> /\ local[p].sz = 0
    <3>1. CASE s = <<>>
      <4>1. todo'[p] = <<<<"segment", 1>>>>
        BY <1>1, <1>4, <2>2, <3>1, Goes
      <4>2. PageUp(local'[p].sz) = 0
        BY <1>5, <2>2, PageUpWhole
      <4>3. Tops(local'[p].prog, 1, 0)
        <5>1. \A j \in DOMAIN local[p].prog.segs : ~(j < 1)
          <6>1. local[p].prog \in Programs
            BY <1>1, <2>2, Tails DEF InSetupkvm, Execing
          <6> QED
            BY <6>1, ProgIs
        <5> QED
          BY <1>5, <5>1 DEF Tops
      <4>4. Loaded(p, 1, 0)'
        <5>1. TextOf(local'[p].prog, 1) = {}
          <6>1. local'[p].prog \in Programs
            BY <1>1, <1>5, <2>2, Tails DEF InSetupkvm, Execing
          <6>2. \A j \in DOMAIN local'[p].prog.segs : ~(j < 1)
            BY <6>1, ProgIs
          <6> QED
            BY <6>2 DEF TextOf
        <5> QED
          BY <1>10, <5>1, Bounds DEF Loaded
      <4>5. AtSegment(p)'
        BY <1>9, <4>1, <4>2, <4>3, <4>4 DEF AtSegment
      <4> QED
        BY <4>5 DEF Stage
    <3>2. CASE s = <<<<"setupkvm">>>>
      <4>1. todo'[p] = todo[p]
        BY <1>1, <1>4, <2>2, <3>2, Goes
      <4> QED
        BY <1>5, <1>9, <2>2, <4>1 DEF Stage, ExecStarts
    <3> QED
      BY <1>4, <3>1, <3>2
  <2> QED
    BY <1>2, <2>1, <2>2 DEF ForkStarts, ExecStarts
<1> QED
  BY <1>7, <1>8, <1>11 DEF Quiet

\* A page with value v is added to a page table at i.
AddedOwn(p, i, v) ==
  /\ i \in Upages /\ i \notin Mapped(Own(p)) /\ Mapped(Own(p))' = Mapped(Own(p)) \cup {i}
  /\ Text(Own(p))' = [j \in Mapped(Own(p)) \cup {i} |-> IF j = i THEN v ELSE Text(Own(p))[j]]
AddedNew(p, i, v) ==
  /\ i \in Upages /\ i \notin Mapped(New(p)) /\ Mapped(New(p))' = Mapped(New(p)) \cup {i}
  /\ Text(New(p))' = [j \in Mapped(New(p)) \cup {i} |-> IF j = i THEN v ELSE Text(New(p))[j]]

\* The page tables of p and what they hold stay.
TablesStay(p) ==
  /\ Own(p)' = Own(p) /\ Text(Own(p))' = Text(Own(p))
  /\ New(p)' = New(p) /\ Text(New(p))' = Text(New(p))

\* A page that kalloc() returned is added.
LEMMA PageAdded ==
  ASSUME NEW n \in Nat, Types, Accounted(n), free # {}, NEW v, Kalloc(v), NEW p \in Procs,
         NEW w \in {"own", "new"}, NEW i \in Upages, Tables[p][w].user[i] = 0,
         NEW pd2, pd2 = [Tables[p][w] EXCEPT !.user[i] = Page]
  PROVE  /\ w = "own" /\ Own(p)' = pd2 => AddedOwn(p, i, v)
         /\ w = "new" /\ New(p)' = pd2 => AddedNew(p, i, v)
<1>1. Page \in Pages /\ Page # 0 /\ value'[Page] = v
  BY KallocIs
<1>2. w \in Which /\ Tables[p][w] \in PgDirs /\ Untouched(p, w)
  BY KallocLeaves, DirTypes DEF Which
<1>3. pd2.user[i] = Page /\ \A j \in Upages : j # i => pd2.user[j] = Tables[p][w].user[j]
  BY <1>2 DEF PgDirs
<1>4. Mapped(pd2) = Mapped(Tables[p][w]) \cup {i} /\ i \notin Mapped(Tables[p][w])
  BY <1>1, <1>3 DEF Mapped
<1>5. \A j \in Mapped(Tables[p][w]) :
         j # i /\ value'[pd2.user[j]] = value[Tables[p][w].user[j]]
  BY <1>2, <1>3, <1>4 DEF Mapped, Untouched
<1>6. ASSUME w = "own", Own(p)' = pd2 PROVE AddedOwn(p, i, v)
  <2>1. Tables[p][w] = Own(p)
    BY <1>6, TablesAre
  <2>2. Mapped(Own(p))' = Mapped(pd2)
    BY <1>6 DEF Mapped
  <2>3. Text(Own(p))' = [j \in Mapped(pd2) |-> value'[pd2.user[j]]]
    BY <1>6, <2>2 DEF Text
  <2> QED
    BY <1>1, <1>3, <1>4, <1>5, <2>1, <2>2, <2>3 DEF AddedOwn, Text
<1>7. ASSUME w = "new", New(p)' = pd2 PROVE AddedNew(p, i, v)
  <2>1. Tables[p][w] = New(p)
    BY <1>7, TablesAre
  <2>2. Mapped(New(p))' = Mapped(pd2)
    BY <1>7 DEF Mapped
  <2>3. Text(New(p))' = [j \in Mapped(pd2) |-> value'[pd2.user[j]]]
    BY <1>7, <2>2 DEF Text
  <2> QED
    BY <1>1, <1>3, <1>4, <1>5, <2>1, <2>2, <2>3 DEF AddedNew, Text
<1> QED
  BY <1>6, <1>7

\* What allocuvm() does.
LEMMA AllocuvmDoes ==
  ASSUME NEW n \in Nat, Ownership(n), NEW p \in Procs, Allocuvm(p),
         NEW w \in {"own", "new"}, NEW o \in Nat, NEW m \in Nat, NEW i \in Nat, NEW e,
         todo[p] = <<<<"allocuvm", w, o, m, i>>, e>>
  PROVE  /\ \A r \in Procs : r # p => Still(r)
         /\ Size(p)' = Size(p) /\ local'[p].prog = local[p].prog
         /\ w = "new" => Own(p)' = Own(p) /\ Text(Own(p))' = Text(Own(p))
         /\ \/ /\ m > USERTOP \/ m < o \/ i * PGSIZE >= m
               /\ todo'[p] = <<e>> /\ TablesStay(p)
               /\ local'[p].sz = IF m > USERTOP THEN 0 ELSE IF m < o THEN o ELSE m
               /\ panic' = panic
            \/ /\ ~(m > USERTOP \/ m < o \/ i * PGSIZE >= m)
               /\ \/ /\ todo'[p] = <<<<"deallocuvm", w, m, PageUp(o)>>, e>> /\ TablesStay(p)
                     /\ local'[p].sz = 0 /\ panic' = panic
                  \/ Still(p) /\ i \in Mapped(Tables[p][w])
                  \/ /\ todo'[p] = <<<<"allocuvm", w, o, m, i + 1>>, e>>
                     /\ local'[p].sz = local[p].sz
                     /\ IF w = "own" THEN AddedOwn(p, i, "zero") ELSE AddedNew(p, i, "zero")
                     /\ panic' = panic
<1>1. Types /\ Accounted(n) /\ DOMAIN todo = Procs
  BY DEF Ownership, Types
<1>2. /\ Arg(p, 2) = w /\ Arg(p, 3) = o /\ Arg(p, 4) = m /\ Arg(p, 5) = i
  <2>1. Head(todo[p]) = <<"allocuvm", w, o, m, i>>
    BY Tails
  <2> QED
    BY <2>1 DEF Arg
<1>3. w \in Which /\ Pgdir(p, w) = Tables[p][w] /\ Tables[p][w] \in PgDirs /\ USERTOP \in Nat
  BY <1>1, DirTypes, Bounds DEF Which, Tables
<1> DEFINE pd == Pgdir(p, w)
           over == m > USERTOP \/ m < o \/ i * PGSIZE >= m
<1>4. ASSUME NEW sz \in Nat, local' = [local EXCEPT ![p].sz = sz], NEW s, Then(p, s),
             proc' = proc, value' = value
      PROVE  /\ \A r \in Procs : r # p => Still(r)
             /\ TablesStay(p) /\ Size(p)' = Size(p) /\ local'[p].prog = local[p].prog
             /\ local'[p].sz = sz
  <2>1. /\ \A r \in Procs : /\ local'[r].prog = local[r].prog
                            /\ r # p => local'[r] = local[r] /\ todo'[r] = todo[r]
        /\ local'[p].sz = sz /\ New(p)' = New(p) /\ Own(p)' = Own(p)
    <3>1. /\ \A r \in Procs : local'[r].prog = local[r].prog /\ (r # p => local'[r] = local[r])
          /\ local'[p].sz = sz /\ New(p)' = New(p) /\ Own(p)' = Own(p)
      BY <1>1, <1>4, ResultIs
    <3>2. \A r \in Procs : r # p => todo'[r] = todo[r]
      BY <1>1, <1>4, ThenIs
    <3> QED
      BY <3>1, <3>2
  <2>2. \A r \in Procs, x \in Which : Untouched(r, x)
    BY <1>4, ValueLeaves
  <2>3. \A r \in Procs : r # p => Still(r)
    BY <1>4, <2>1, <2>2, OthersStill DEF Which
  <2>4. TablesStay(p)
    BY <2>1, <2>2, TextKept DEF TablesStay, Which
  <2> QED
    BY <1>4, <2>1, <2>3, <2>4 DEF Size
<1>5. CASE over
  <2> DEFINE sz == IF m > USERTOP THEN 0 ELSE IF m < o THEN o ELSE m
  <2>1. /\ local' = [local EXCEPT ![p].sz = sz]
        /\ Then(p, <<>>) /\ NoPage /\ proc' = proc /\ panic' = panic
    BY <1>2, <1>5, Zenon DEF Allocuvm
  <2>2. sz \in Nat
    OBVIOUS
  <2> HIDE DEF sz
  <2>3. todo'[p] = <<e>>
    BY <1>1, <2>1, Goes
  <2>4. /\ \A r \in Procs : r # p => Still(r)
        /\ TablesStay(p) /\ Size(p)' = Size(p) /\ local'[p].prog = local[p].prog
        /\ local'[p].sz = sz
    BY <1>4, <2>1, <2>2 DEF NoPage
  <2> QED
    BY <1>5, <2>1, <2>3, <2>4 DEF sz, TablesStay
<1>6. CASE ~over /\ free = {}
  <2> DEFINE d == <<"deallocuvm", w, m, PageUp(o)>>
  <2>1. /\ local' = [local EXCEPT ![p].sz = 0]
        /\ Then(p, <<d>>) /\ NoPage /\ proc' = proc /\ panic' = panic
    BY <1>2, <1>6, Zenon DEF Allocuvm
  <2>2. todo'[p] = <<d, e>>
    BY <1>1, <2>1, Goes
  <2>3. /\ \A r \in Procs : r # p => Still(r)
        /\ TablesStay(p) /\ Size(p)' = Size(p) /\ local'[p].prog = local[p].prog
        /\ local'[p].sz = 0
    BY <1>4, <2>1 DEF NoPage
  <2> QED
    BY <1>6, <2>1, <2>2, <2>3 DEF TablesStay
<1>7. CASE ~over /\ free # {} /\ pd.user[i] # 0
  <2>1. UNCHANGED <<free, value, proc, todo, local>>
    BY <1>2, <1>7, Zenon DEF Allocuvm, NoPage
  <2>2. \A r \in Procs : Still(r)
    BY <2>1, ValueLeaves, StillIs DEF Which
  <2>3. i \in Upages
    BY <1>3, <1>7, OnPage
  <2>4. i \in Mapped(Tables[p][w])
    BY <1>3, <1>7, <2>3 DEF Mapped
  <2> QED
    BY <1>7, <2>2, <2>4 DEF Still
<1>8. CASE ~over /\ free # {} /\ pd.user[i] = 0
  <2> DEFINE d == <<"allocuvm", w, o, m, i + 1>>
             pd2 == [pd EXCEPT !.user[i] = Page]
  <2>1. /\ Kalloc("zero") /\ SetPgdir(p, w, pd2) /\ Then(p, <<d>>) /\ panic' = panic
    BY <1>2, <1>8, Zenon DEF Allocuvm
  <2>2. todo'[p] = <<d, e>> /\ \A r \in Procs : r # p => todo'[r] = todo[r]
    BY <1>1, <2>1, Goes, ThenIs
  <2>3. i \in Upages
    BY <1>3, <1>8, OnPage
  <2>4. Page \in Pages /\ \A r \in Procs, x \in Which : Untouched(r, x)
    BY <1>1, <1>8, <2>1, KallocIs, KallocLeaves
  <2>5. pd2 \in PgDirs
    BY <1>3, <2>3, <2>4 DEF PgDirs
  <2>6. /\ \A r \in Procs : /\ proc'[r].sz = proc[r].sz
                            /\ r # p => proc'[r] = proc[r] /\ local'[r] = local[r]
        /\ local'[p].prog = local[p].prog /\ local'[p].sz = local[p].sz
        /\ New(p)' = (IF w = "new" THEN pd2 ELSE New(p))
        /\ Own(p)' = (IF w = "own" THEN pd2 ELSE Own(p))
    BY <1>1, <1>3, <2>1, <2>5, SetPgdirIs
  <2>7. \A r \in Procs : r # p => Still(r)
    BY <2>2, <2>4, <2>6, OthersStill DEF Which
  <2>8. IF w = "own" THEN AddedOwn(p, i, "zero") ELSE AddedNew(p, i, "zero")
    BY <1>1, <1>3, <1>8, <2>1, <2>3, <2>6, PageAdded
  <2>9. w = "new" => Own(p)' = Own(p) /\ Text(Own(p))' = Text(Own(p))
    BY <2>4, <2>6, TextKept DEF Which
  <2> HIDE DEF pd2
  <2> QED
    BY <1>8, <2>1, <2>2, <2>6, <2>7, <2>8, <2>9 DEF Size
<1> QED
  BY <1>5, <1>6, <1>7, <1>8

\* A page table is filled one page further.
LEMMA FilledMore ==
  ASSUME NEW pd, NEW pd2, NEW i \in Upages, Filled(pd, i), Mapped(pd2) = Mapped(pd) \cup {i}
  PROVE  Filled(pd2, i + 1)
<1>1. \A j \in Nat : j < i + 1 <=> j < i \/ j = i
  BY Bounds
<1>2. \A j \in Upages : j < i + 1 <=> j < i \/ j = i
  BY <1>1, Bounds
<1> QED
  BY <1>2 DEF Filled

\* A process that has the pages its size says has that with its code, or none.
LEMMA FilledBacked ==
  ASSUME NEW p \in Procs, PageUp(Size(p)) \in Nat, Filled(Own(p), PageUp(Size(p)))
  PROVE  Backed(p) \/ Filled(Own(p), 0)
<1>1. CASE PageUp(Size(p)) = 0
  BY <1>1
<1>2. CASE PageUp(Size(p)) # 0
  <2>1. 0 \in Upages /\ 0 < PageUp(Size(p))
    BY <1>2, Bounds
  <2> QED
    BY <2>1 DEF Filled, Backed
<1> QED
  BY <1>1, <1>2

\* Another page of the new image, above what the file has.
LEMMA LoadedMore ==
  ASSUME NEW p \in Procs, NEW k \in Nat, NEW i \in Upages, Loaded(p, k, i),
         AddedNew(p, i, "zero"), local'[p].prog = local[p].prog
  PROVE  Loaded(p, k, i + 1)'
<1>1. Filled(New(p), i + 1)'
  <2>1. Mapped(New(p))' = Mapped(New(p)') /\ Mapped(New(p)') = Mapped(New(p)) \cup {i}
    BY DEF AddedNew, Mapped
  <2>2. Filled(New(p)', i + 1)
    BY <2>1, FilledMore DEF Loaded
  <2> QED
    BY <2>1, <2>2 DEF Filled
<1>2. i \notin TextOf(local[p].prog, k) /\ \A j \in TextOf(local[p].prog, k) : j < i + 1
  <2>1. \A j \in TextOf(local[p].prog, k) : j \in Upages /\ j < i
    BY DEF Loaded, TextOf
  <2> QED
    BY <2>1, Bounds
<1>3. ASSUME NEW j \in Upages, j < i + 1
      PROVE  Text(New(p))'[j] = IF j \in TextOf(local[p].prog, k) THEN "text" ELSE "zero"
  <2>1. j \in Nat /\ i \in Nat /\ (j < i \/ j = i)
    BY <1>3, Bounds
  <2>2. CASE j < i
    <3>1. j \in Mapped(New(p)) /\ j # i
      BY <2>1, <2>2 DEF Loaded, Filled
    <3> QED
      BY <2>2, <3>1 DEF Loaded, AddedNew
  <2>3. CASE j = i
    BY <1>2, <2>3 DEF AddedNew
  <2> QED
    BY <2>1, <2>2, <2>3
<1>4. TextOf(local[p].prog, k)' = TextOf(local[p].prog, k)
  BY DEF TextOf
<1> QED
  BY <1>1, <1>2, <1>3, <1>4 DEF Loaded

\* What a step that may change a page of p does.
Moves(p, Change) ==
  /\ \A r \in Procs : r # p => Still(r)
  /\ Stage(p)' /\ panic' = panic
  /\ Text(Own(p))' = Text(Own(p)) \/ Change

\* What the next lemmas need of the invariant.
LEMMA StageTypes ==
  ASSUME NEW n, Ownership(n), NEW p \in Procs
  PROVE  /\ Types /\ Slots /\ Accounted(n) /\ DOMAIN todo = Procs /\ Course(p)
         /\ Size(p) \in Nat /\ Size(p) <= USERTOP /\ PageUp(Size(p)) \in Nat
         /\ local[p].sz \in Nat /\ PageUp(local[p].sz) \in Nat
<1>1. Types /\ Slots /\ Accounted(n) /\ DOMAIN todo = Procs /\ Course(p)
  BY DEF Ownership, Types
<1>2. Size(p) \in Nat /\ Size(p) <= USERTOP /\ local[p].sz \in Nat
  BY <1>1, Bounds DEF Types, Size
<1> QED
  BY <1>1, <1>2, PageUpIs

\* allocuvm() in sbrk().
LEMMA GrowingStage ==
  ASSUME NEW n \in Nat, Ownership(n), NEW p \in Procs, Growing(p), Allocuvm(p)
  PROVE  Moves(p, \E i \in Upages : AddedOwn(p, i, "zero"))
<1>1. Types /\ Size(p) \in Nat /\ PageUp(Size(p)) \in Nat /\ USERTOP \in Nat /\ PGSIZE \in Nat
  BY StageTypes, Bounds
<1>2. PICK g \in Nat \ {0}, i \in Nat :
        /\ todo[p] = <<<<"allocuvm", "own", Size(p), Size(p) + g, i>>, <<"grown", g>>>>
        /\ PageUp(Size(p)) <= i /\ i <= PageUp(Size(p) + g) /\ Filled(Own(p), i)
        /\ Size(p) + g > USERTOP => i = PageUp(Size(p))
  BY DEF Growing
<1> DEFINE o == Size(p)  m == Size(p) + g  e == <<"grown", g>>
<1>3. o \in Nat /\ m \in Nat /\ ~(m < o) /\ m # 0 /\ PageUp(m) \in Nat
      /\ (i * PGSIZE >= m <=> i >= PageUp(m))
  <2>1. o \in Nat /\ m \in Nat /\ ~(m < o) /\ m # 0
    BY <1>1
  <2> QED
    BY <2>1, PageUpIs
<1> HIDE DEF o, m, e
<1>4. /\ \A r \in Procs : r # p => Still(r)
      /\ Size(p)' = Size(p)
      /\ \/ /\ m > USERTOP \/ m < o \/ i * PGSIZE >= m
            /\ todo'[p] = <<e>> /\ TablesStay(p)
            /\ local'[p].sz = IF m > USERTOP THEN 0 ELSE IF m < o THEN o ELSE m
            /\ panic' = panic
         \/ /\ ~(m > USERTOP \/ m < o \/ i * PGSIZE >= m)
            /\ \/ /\ todo'[p] = <<<<"deallocuvm", "own", m, PageUp(o)>>, e>> /\ TablesStay(p)
                  /\ local'[p].sz = 0 /\ panic' = panic
               \/ Still(p) /\ i \in Mapped(Tables[p]["own"])
               \/ /\ todo'[p] = <<<<"allocuvm", "own", o, m, i + 1>>, e>>
                  /\ local'[p].sz = local[p].sz
                  /\ AddedOwn(p, i, "zero")
                  /\ panic' = panic
  <2>1. "own" \in {"own", "new"} /\ todo[p] = <<<<"allocuvm", "own", o, m, i>>, e>>
    BY <1>2 DEF o, m, e
  <2> QED
    BY <1>3, <2>1, AllocuvmDoes
<1>5. \A k \in Upages : k \in Nat
  BY Bounds
<1>6. CASE /\ m > USERTOP
           /\ todo'[p] = <<e>> /\ TablesStay(p) /\ local'[p].sz = 0 /\ panic' = panic
  <2>1. Backed(p) \/ Filled(Own(p), 0)
    BY <1>1, <1>2, <1>6, FilledBacked DEF m
  <2>2. Grew(p)'
    BY <1>2, <1>4, <1>6, <2>1 DEF Grew, e, TablesStay, Backed, Filled, Mapped
  <2> QED
    BY <1>4, <1>6, <2>2 DEF Moves, TablesStay, Stage
<1>7. CASE /\ ~(m > USERTOP) /\ i * PGSIZE >= m
           /\ todo'[p] = <<e>> /\ TablesStay(p) /\ local'[p].sz = m /\ panic' = panic
  <2>1. i = PageUp(m)
    BY <1>2, <1>3, <1>7 DEF m
  <2>2. Filled(Own(p)', PageUp(m)) /\ m <= USERTOP
    BY <1>1, <1>2, <1>3, <1>7, <2>1 DEF Filled, Mapped, TablesStay
  <2>3. Grew(p)'
    BY <1>2, <1>3, <1>7, <2>2 DEF Grew, Filled, e
  <2> QED
    BY <1>4, <1>7, <2>3 DEF Moves, TablesStay, Stage
<1>8. CASE /\ ~(m > USERTOP) /\ TablesStay(p)
           /\ todo'[p] = <<<<"deallocuvm", "own", m, PageUp(o)>>, e>>
           /\ local'[p].sz = 0 /\ panic' = panic
  <2>1. Kept(p, g)' = PageUp(o)
    BY <1>2, <1>4 DEF Kept, o
  <2>2. m \in 0..USERTOP /\ PageUp(o) \in Nat /\ g \in Int \ {0} /\ g > 0
    BY <1>1, <1>2, <1>3, <1>8 DEF o
  <2>3. /\ {k \in Upages : k < PageUp(o)} \subseteq Mapped(Own(p))
        /\ Mapped(Own(p)) \subseteq {k \in Upages : k < PageUp(o) \/ (PageUp(o) <= k /\ k < PageUp(m))}
    BY <1>2, <1>3, <1>5, <2>2 DEF Filled, o, m
  <2>4. Mapped(Own(p))' = Mapped(Own(p))
    BY <1>8 DEF Mapped, TablesStay
  <2>5. Shrinking(p)'
    BY <1>8, <2>1, <2>2, <2>3, <2>4, Bounds DEF Shrinking, e
  <2> QED
    BY <1>4, <1>8, <2>5 DEF Moves, TablesStay, Stage
<1>9. CASE i \in Mapped(Tables[p]["own"])
  BY <1>2, <1>9, TablesAre DEF Filled
<1>10. CASE /\ ~(m > USERTOP \/ i * PGSIZE >= m)
            /\ todo'[p] = <<<<"allocuvm", "own", o, m, i + 1>>, e>>
            /\ AddedOwn(p, i, "zero") /\ panic' = panic
  <2>1. i + 1 \in Nat /\ PageUp(o) <= i + 1 /\ i + 1 <= PageUp(m)
    BY <1>1, <1>2, <1>3, <1>10 DEF o
  <2>2. Filled(Own(p)', i + 1) /\ i \in Upages
    <3>1. i \in Upages /\ Mapped(Own(p)') = Mapped(Own(p)) \cup {i}
      BY <1>10 DEF AddedOwn, Mapped
    <3> QED
      BY <1>2, <3>1, FilledMore
  <2>3. Filled(Own(p), i + 1)'
    BY <2>2 DEF Filled
  <2>4. Growing(p)'
    BY <1>1, <1>2, <1>4, <1>10, <2>1, <2>3 DEF Growing, o, m, e
  <2> QED
    BY <1>4, <1>10, <2>2, <2>4 DEF Moves, Stage
<1> QED
  BY <1>3, <1>4, <1>6, <1>7, <1>8, <1>9, <1>10

\* allocuvm() in exec() changes nothing in the memory that p has.
LEMMA AddingStage ==
  ASSUME NEW n \in Nat, Ownership(n), NEW p \in Procs, Adding(p), Allocuvm(p)
  PROVE  Moves(p, FALSE)
<1>1. /\ local[p].sz \in Nat /\ PageUp(local[p].sz) \in Nat /\ USERTOP \in Nat /\ PGSIZE \in Nat
      /\ local[p].prog \in Programs
  <2>1. InAllocuvm(p)
    BY StageTypes, Where DEF Allocuvm
  <2>2. PICK k \in Nat, i \in Nat :
          todo[p] = <<<<"allocuvm", "new", local[p].sz, EndOf(local[p].prog.segs[k]), i>>, <<"load", k>>>>
    BY DEF Adding
  <2>3. local[p].prog \in Programs
    BY <2>1, <2>2 DEF InAllocuvm, Built, Execing
  <2> QED
    BY <2>3, StageTypes, Bounds
<1> DEFINE prog == local[p].prog  o == local[p].sz  a == PageUp(local[p].sz)
<1>2. PICK k \in Nat \ {0}, i \in Nat :
        /\ Header(prog, k)
        /\ todo[p] = <<<<"allocuvm", "new", o, EndOf(prog.segs[k]), i>>, <<"load", k>>>>
        /\ a <= i /\ (i <= PageUp(EndOf(prog.segs[k])) \/ i = a)
        /\ EndOf(prog.segs[k]) > USERTOP => i = a
        /\ Tops(prog, k, a) /\ Loaded(p, k, i)
  BY DEF Adding
<1> DEFINE m == EndOf(prog.segs[k])  e == <<"load", k>>
<1>3. o \in Nat /\ a \in Nat /\ m \in Nat /\ PageUp(m) \in Nat
      /\ (i * PGSIZE >= m <=> i >= PageUp(m)) /\ (m < o => PageUp(m) <= a)
      /\ (~(m < o) => a <= PageUp(m))
  <2>1. m \in Nat /\ o \in Nat
    <3>1. k \in DOMAIN prog.segs
      BY <1>2 DEF Header
    <3> QED
      BY <1>1, <3>1, ProgIs
  <2> HIDE DEF m
  <2>2. (m < o => PageUp(m) <= a) /\ (~(m < o) => a <= PageUp(m))
    BY <2>1, PageUpGrows
  <2> QED
    BY <1>1, <2>1, <2>2, PageUpIs
<1>4. /\ \A r \in Procs : r # p => Still(r)
      /\ Size(p)' = Size(p) /\ local'[p].prog = prog
      /\ Own(p)' = Own(p) /\ Text(Own(p))' = Text(Own(p))
      /\ \/ /\ m > USERTOP \/ m < o \/ i * PGSIZE >= m
            /\ todo'[p] = <<e>> /\ TablesStay(p)
            /\ local'[p].sz = IF m > USERTOP THEN 0 ELSE IF m < o THEN o ELSE m
            /\ panic' = panic
         \/ /\ ~(m > USERTOP \/ m < o \/ i * PGSIZE >= m)
            /\ \/ /\ todo'[p] = <<<<"deallocuvm", "new", m, a>>, e>> /\ TablesStay(p)
                  /\ local'[p].sz = 0 /\ panic' = panic
               \/ Still(p) /\ i \in Mapped(Tables[p]["new"])
               \/ /\ todo'[p] = <<<<"allocuvm", "new", o, m, i + 1>>, e>>
                  /\ local'[p].sz = o
                  /\ AddedNew(p, i, "zero")
                  /\ panic' = panic
  <2> HIDE DEF m, e
  <2>1. "new" \in {"own", "new"} /\ "new" # "own" /\ todo[p] = <<<<"allocuvm", "new", o, m, i>>, e>>
    BY <1>2 DEF m, e
  <2> QED
    BY <1>3, <2>1, AllocuvmDoes
<1>5. Backed(p)'
  BY <1>4 DEF Adding, Backed, Filled, Mapped
<1>6. ASSUME todo'[p] = <<e>>, TablesStay(p), NEW s, local'[p].sz = s, s # 0 =>
             Tops(prog, k + 1, PageUp(s)) /\ Filled(New(p), PageUp(s)) /\ Loaded(p, k, PageUp(s))
      PROVE  AtLoad(p)'
  <2>1. s # 0 => Loaded(p, k, PageUp(s))'
    BY <1>4, <1>6 DEF Loaded, TablesStay, Filled, Mapped, TextOf
  <2> QED
    BY <1>2, <1>4, <1>5, <1>6, <2>1 DEF AtLoad
<1>7. CASE /\ m > USERTOP
           /\ todo'[p] = <<e>> /\ TablesStay(p) /\ local'[p].sz = 0 /\ panic' = panic
  BY <1>4, <1>6, <1>7 DEF Moves, Stage
<1>8. CASE /\ ~(m > USERTOP) /\ m < o
           /\ todo'[p] = <<e>> /\ TablesStay(p) /\ local'[p].sz = o /\ panic' = panic
  <2>1. i = a
    BY <1>2, <1>3, <1>8
  <2>2. Tops(prog, k + 1, a)
    <3>1. ASSUME NEW j \in DOMAIN prog.segs, j < k + 1
          PROVE  PageUp(EndOf(prog.segs[j])) <= a
      <4>1. j \in Nat /\ (j < k \/ j = k)
        BY <1>1, <1>2, <3>1, ProgIs
      <4> QED
        BY <1>2, <1>3, <1>8, <4>1 DEF Tops, Header
    <3>2. \A j \in DOMAIN prog.segs : j < k => j < k + 1
      BY <1>1, <1>2, ProgIs
    <3> QED
      BY <1>2, <3>1, <3>2 DEF Tops
  <2>3. AtLoad(p)'
    BY <1>2, <1>6, <1>8, <2>1, <2>2 DEF Loaded
  <2> QED
    BY <1>4, <1>8, <2>3 DEF Moves, Stage
<1>9. CASE /\ ~(m > USERTOP) /\ ~(m < o) /\ i * PGSIZE >= m
           /\ todo'[p] = <<e>> /\ TablesStay(p) /\ local'[p].sz = m /\ panic' = panic
  <2>1. i = PageUp(m)
    BY <1>2, <1>3, <1>9
  <2>2. Tops(prog, k + 1, PageUp(m))
    <3>1. ASSUME NEW j \in DOMAIN prog.segs, j < k + 1
          PROVE  PageUp(EndOf(prog.segs[j])) <= PageUp(m)
      <4>1. j \in Nat /\ (j < k \/ j = k)
        BY <1>1, <1>2, <3>1, ProgIs
      <4>2. CASE j < k
        <5>1. PageUp(EndOf(prog.segs[j])) <= a /\ PageUp(EndOf(prog.segs[j])) \in Nat
          <6>1. EndOf(prog.segs[j]) \in Nat
            BY <1>1, ProgIs
          <6> QED
            BY <1>2, <4>2, <6>1, PageUpIs DEF Tops
        <5> QED
          BY <1>2, <1>3, <1>9, <4>2, <5>1 DEF Tops
      <4>3. CASE j = k
        BY <1>2, <1>3, <4>3 DEF Header
      <4> QED
        BY <4>1, <4>2, <4>3
    <3>2. k \in DOMAIN prog.segs /\ k < k + 1
      BY <1>2 DEF Header
    <3> QED
      BY <3>1, <3>2 DEF Tops
  <2>3. AtLoad(p)'
    BY <1>2, <1>6, <1>9, <2>1, <2>2 DEF Loaded
  <2> QED
    BY <1>4, <1>9, <2>3 DEF Moves, Stage
<1>10. CASE /\ ~(m > USERTOP) /\ TablesStay(p)
            /\ todo'[p] = <<<<"deallocuvm", "new", m, a>>, e>>
            /\ local'[p].sz = 0 /\ panic' = panic
  <2>1. m \in 0..USERTOP /\ e \in Loads
    BY <1>1, <1>2, <1>3, <1>10 DEF Loads
  <2>2. Emptying(p)'
    BY <1>3, <1>5, <1>10, <2>1, Bounds DEF Emptying
  <2> QED
    BY <1>4, <1>10, <2>2 DEF Moves, Stage
<1>11. CASE i \in Mapped(Tables[p]["new"])
  BY <1>2, <1>11, TablesAre DEF Loaded, Filled
<1>12. CASE /\ ~(m > USERTOP \/ i * PGSIZE >= m)
            /\ todo'[p] = <<<<"allocuvm", "new", o, m, i + 1>>, e>> /\ local'[p].sz = o
            /\ AddedNew(p, i, "zero") /\ panic' = panic
  <2>1. i + 1 \in Nat /\ a <= i + 1 /\ i + 1 <= PageUp(m)
    BY <1>2, <1>3, <1>12
  <2>2. Loaded(p, k, i + 1)'
    BY <1>1, <1>2, <1>3, <1>4, <1>12, LoadedMore DEF AddedNew
  <2>3. Adding(p)'
    BY <1>2, <1>4, <1>5, <1>12, <2>1, <2>2 DEF Adding
  <2> QED
    BY <1>4, <1>12, <2>3 DEF Moves, Stage
<1> HIDE DEF m, e
<1> QED
  BY <1>4, <1>7, <1>8, <1>9, <1>10, <1>11, <1>12

\* For the page of the stack.
LEMMA StackingStage ==
  ASSUME NEW n \in Nat, Ownership(n), NEW p \in Procs, Stacking(p), Allocuvm(p)
  PROVE  Moves(p, FALSE)
<1>1. /\ local[p].sz \in Nat /\ PageUp(local[p].sz) \in Nat /\ USERTOP \in Nat /\ PGSIZE \in Nat \ {0}
      /\ local[p].prog \in Programs
  <2>1. InAllocuvm(p)
    BY StageTypes, Where DEF Allocuvm
  <2>2. PICK o, m, i : todo[p] = <<<<"allocuvm", "new", o, m, i>>, <<"commit">>>>
    BY DEF Stacking
  <2>3. local[p].prog \in Programs
    BY <2>1, <2>2 DEF InAllocuvm, Built, Execing
  <2> QED
    BY <2>3, StageTypes, Bounds
<1> DEFINE prog == local[p].prog  a == PageUp(local[p].sz)
           o == a * PGSIZE  m == a * PGSIZE + PGSIZE  e == <<"commit">>
<1>2. PICK k \in Nat \ {0}, i \in Nat :
        /\ todo[p] = <<<<"allocuvm", "new", o, m, i>>, e>>
        /\ k \notin DOMAIN prog.segs /\ i \in {a, a + 1} /\ (m > USERTOP => i = a)
        /\ Tops(prog, k, a) /\ Loaded(p, k, i)
  BY DEF Stacking
<1>3. o \in Nat /\ a \in Nat /\ m \in Nat /\ PageUp(o) = a /\ PageUp(m) = a + 1 /\ ~(m < o)
      /\ (i * PGSIZE >= m <=> i >= PageUp(m)) /\ m # 0
  <2>1. o \in Nat /\ a \in Nat /\ PageUp(o) = a /\ PageUp(m) = a + 1
    BY <1>1, PageUpWhole
  <2>2. m \in Nat /\ ~(m < o) /\ m # 0
    BY <1>1, <2>1
  <2> HIDE DEF m
  <2> QED
    BY <1>1, <2>1, <2>2, PageUpIs
<1>4. /\ \A r \in Procs : r # p => Still(r)
      /\ Size(p)' = Size(p) /\ local'[p].prog = prog
      /\ Own(p)' = Own(p) /\ Text(Own(p))' = Text(Own(p))
      /\ \/ /\ m > USERTOP \/ m < o \/ i * PGSIZE >= m
            /\ todo'[p] = <<e>> /\ TablesStay(p)
            /\ local'[p].sz = IF m > USERTOP THEN 0 ELSE IF m < o THEN o ELSE m
            /\ panic' = panic
         \/ /\ ~(m > USERTOP \/ m < o \/ i * PGSIZE >= m)
            /\ \/ /\ todo'[p] = <<<<"deallocuvm", "new", m, PageUp(o)>>, e>> /\ TablesStay(p)
                  /\ local'[p].sz = 0 /\ panic' = panic
               \/ Still(p) /\ i \in Mapped(Tables[p]["new"])
               \/ /\ todo'[p] = <<<<"allocuvm", "new", o, m, i + 1>>, e>>
                  /\ local'[p].sz = local[p].sz
                  /\ AddedNew(p, i, "zero")
                  /\ panic' = panic
  <2> HIDE DEF o, m, e
  <2>1. "new" \in {"own", "new"} /\ "new" # "own" /\ todo[p] = <<<<"allocuvm", "new", o, m, i>>, e>>
    BY <1>2
  <2> QED
    BY <1>3, <2>1, AllocuvmDoes
<1>5. Backed(p)'
  BY <1>4 DEF Stacking, Backed, Filled, Mapped
<1>6. CASE /\ m > USERTOP
           /\ todo'[p] = <<e>> /\ TablesStay(p) /\ local'[p].sz = 0 /\ panic' = panic
  <2>1. AtCommit(p)'
    BY <1>5, <1>6 DEF AtCommit
  <2> QED
    BY <1>4, <1>6, <2>1 DEF Moves, Stage
<1>7. CASE /\ ~(m > USERTOP) /\ i * PGSIZE >= m
           /\ todo'[p] = <<e>> /\ TablesStay(p) /\ local'[p].sz = m /\ panic' = panic
  <2>1. i = a + 1
    BY <1>2, <1>3, <1>7
  <2>2. a < UPAGES
    <3> HIDE DEF m
    <3>1. m <= USERTOP
      BY <1>1, <1>3, <1>7
    <3>2. PageUp(m) <= UPAGES
      BY <1>3, <3>1, PageUpTop
    <3> QED
      BY <1>3, <3>2, Bounds
  <2>3. Loaded(p, k, a + 1)
    BY <1>2, <2>1
  <2> HIDE DEF a
  <2>4. Filled(New(p)', a + 1)
    BY <1>7, <2>3 DEF Loaded, Filled, Mapped, TablesStay
  <2>5. \A j \in Upages : j < a + 1 =>
           Text(New(p))'[j] = IF j \in TextOf(local'[p].prog, k) THEN "text" ELSE "zero"
    BY <1>4, <1>7, <2>3 DEF Loaded, TablesStay
  <2>6. Filled(New(p)', a + 1) /\ a \in Nat /\ Tops(local'[p].prog, k, a)
    BY <1>2, <1>3, <1>4, <2>4
  <2>7. AtCommit(p)'
    BY <1>2, <1>3, <1>4, <1>5, <1>7, <2>2, <2>5, <2>6 DEF AtCommit, Loaded, Filled
  <2> QED
    BY <1>4, <1>7, <2>7 DEF Moves, Stage
<1>8. CASE /\ ~(m > USERTOP) /\ TablesStay(p)
           /\ todo'[p] = <<<<"deallocuvm", "new", m, PageUp(o)>>, e>>
           /\ local'[p].sz = 0 /\ panic' = panic
  <2>1. m \in 0..USERTOP /\ e \in Loads /\ PageUp(o) \in Nat
    BY <1>1, <1>3, <1>8 DEF Loads
  <2> HIDE DEF m, o
  <2>2. Emptying(p)'
    BY <1>5, <1>8, <2>1, Bounds DEF Emptying
  <2> QED
    BY <1>4, <1>8, <2>2 DEF Moves, Stage
<1>9. CASE i \in Mapped(Tables[p]["new"])
  BY <1>2, <1>9, TablesAre DEF Loaded, Filled
<1>10. CASE /\ ~(m > USERTOP \/ i * PGSIZE >= m)
            /\ todo'[p] = <<<<"allocuvm", "new", o, m, i + 1>>, e>> /\ local'[p].sz = local[p].sz
            /\ AddedNew(p, i, "zero") /\ panic' = panic
  <2>1. i = a
    BY <1>2, <1>3, <1>10
  <2>2. Loaded(p, k, i + 1)'
    BY <1>1, <1>2, <1>3, <1>4, <1>10, LoadedMore DEF AddedNew
  <2>3. Stacking(p)'
    BY <1>2, <1>4, <1>5, <1>10, <2>1, <2>2 DEF Stacking
  <2> QED
    BY <1>4, <1>10, <2>3 DEF Moves, Stage
<1> HIDE DEF m, e, o
<1> QED
  BY <1>3, <1>4, <1>6, <1>7, <1>8, <1>9, <1>10

\* The page at j is given back.
DroppedOwn(p, j) ==
  /\ Mapped(Own(p))' = Mapped(Own(p)) \ {j}
  /\ Text(Own(p))' = [i \in Mapped(Own(p)) \ {j} |-> Text(Own(p))[i]]

\* What deallocuvm() does.
LEMMA DeallocuvmDoes ==
  ASSUME NEW n \in Nat, Ownership(n), NEW p \in Procs, Deallocuvm(p),
         NEW w \in Which, NEW o \in Nat, o <= USERTOP, NEW j \in Nat,
         Head(todo[p]) = <<"deallocuvm", w, o, j>>
  PROVE  /\ \A r \in Procs : r # p => Still(r)
         /\ Size(p)' = Size(p) /\ local'[p].prog = local[p].prog /\ local'[p].sz = local[p].sz
         /\ panic' = panic
         /\ w # "own" => Own(p)' = Own(p) /\ Text(Own(p))' = Text(Own(p))
         /\ \/ j * PGSIZE >= o /\ Then(p, <<>>) /\ TablesStay(p)
            \/ /\ ~(j * PGSIZE >= o) /\ j \in Upages
               /\ Then(p, <<<<"deallocuvm", w, o, j + 1>>>>)
               /\ w = "own" => DroppedOwn(p, j)
<1>1. Types /\ Accounted(n) /\ DOMAIN todo = Procs
  BY StageTypes
<1>2. /\ Arg(p, 2) = w /\ Arg(p, 3) = o /\ Arg(p, 4) = j
      /\ Pgdir(p, w) = Tables[p][w] /\ Tables[p][w] \in PgDirs
  BY <1>1, DirTypes DEF Arg, Tables
<1> DEFINE pd == Pgdir(p, w)
<1>3. CASE j * PGSIZE >= o
  <2>1. Then(p, <<>>) /\ NoPage /\ proc' = proc /\ local' = local /\ panic' = panic
    BY <1>2, <1>3, Zenon DEF Deallocuvm
  <2>2. \A r \in Procs : r # p => todo'[r] = todo[r]
    BY <1>1, <2>1, ThenIs
  <2>3. \A r \in Procs, v \in Which : Untouched(r, v)
    BY <2>1, ValueLeaves DEF NoPage
  <2>4. \A r \in Procs : r # p => Still(r)
    BY <2>1, <2>2, <2>3, OthersStill DEF Which
  <2>5. Own(p)' = Own(p) /\ New(p)' = New(p)
    BY <2>1 DEF Own, New
  <2>6. TablesStay(p)
    BY <2>3, <2>5, TextKept DEF TablesStay, Which
  <2> QED
    BY <1>3, <2>1, <2>4, <2>6 DEF TablesStay, Size
<1>4. CASE ~(j * PGSIZE >= o)
  <2> DEFINE pd2 == [pd EXCEPT !.user[j] = 0]
             S == {pd.user[j]} \ {0}
  <2>1. /\ Kfree(S) /\ SetPgdir(p, w, pd2) /\ Then(p, <<<<"deallocuvm", w, o, j + 1>>>>)
        /\ panic' = panic
    BY <1>2, <1>4, Zenon DEF Deallocuvm
  <2>2. j \in Upages
    BY <1>4, OnPage
  <2>3. S \subseteq PagesOf(Tables[p][w]) /\ S \subseteq Pages /\ S \subseteq 1..n
    <3>1. S \subseteq PagesOf(Tables[p][w])
      BY <1>2, <2>2 DEF PagesOf
    <3>2. S \subseteq Pages
      BY <1>2, <2>2 DEF PgDirs
    <3> QED
      BY <1>1, <3>1, <3>2, Installed
  <2>4. \A q \in Pages : value'[q] = IF q \in S THEN "junk" ELSE value[q]
    BY <1>1, <2>1, <2>3, KfreeIs
  <2>5. \A r \in Procs, v \in Which : r # p \/ v # w => Untouched(r, v)
    BY <1>1, <2>3, <2>4, TableLeaves
  <2>6. /\ pd2 \in PgDirs /\ pd2.user[j] = 0
        /\ \A i \in Upages : i # j => pd2.user[i] = pd.user[i]
    BY <1>2, <2>2 DEF PgDirs
  <2>7. /\ \A r \in Procs :
              /\ proc'[r].sz = proc[r].sz
              /\ r # p => proc'[r] = proc[r] /\ local'[r] = local[r]
        /\ local'[p].prog = local[p].prog /\ local'[p].sz = local[p].sz
        /\ Own(p)' = (IF w = "own" THEN pd2 ELSE Own(p))
    BY <1>1, <2>1, <2>6, SetPgdirIs
  <2>8. \A r \in Procs : r # p => todo'[r] = todo[r]
    BY <1>1, <2>1, ThenIs
  <2>9. \A r \in Procs : r # p => Still(r)
    BY <2>5, <2>7, <2>8, OthersStill DEF Which
  <2>10. w # "own" => Own(p)' = Own(p) /\ Text(Own(p))' = Text(Own(p))
    BY <2>5, <2>7, TextKept DEF Which
  <2>11. ASSUME w = "own" PROVE DroppedOwn(p, j)
    <3>1. pd = Own(p) /\ Own(p)' = pd2 /\ Own(p) = Tables[p]["own"]
      BY <1>2, <2>7, <2>11, TablesAre
    <3> HIDE DEF pd2
    <3>2. Mapped(pd2) = Mapped(Own(p)) \ {j} /\ Mapped(Own(p))' = Mapped(pd2)
      BY <2>6, <3>1 DEF Mapped
    <3>3. ASSUME NEW i \in Mapped(Own(p)) \ {j}
          PROVE  value'[pd2.user[i]] = value[Own(p).user[i]]
      <4>1. i \in Upages /\ Own(p).user[i] # 0 /\ pd2.user[i] = Own(p).user[i]
        BY <2>6, <3>1 DEF Mapped
      <4>2. Own(p).user[i] # Own(p).user[j]
        BY <1>1, <2>2, <3>1, <4>1, MappedOnce DEF Which
      <4>3. Own(p).user[i] \in Pages
        BY <1>1, <4>1, DirTypes DEF PgDirs
      <4> QED
        BY <2>4, <3>1, <4>1, <4>2, <4>3
    <3>4. Text(Own(p))' = [i \in Mapped(pd2) |-> value'[pd2.user[i]]]
      BY <3>1, <3>2 DEF Text
    <3> QED
      BY <3>2, <3>3, <3>4 DEF DroppedOwn, Text
  <2> HIDE DEF pd2
  <2> QED
    BY <1>4, <2>1, <2>2, <2>7, <2>9, <2>10, <2>11 DEF Size
<1> QED
  BY <1>3, <1>4

\* deallocuvm() in sbrk().
LEMMA ShrinkingStage ==
  ASSUME NEW n \in Nat, Ownership(n), NEW p \in Procs, Shrinking(p), Deallocuvm(p)
  PROVE  Moves(p, \E j \in Mapped(Own(p)) : DroppedOwn(p, j))
<1>1. PICK g \in Int \ {0}, o \in 0..USERTOP, j \in Nat :
        /\ todo[p] = <<<<"deallocuvm", "own", o, j>>, <<"grown", g>>>>
        /\ Kept(p, g) <= j /\ local[p].sz <= USERTOP /\ (g > 0 => local[p].sz = 0)
        /\ {i \in Upages : i < Kept(p, g)} \subseteq Mapped(Own(p))
        /\ Mapped(Own(p)) \subseteq
             {i \in Upages : i < Kept(p, g) \/ (j <= i /\ i < PageUp(o))}
  BY DEF Shrinking
<1>2. /\ Size(p) \in Nat /\ PageUp(Size(p)) \in Nat /\ local[p].sz \in Nat
      /\ PageUp(local[p].sz) \in Nat /\ DOMAIN todo = Procs
  BY StageTypes
<1>3. o \in Nat /\ o <= USERTOP /\ USERTOP \in Nat
  BY Bounds
<1>4. Head(todo[p]) = <<"deallocuvm", "own", o, j>>
  BY <1>1, Tails
<1>5. /\ \A r \in Procs : r # p => Still(r)
      /\ Size(p)' = Size(p) /\ local'[p].sz = local[p].sz
      /\ panic' = panic
      /\ \/ j * PGSIZE >= o /\ Then(p, <<>>) /\ TablesStay(p)
         \/ /\ ~(j * PGSIZE >= o) /\ j \in Upages
            /\ Then(p, <<<<"deallocuvm", "own", o, j + 1>>>>)
            /\ DroppedOwn(p, j)
  BY <1>3, <1>4, DeallocuvmDoes DEF Which
<1>6. Kept(p, g) \in Nat /\ Kept(p, g) = PageUp(IF g > 0 THEN Size(p) ELSE local[p].sz)
      /\ PageUp(o) \in Nat /\ (j * PGSIZE >= o => j >= PageUp(o))
  <2>1. PageUp(o) \in Nat /\ (j * PGSIZE >= o => j >= PageUp(o))
    BY <1>3, PageUpIs
  <2>2. Kept(p, g) = PageUp(IF g > 0 THEN Size(p) ELSE local[p].sz)
    BY DEF Kept
  <2>3. Kept(p, g) \in Nat
    <3>1. (IF g > 0 THEN Size(p) ELSE local[p].sz) \in {Size(p), local[p].sz}
      OBVIOUS
    <3> QED
      BY <1>2, <2>2, <3>1
  <2> QED
    BY <2>1, <2>2, <2>3, Zenon
<1>7. CASE j * PGSIZE >= o /\ Then(p, <<>>) /\ TablesStay(p)
  <2>1. todo'[p] = <<<<"grown", g>>>>
    BY <1>1, <1>2, <1>7, Goes
  <2>2. Filled(Own(p), Kept(p, g))
    <3>1. j >= PageUp(o) /\ PageUp(o) \in Nat
      BY <1>6, <1>7
    <3>2. \A i \in Upages : ~(j <= i /\ i < PageUp(o))
      BY <3>1, Bounds
    <3>3. Mapped(Own(p)) = {i \in Upages : i < Kept(p, g)}
      BY <1>1, <3>2
    <3> QED
      BY <3>3 DEF Filled
  <2>3. local[p].sz = 0 => Backed(p) \/ Filled(Own(p), 0)
    <3>1. CASE g > 0
      BY <1>2, <1>6, <2>2, <3>1, FilledBacked
    <3>2. CASE ~(g > 0)
      BY <1>6, <2>2, <3>2, PageUpWhole
    <3> QED
      BY <3>1, <3>2
  <2>4. local[p].sz # 0 => Filled(Own(p), PageUp(local[p].sz))
    BY <1>1, <1>6, <2>2
  <2>5. Grew(p)'
    BY <1>1, <1>5, <1>7, <2>1, <2>3, <2>4 DEF Grew, TablesStay, Backed, Filled, Mapped
  <2> QED
    BY <1>5, <1>7, <2>5 DEF Moves, TablesStay, Stage
<1>8. CASE /\ ~(j * PGSIZE >= o) /\ j \in Upages
           /\ Then(p, <<<<"deallocuvm", "own", o, j + 1>>>>) /\ DroppedOwn(p, j)
  <2>1. todo'[p] = <<<<"deallocuvm", "own", o, j + 1>>, <<"grown", g>>>>
    BY <1>1, <1>2, <1>8, Goes
  <2>2. Kept(p, g)' = Kept(p, g)
    BY <1>5 DEF Kept
  <2>3. j + 1 \in Nat /\ Kept(p, g) <= j + 1
    BY <1>1, <1>6
  <2>4. /\ {i \in Upages : i < Kept(p, g)} \subseteq Mapped(Own(p))'
        /\ Mapped(Own(p))' \subseteq
             {i \in Upages : i < Kept(p, g) \/ (j + 1 <= i /\ i < PageUp(o))}
    <3>1. Mapped(Own(p))' = Mapped(Own(p)) \ {j}
      BY <1>8 DEF DroppedOwn
    <3>2. \A i \in Upages : i \in Nat
      BY Bounds
    <3>3. \A i \in Upages : i < Kept(p, g) => i # j
      BY <1>1, <1>6, <3>2
    <3>4. \A i \in Upages : j <= i /\ i # j => j + 1 <= i
      BY <3>2
    <3> QED
      BY <1>1, <3>1, <3>3, <3>4
  <2>5. Shrinking(p)'
    BY <1>1, <1>5, <2>1, <2>2, <2>3, <2>4 DEF Shrinking
  <2>6. j \notin Mapped(Own(p)) => Text(Own(p))' = Text(Own(p))
    <3>1. Text(Own(p))' = [i \in Mapped(Own(p)) \ {j} |-> Text(Own(p))[i]]
      BY <1>8 DEF DroppedOwn
    <3>2. ASSUME j \notin Mapped(Own(p))
          PROVE  [i \in Mapped(Own(p)) \ {j} |-> Text(Own(p))[i]] = Text(Own(p))
      <4>1. Mapped(Own(p)) \ {j} = Mapped(Own(p))
        BY <3>2
      <4> QED
        BY <4>1 DEF Text
    <3> QED
      BY <3>1, <3>2
  <2> QED
    BY <1>5, <1>8, <2>5, <2>6 DEF Moves, Stage
<1> QED
  BY <1>5, <1>7, <1>8

\* deallocuvm() in exec(), when there is no memory for a segment or the stack.
LEMMA EmptyingStage ==
  ASSUME NEW n \in Nat, Ownership(n), NEW p \in Procs, Emptying(p), Deallocuvm(p)
  PROVE  Moves(p, FALSE)
<1>1. PICK o \in 0..USERTOP, j \in Nat, e \in Loads :
        todo[p] = <<<<"deallocuvm", "new", o, j>>, e>>
  BY DEF Emptying
<1>2. DOMAIN todo = Procs /\ o \in Nat /\ o <= USERTOP
  BY StageTypes, Bounds
<1>3. Head(todo[p]) = <<"deallocuvm", "new", o, j>>
  BY <1>1, Tails
<1>4. /\ \A r \in Procs : r # p => Still(r)
      /\ Size(p)' = Size(p) /\ local'[p].sz = local[p].sz /\ panic' = panic
      /\ Own(p)' = Own(p) /\ Text(Own(p))' = Text(Own(p))
      /\ Then(p, <<>>) \/ Then(p, <<<<"deallocuvm", "new", o, j + 1>>>>)
  BY <1>2, <1>3, DeallocuvmDoes DEF Which
<1>5. Backed(p)' /\ local'[p].sz = 0
  BY <1>4 DEF Emptying, Backed, Filled, Mapped
<1>6. CASE Then(p, <<>>)
  <2>1. todo'[p] = <<e>>
    BY <1>1, <1>2, <1>6, Goes
  <2>2. AtLoad(p)' \/ AtCommit(p)'
    BY <1>5, <2>1 DEF AtLoad, AtCommit, Loads
  <2> QED
    BY <1>4, <2>2 DEF Moves, Stage
<1>7. CASE Then(p, <<<<"deallocuvm", "new", o, j + 1>>>>)
  <2>1. todo'[p] = <<<<"deallocuvm", "new", o, j + 1>>, e>>
    BY <1>1, <1>2, <1>7, Goes
  <2>2. Emptying(p)'
    BY <1>5, <2>1, Bounds DEF Emptying
  <2> QED
    BY <1>4, <2>2 DEF Moves, Stage
<1> QED
  BY <1>4, <1>6, <1>7

\* deallocuvm() in freevm().
LEMMA UndoingStage ==
  ASSUME NEW n \in Nat, Ownership(n), NEW p \in Procs, Undoing(p), Deallocuvm(p)
  PROVE  Moves(p, FALSE)
<1>1. PICK w \in {"new", "old"} : \E e \in LastOf(w) :
        \/ \E j \in Nat : todo[p] = <<<<"deallocuvm", w, USERTOP, j>>, <<"freedir", w>>, e>>
        \/ todo[p] = <<<<"freedir", w>>, e>>
  BY DEF Undoing
<1>2. PICK e \in LastOf(w) :
        \/ \E j \in Nat : todo[p] = <<<<"deallocuvm", w, USERTOP, j>>, <<"freedir", w>>, e>>
        \/ todo[p] = <<<<"freedir", w>>, e>>
  BY <1>1
<1>3. PICK j \in Nat : todo[p] = <<<<"deallocuvm", w, USERTOP, j>>, <<"freedir", w>>, e>>
  <2>1. todo[p] # <<<<"freedir", w>>, e>>
    <3>1. Head(todo[p])[1] = "deallocuvm"
      BY DEF Deallocuvm, At
    <3> QED
      BY <3>1, Tails, Heads
  <2> QED
    BY <1>2, <2>1
<1>4. DOMAIN todo = Procs /\ USERTOP \in Nat /\ USERTOP <= USERTOP /\ w \in Which /\ w # "own"
  BY StageTypes, Bounds DEF Which
<1>5. Head(todo[p]) = <<"deallocuvm", w, USERTOP, j>>
  BY <1>3, Tails
<1>6. /\ \A r \in Procs : r # p => Still(r)
      /\ Size(p)' = Size(p) /\ panic' = panic
      /\ Own(p)' = Own(p) /\ Text(Own(p))' = Text(Own(p))
      /\ Then(p, <<>>) \/ Then(p, <<<<"deallocuvm", w, USERTOP, j + 1>>>>)
  BY <1>4, <1>5, DeallocuvmDoes
<1>7. Backed(p)'
  BY <1>6 DEF Undoing, Backed, Filled, Mapped
<1>8. todo'[p] = <<<<"freedir", w>>, e>>
      \/ todo'[p] = <<<<"deallocuvm", w, USERTOP, j + 1>>, <<"freedir", w>>, e>>
  BY <1>3, <1>4, <1>6, Goes
<1>9. \/ todo'[p] = <<<<"freedir", w>>, e>>
      \/ \E k \in Nat : todo'[p] = <<<<"deallocuvm", w, USERTOP, k>>, <<"freedir", w>>, e>>
  <2>1. j + 1 \in Nat
    OBVIOUS
  <2> QED
    BY <1>8, <2>1
<1>10. Undoing(p)'
  BY <1>7, <1>9 DEF Undoing
<1> QED
  BY <1>6, <1>10 DEF Moves, Stage

\* freevm(): the rest.
LEMMA FreedirQuiet ==
  ASSUME NEW n \in Nat, Ownership(n), NEW p \in Procs, Stage(p), Freedir(p)
  PROVE  Moves(p, FALSE)
<1>1. Types /\ Accounted(n) /\ DOMAIN todo = Procs /\ Undoing(p)
  BY StageTypes, StageAt DEF Freedir
<1>2. PICK w \in {"new", "old"} : \E e \in LastOf(w) :
        \/ \E j \in Nat : todo[p] = <<<<"deallocuvm", w, USERTOP, j>>, <<"freedir", w>>, e>>
        \/ todo[p] = <<<<"freedir", w>>, e>>
  BY <1>1 DEF Undoing
<1>3. PICK e \in LastOf(w) : todo[p] = <<<<"freedir", w>>, e>>
  <2>1. ASSUME NEW e, NEW j, todo[p] = <<<<"deallocuvm", w, USERTOP, j>>, <<"freedir", w>>, e>>
        PROVE  FALSE
    <3>1. Head(todo[p])[1] = "freedir"
      BY DEF Freedir, At
    <3> QED
      BY <2>1, <3>1, Tails, Heads
  <2> QED
    BY <1>2, <2>1
<1>4. w \in Which /\ w # "own" /\ Arg(p, 2) = w /\ Pgdir(p, w) = Tables[p][w]
      /\ Tables[p][w] \in PgDirs
  <2>1. w \in Which /\ w # "own"
    BY DEF Which
  <2>2. Head(todo[p]) = <<"freedir", w>>
    BY <1>3, Tails
  <2> QED
    BY <1>1, <2>1, <2>2, DirTypes DEF Arg, Tables
<1>5. Kfree(PagesOf(Tables[p][w])) /\ SetPgdir(p, w, NoDir) /\ Then(p, <<>>) /\ panic' = panic
  BY <1>4, Zenon DEF Freedir
<1>6. \A r \in Procs, v \in Which : r # p \/ v # w => Untouched(r, v)
  <2>1. PagesOf(Tables[p][w]) \subseteq Pages /\ PagesOf(Tables[p][w]) \subseteq 1..n
    <3>1. PagesOf(Tables[p][w]) \subseteq 1..n
      BY <1>1, <1>4, Installed
    <3>2. PagesOf(Tables[p][w]) \subseteq Pages
      BY <1>4 DEF PagesOf, PgDirs
    <3> QED
      BY <3>1, <3>2
  <2>2. \A q \in Pages : q \notin PagesOf(Tables[p][w]) => value'[q] = value[q]
    BY <1>1, <1>5, <2>1, KfreeIs
  <2> QED
    BY <1>1, <1>4, <2>2, TableLeaves
<1>7. /\ \A r \in Procs : /\ proc'[r].sz = proc[r].sz
                          /\ r # p => proc'[r] = proc[r] /\ local'[r] = local[r]
      /\ Own(p)' = Own(p) /\ (w = "new" => New(p)' = NoDir)
  BY <1>1, <1>4, <1>5, SetPgdirIs, DirTypes
<1>8. \A r \in Procs : r # p => todo'[r] = todo[r]
  BY <1>1, <1>5, ThenIs
<1>9. \A r \in Procs : r # p => Still(r)
  BY <1>6, <1>7, <1>8, OthersStill DEF Which
<1>10. Text(Own(p))' = Text(Own(p))
  BY <1>4, <1>6, <1>7, TextKept DEF Which
<1>11. Backed(p)' /\ todo'[p] = <<e>>
  <2>1. Backed(p)'
    BY <1>1, <1>7 DEF Undoing, Backed, Filled, Mapped, Size
  <2> QED
    BY <1>1, <1>3, <1>5, <2>1, Goes
<1>12. Stage(p)'
  <2>1. CASE w = "new" /\ e = <<"forked">>
    <3>1. New(p)'.dir = 0
      BY <1>1, <1>7, <2>1, DirTypes
    <3>2. ForkEnds(p)'
      BY <1>11, <2>1, <3>1 DEF ForkEnds, Copied
    <3> QED
      BY <3>2 DEF Stage
  <2>2. CASE e \in LastOf("old")
    BY <1>11, <2>2 DEF Ending, Stage
  <2>3. e \in LastOf("old") \/ (w = "new" /\ e = <<"forked">>)
    BY DEF LastOf
  <2> QED
    BY <2>1, <2>2, <2>3
<1> QED
  BY <1>5, <1>9, <1>10, <1>12 DEF Moves

\* allocuvm() and deallocuvm().
LEMMA AllocuvmMoves ==
  ASSUME NEW n \in Nat, Ownership(n), NEW p \in Procs, Stage(p), Allocuvm(p)
  PROVE  Moves(p, \E i \in Upages : AddedOwn(p, i, "zero"))
<1>1. Growing(p) \/ Adding(p) \/ Stacking(p)
  BY StageAt DEF Allocuvm
<1>2. CASE Growing(p)
  BY <1>2, GrowingStage
<1>3. CASE Adding(p) \/ Stacking(p)
  <2>1. Moves(p, FALSE)
    BY <1>3, AddingStage, StackingStage
  <2> QED
    BY <2>1 DEF Moves
<1> QED
  BY <1>1, <1>2, <1>3

\* deallocuvm() drops a page, or nothing that the program has.
LEMMA DeallocuvmMoves ==
  ASSUME NEW n \in Nat, Ownership(n), NEW p \in Procs, Stage(p), Deallocuvm(p)
  PROVE  Moves(p, \E j \in Mapped(Own(p)) : DroppedOwn(p, j))
<1>1. Shrinking(p) \/ Emptying(p) \/ Undoing(p)
  BY StageAt DEF Deallocuvm
<1>2. CASE Shrinking(p)
  BY <1>2, ShrinkingStage
<1>3. CASE Emptying(p) \/ Undoing(p)
  <2>1. Moves(p, FALSE)
    BY <1>3, EmptyingStage, UndoingStage
  <2> QED
    BY <2>1 DEF Moves
<1> QED
  BY <1>1, <1>2, <1>3

\* When p changes no page table, its own memory is what it was.
LEMMA NothingMoves ==
  ASSUME NEW p \in Procs, DOMAIN todo = Procs, value' = value, proc' = proc, local' = local,
         NEW s, Only(p, s) \/ Then(p, s)
  PROVE  /\ \A r \in Procs : r # p => Still(r)
         /\ TablesStay(p) /\ Size(p)' = Size(p) /\ (Backed(p) => Backed(p)')
<1>1. \A r \in Procs : r # p => todo'[r] = todo[r]
  BY ThenIs, OnlyIs
<1>2. \A r \in Procs, v \in Which : Untouched(r, v)
  BY ValueLeaves
<1>3. \A r \in Procs : r # p => Still(r)
  BY <1>1, <1>2, OthersStill DEF Which
<1>4. Own(p)' = Own(p) /\ New(p)' = New(p) /\ Size(p)' = Size(p)
  BY DEF Own, New, Size
<1>5. TablesStay(p)
  BY <1>2, <1>4, TextKept DEF TablesStay, Which
<1> QED
  BY <1>3, <1>4, <1>5 DEF Backed, Filled, Mapped

\* copyuvm().
LEMMA CopyuvmMoves ==
  ASSUME NEW n \in Nat, Ownership(n), NEW p \in Procs, Stage(p), Copyuvm(p)
  PROVE  Moves(p, FALSE)
<1>1. Types /\ Accounted(n) /\ DOMAIN todo = Procs /\ Copying(p) /\ Size(p) \in Nat
      /\ Size(p) <= USERTOP /\ PageUp(Size(p)) \in Nat
  BY StageTypes, StageAt DEF Copyuvm
<1>2. PICK i \in Nat : /\ todo[p] = <<<<"copyuvm", i>>, <<"forked">>>>
                       /\ i <= PageUp(Size(p)) /\ Copied(p, i)
  BY <1>1 DEF Copying
<1>3. Arg(p, 2) = i
  BY <1>2, Tails, Heads DEF Arg
<1>4. Backed(p) /\ (i * PGSIZE >= Size(p) <=> i >= PageUp(Size(p)))
  BY <1>1, PageUpIs DEF Copying
<1> DEFINE from == Own(p).user[i]
<1>5. CASE New(p).dir = 0 \/ i * PGSIZE >= Size(p)
  <2>1. Then(p, <<>>) /\ NoPage /\ local' = local /\ panic' = panic /\ proc' = proc
    BY <1>3, <1>5, Zenon DEF Copyuvm, Size
  <2>2. todo'[p] = <<<<"forked">>>>
    BY <1>1, <1>2, <2>1, Goes
  <2>3. /\ \A r \in Procs : r # p => Still(r)
        /\ TablesStay(p) /\ Size(p)' = Size(p) /\ Backed(p)'
    BY <1>1, <1>4, <2>1, NothingMoves DEF NoPage
  <2>4. New(p).dir # 0 => i = PageUp(Size(p))
    BY <1>1, <1>2, <1>4, <1>5
  <2>5. New(p).dir # 0 => Copied(p, PageUp(Size(p)))
    BY <1>2, <2>4
  <2>6. Copied(p, PageUp(Size(p)))'
    BY <2>3, <2>5 DEF Copied, Filled, Mapped, TablesStay
  <2>7. ForkEnds(p)'
    BY <2>2, <2>3, <2>6 DEF ForkEnds
  <2> QED
    BY <2>1, <2>3, <2>7 DEF Moves, Stage, TablesStay
<1>6. ASSUME New(p).dir # 0, ~(i * PGSIZE >= Size(p)) PROVE i \in Mapped(Own(p)) /\ i \in Upages
  <2>1. i < PageUp(Size(p))
    BY <1>1, <1>4, <1>6
  <2>2. i \in Upages
    BY <1>1, <1>6, OnPage
  <2> QED
    BY <1>4, <2>1, <2>2 DEF Backed, Filled
<1>7. CASE ~(New(p).dir = 0 \/ i * PGSIZE >= Size(p)) /\ free = {}
  <2>0. from # 0
    BY <1>6, <1>7 DEF Mapped
  <2>1. Then(p, Freevm("new")) /\ NoPage /\ local' = local /\ panic' = panic /\ proc' = proc
    BY <1>3, <1>7, <2>0, Zenon DEF Copyuvm, Size, Own
  <2>2. todo'[p] = <<<<"deallocuvm", "new", USERTOP, 0>>, <<"freedir", "new">>, <<"forked">>>>
    <3>1. Tail(todo[p]) = <<<<"forked">>>>
      BY <1>2, Tails
    <3>2. Freevm("new") \o <<<<"forked">>>>
          = <<<<"deallocuvm", "new", USERTOP, 0>>, <<"freedir", "new">>, <<"forked">>>>
      BY FreevmIs
    <3> HIDE DEF from
    <3>3. todo'[p] = Freevm("new") \o <<<<"forked">>>>
      BY <1>1, <2>1, <3>1, ThenIs
    <3> QED
      BY <3>2, <3>3
  <2>3. /\ \A r \in Procs : r # p => Still(r)
        /\ TablesStay(p) /\ Size(p)' = Size(p) /\ Backed(p)'
    BY <1>1, <1>4, <2>1, NothingMoves DEF NoPage
  <2>4. <<"forked">> \in LastOf("new") /\ 0 \in Nat
    BY DEF LastOf
  <2>5. Undoing(p)'
    BY <2>2, <2>3, <2>4 DEF Undoing
  <2> QED
    BY <2>1, <2>3, <2>5 DEF Moves, Stage, TablesStay
<1>8. CASE ~(New(p).dir = 0 \/ i * PGSIZE >= Size(p)) /\ free # {}
  <2>0. from # 0 /\ i \in Upages /\ i \in Mapped(Own(p))
    BY <1>6, <1>8 DEF Mapped
  <2> DEFINE pd2 == [New(p) EXCEPT !.user[i] = Page]
  <2>1. /\ Kalloc(Copy(value[from])) /\ SetNew(p, pd2)
        /\ Then(p, <<<<"copyuvm", i + 1>>>>) /\ panic' = panic /\ proc' = proc
    BY <1>3, <1>8, <2>0, Zenon DEF Copyuvm, Size, Own
  <2>2. todo'[p] = <<<<"copyuvm", i + 1>>, <<"forked">>>>
    BY <1>1, <1>2, <2>1, Goes
  <2>3. Page \in Pages /\ Page # 0 /\ \A r \in Procs, v \in Which : Untouched(r, v)
    BY <1>1, <1>8, <2>1, KallocIs, KallocLeaves
  <2>4. New(p) \in PgDirs /\ pd2 \in PgDirs /\ pd2.dir = New(p).dir
    BY <1>1, <2>0, <2>3, DirTypes DEF PgDirs
  <2>5. SetPgdir(p, "new", pd2)
    BY <2>1, SetNewIs
  <2> HIDE DEF pd2
  <2>6. /\ \A r \in Procs : /\ proc'[r].sz = proc[r].sz
                            /\ r # p => proc'[r] = proc[r] /\ local'[r] = local[r]
        /\ New(p)' = pd2 /\ Own(p)' = Own(p)
    BY <1>1, <2>4, <2>5, SetPgdirIs DEF Which
  <2>7. \A r \in Procs : r # p => todo'[r] = todo[r]
    BY <1>1, <2>1, ThenIs
  <2>8. \A r \in Procs : r # p => Still(r)
    BY <2>3, <2>6, <2>7, OthersStill DEF Which
  <2>9. Text(Own(p))' = Text(Own(p)) /\ Backed(p)'
    BY <1>4, <2>3, <2>6, TextKept DEF Which, Backed, Filled, Mapped, Size
  <2>10. AddedNew(p, i, Copy(value[from]))
    <3>1. Tables[p]["new"] = New(p) /\ New(p).user[i] = 0
      BY <1>2, <1>8, <2>0, TablesAre DEF Copied, Filled, Mapped
    <3>2. pd2 = [Tables[p]["new"] EXCEPT !.user[i] = Page]
      BY <3>1 DEF pd2
    <3> QED
      BY <1>1, <1>8, <2>0, <2>1, <2>6, <3>1, <3>2, PageAdded
  <2>11. Copied(p, i + 1)'
    <3>1. Filled(New(p)', i + 1)
      <4>1. Mapped(New(p)') = Mapped(New(p)) \cup {i}
        BY <2>10 DEF AddedNew, Mapped
      <4> QED
        BY <1>2, <1>8, <2>0, <4>1, FilledMore DEF Copied
    <3>2. ASSUME NEW j \in Upages, j < i + 1
          PROVE  Text(New(p))'[j] = Text(Own(p))[j]
      <4>1. j \in Nat /\ (j < i \/ j = i)
        BY <3>2, Bounds
      <4>2. CASE j < i
        <5>1. j \in Mapped(New(p)) /\ j # i
          BY <1>2, <1>8, <4>1, <4>2 DEF Copied, Filled
        <5> QED
          BY <1>2, <1>8, <2>10, <4>2, <5>1 DEF Copied, AddedNew
      <4>3. CASE j = i
        <5>1. Text(New(p))'[i] = value[from]
          BY <2>10 DEF AddedNew, Copy
        <5>2. Text(Own(p))[i] = value[from]
          BY <2>0 DEF Text
        <5> QED
          BY <4>3, <5>1, <5>2
      <4> QED
        BY <4>1, <4>2, <4>3
    <3> QED
      BY <2>9, <3>1, <3>2 DEF Copied, Filled
  <2>12. i + 1 \in Nat /\ i + 1 <= PageUp(Size(p))' /\ Size(p)' = Size(p)
    BY <1>1, <1>4, <1>8, <2>6 DEF Size
  <2>13. Copying(p)'
    BY <2>2, <2>9, <2>11, <2>12 DEF Copying
  <2> QED
    BY <2>1, <2>8, <2>9, <2>13 DEF Moves, Stage
<1> QED
  BY <1>5, <1>7, <1>8

\* exec() at bad:.
LEMMA BadMoves ==
  ASSUME NEW p \in Procs, DOMAIN todo = Procs, Backed(p), Bad(p),
         value' = value, proc' = proc, local' = local, panic' = panic
  PROVE  Moves(p, FALSE)
<1>1. \E s : Only(p, s)
  BY DEF Bad
<1>2. /\ \A r \in Procs : r # p => Still(r)
      /\ Text(Own(p))' = Text(Own(p)) /\ Backed(p)'
  BY <1>1, NothingMoves DEF TablesStay
<1>3. CASE New(p).dir = 0
  <2>1. todo'[p] = <<<<"failed">>>>
    BY <1>3, OnlyIs, FreevmIs DEF Bad
  <2> QED
    BY <1>2, <2>1 DEF Moves, Stage, Ending, LastOf
<1>4. CASE New(p).dir # 0
  <2>1. todo'[p] = <<<<"deallocuvm", "new", USERTOP, 0>>, <<"freedir", "new">>, <<"failed">>>>
    BY <1>4, OnlyIs, FreevmIs DEF Bad
  <2>2. <<"failed">> \in LastOf("new") /\ 0 \in Nat
    BY DEF LastOf
  <2>3. Undoing(p)'
    BY <1>2, <2>1, <2>2 DEF Undoing
  <2> QED
    BY <1>2, <2>3 DEF Moves, Stage
<1> QED
  BY <1>3, <1>4

\* exec(): a program header, or the page for the stack.
LEMMA SegmentMoves ==
  ASSUME NEW n \in Nat, Ownership(n), NEW p \in Procs, Stage(p), Segment(p)
  PROVE  Moves(p, FALSE)
<1>1. DOMAIN todo = Procs /\ AtSegment(p) /\ local[p].sz \in Nat /\ PageUp(local[p].sz) \in Nat
      /\ local[p].prog \in Programs
  <2>1. InSegment(p)
    BY StageTypes, Where DEF Segment
  <2> QED
    BY <2>1, StageTypes, StageAt DEF Segment, InSegment, Execing
<1> DEFINE prog == local[p].prog  sz == local[p].sz  a == PageUp(local[p].sz)
<1>2. PICK k \in Nat \ {0} :
       /\ todo[p] = <<<<"segment", k>>>>
       /\ New(p).dir # 0 => Tops(prog, k, a) /\ Loaded(p, k, a)
  BY <1>1 DEF AtSegment
<1>3. Arg(p, 2) = k
  BY <1>2, Tails, Heads DEF Arg
<1>4. UNCHANGED <<free, value, proc, local, leaked, panic>>
  BY DEF Segment
<1> DEFINE bad == New(p).dir = 0 \/ (k \in DOMAIN prog.segs /\ prog.segs[k].memsz < prog.segs[k].filesz)
<1>5. CASE bad
  <2>1. Bad(p)
    BY <1>3, <1>5, Zenon DEF Segment
  <2> QED
    BY <1>1, <1>4, <2>1, BadMoves DEF AtSegment
<1>6. ASSUME NEW s, Then(p, s)
      PROVE  /\ \A r \in Procs : r # p => Still(r)
             /\ Backed(p)' /\ TablesStay(p)
  BY <1>1, <1>4, <1>6, NothingMoves DEF AtSegment
<1>7. ASSUME NEW s, Then(p, s), ~bad PROVE Loaded(p, k, a)'
  BY <1>2, <1>4, <1>6, <1>7 DEF Loaded, Filled, Mapped, TablesStay, TextOf
<1>8. CASE ~bad /\ k \in DOMAIN prog.segs
  <2> DEFINE s == AllocSteps("new", sz, EndOf(prog.segs[k])) \o <<<<"load", k>>>>
  <2>1. Then(p, s)
    BY <1>3, <1>8, Zenon DEF Segment
  <2>2. todo'[p] = <<<<"allocuvm", "new", sz, EndOf(prog.segs[k]), a>>, <<"load", k>>>>
    BY <1>1, <1>2, <2>1, Goes DEF AllocSteps, AllocFrom
  <2>3. Header(prog, k)
    BY <1>8 DEF Header
  <2> HIDE DEF s
  <2>4. Backed(p)' /\ Loaded(p, k, a)' /\ (\A r \in Procs : r # p => Still(r)) /\ TablesStay(p)
    BY <1>6, <1>7, <1>8, <2>1
  <2>5. a <= a /\ Tops(prog, k, a)
    BY <1>1, <1>2, <1>8
  <2>6. Adding(p)'
    BY <1>1, <1>2, <1>4, <2>2, <2>3, <2>4, <2>5 DEF Adding
  <2> QED
    BY <1>4, <2>4, <2>6 DEF Moves, Stage, TablesStay
<1>9. CASE ~bad /\ k \notin DOMAIN prog.segs
  <2> DEFINE s == AllocSteps("new", a * PGSIZE, a * PGSIZE + PGSIZE) \o <<<<"commit">>>>
  <2>1. Then(p, s)
    BY <1>3, <1>9, Zenon DEF Segment
  <2>2. todo'[p] = <<<<"allocuvm", "new", a * PGSIZE, a * PGSIZE + PGSIZE, a>>, <<"commit">>>>
    <3>1. PageUp(a * PGSIZE) = a
      BY <1>1, PageUpWhole
    <3> QED
      BY <1>1, <1>2, <2>1, <3>1, Goes DEF AllocSteps, AllocFrom
  <2> HIDE DEF s
  <2>4. Backed(p)' /\ Loaded(p, k, a)' /\ (\A r \in Procs : r # p => Still(r)) /\ TablesStay(p)
    BY <1>6, <1>7, <1>9, <2>1
  <2>5. a \in Nat /\ a \in {a, a + 1} /\ Tops(prog, k, a)
    BY <1>1, <1>2, <1>9
  <2>6. Stacking(p)'
    BY <1>2, <1>4, <1>9, <2>2, <2>4, <2>5 DEF Stacking
  <2> QED
    BY <1>4, <2>4, <2>6 DEF Moves, Stage, TablesStay
<1> HIDE DEF bad
<1> QED
  BY <1>5, <1>8, <1>9

\* Pages of the new page table that are filled with a value.
LEMMA FilledText ==
  ASSUME NEW n \in Nat, Types, Accounted(n), NEW p \in Procs, NEW S, S \subseteq Mapped(New(p)),
         NEW v, Fill(New(p), S, v)
  PROVE  /\ \A r \in Procs, w \in Which : r # p \/ w # "new" => Untouched(r, w)
         /\ \A i \in Mapped(New(p)) :
              value'[New(p).user[i]] = IF i \in S THEN v ELSE Text(New(p))[i]
<1>1. Tables[p]["new"] = New(p) /\ "new" \in Which /\ S \subseteq Upages /\ New(p) \in PgDirs
  BY TablesAre, DirTypes DEF Which, Mapped
<1>2. \A q \in Pages : value'[q] = IF q \in {New(p).user[i] : i \in S} THEN v ELSE value[q]
  BY DEF Fill
<1>3. \A q \in Pages : q \notin PagesOf(Tables[p]["new"]) => value'[q] = value[q]
  <2>1. \A i \in S : New(p).user[i] \in PagesOf(New(p))
    BY DEF PagesOf, Mapped
  <2> QED
    BY <1>1, <1>2, <2>1
<1>4. ASSUME NEW i \in Mapped(New(p))
      PROVE  value'[New(p).user[i]] = IF i \in S THEN v ELSE Text(New(p))[i]
  <2>1. i \in Upages /\ New(p).user[i] # 0 /\ New(p).user[i] \in Pages
    BY <1>1, <1>4 DEF Mapped, PgDirs
  <2>2. Text(New(p))[i] = value[New(p).user[i]]
    BY <1>4 DEF Text
  <2>3. CASE i \in S
    BY <1>2, <2>1, <2>3
  <2>4. CASE i \notin S
    <3>1. \A j \in S : New(p).user[j] # New(p).user[i]
      BY <1>1, <2>1, <2>4, MappedOnce
    <3> QED
      BY <1>2, <2>1, <2>2, <2>4, <3>1
  <2> QED
    BY <2>3, <2>4
<1> QED
  BY <1>1, <1>3, <1>4, TableLeaves

\* loaduvm(): the file's part of a segment.  It goes wrong only in ways that the
\* code does not check for.
LEMMA LoadMoves ==
  ASSUME NEW n \in Nat, Ownership(n), NEW p \in Procs, Stage(p), Load(p)
  PROVE  \/ Moves(p, FALSE)
         \/ panic' \in Unchecked /\ UNCHANGED <<free, value, proc, todo, local, leaked>>
<1>1. Types /\ Accounted(n) /\ DOMAIN todo = Procs /\ AtLoad(p) /\ local[p].sz \in Nat
      /\ PageUp(local[p].sz) \in Nat /\ local[p].prog \in Programs
  <2>1. InLoad(p)
    BY StageTypes, Where DEF Load
  <2> QED
    BY <2>1, StageTypes, StageAt DEF Load, InLoad, Built, Execing
<1> DEFINE prog == local[p].prog  sz == local[p].sz  a == PageUp(local[p].sz)
<1>2. PICK k \in Nat \ {0} :
       /\ todo[p] = <<<<"load", k>>>>
       /\ sz # 0 => Header(prog, k) /\ Tops(prog, k + 1, a) /\ Loaded(p, k, a)
  BY <1>1 DEF AtLoad
<1>3. Arg(p, 2) = k
  BY <1>2, Tails, Heads DEF Arg
<1> DEFINE seg == prog.segs[k]
<1>4. CASE Bad(p) /\ UNCHANGED <<value, panic>>
  <2>1. Bad(p) /\ UNCHANGED <<value, panic, proc, local>>
    BY <1>4, Zenon DEF Load
  <2> QED
    BY <1>1, <2>1, BadMoves DEF AtLoad
<1>5. CASE /\ panic' \in IF seg.va % PGSIZE # 0 THEN {"loaduvm: addr must be page aligned"}
                         ELSE {"loaduvm: address should exist", "loaduvm: stray write"}
           /\ UNCHANGED <<todo, value>>
  <2>1. UNCHANGED <<free, value, proc, todo, local, leaked>>
    BY <1>5, Zenon DEF Load
  <2> QED
    BY <1>5, <2>1 DEF Unchecked
<1>6. CASE /\ sz # 0 /\ seg.va % PGSIZE = 0 /\ Reaches(New(p), seg.va, seg.va + seg.filesz)
           /\ Fill(New(p), Span(seg.va, seg.va + seg.filesz), "text")
           /\ Then(p, <<<<"segment", k + 1>>>>) /\ UNCHANGED panic
  <2> DEFINE S == Span(seg.va, seg.va + seg.filesz)
  <2>1. /\ Fill(New(p), S, "text") /\ Then(p, <<<<"segment", k + 1>>>>)
        /\ panic' = panic /\ UNCHANGED <<free, proc, local, leaked>>
    BY <1>6, Zenon DEF Load
  <2>2. todo'[p] = <<<<"segment", k + 1>>>> /\ k + 1 \in Nat \ {0}
    BY <1>1, <1>2, <2>1, Goes
  <2>3. \A i \in S : i \in TextOf(prog, k + 1)
    BY <1>2, <1>6 DEF TextOf, Header, Span
  <2>4. S \subseteq Mapped(New(p))
    <3>1. seg.va \in Nat /\ seg.filesz \in Nat
      BY <1>1, <1>2, <1>6, ProgIs DEF Header
    <3> QED
      BY <1>6, <3>1, SpanReached
  <2>5. \A i \in TextOf(prog, k + 1) : i \in TextOf(prog, k) \/ i \in S
    <3> SUFFICES ASSUME NEW i \in TextOf(prog, k + 1) PROVE i \in TextOf(prog, k) \/ i \in S
      OBVIOUS
    <3>1. PICK j \in DOMAIN prog.segs :
            j < k + 1 /\ i \in Span(prog.segs[j].va, prog.segs[j].va + prog.segs[j].filesz)
      BY DEF TextOf
    <3>2. i \in Upages /\ (j < k \/ j = k)
      BY <1>1, <1>2, <3>1, ProgIs DEF TextOf
    <3> QED
      BY <3>1, <3>2 DEF TextOf
  <2>6. \A i \in TextOf(prog, k) : i \in TextOf(prog, k + 1)
    <3>1. \A j \in DOMAIN prog.segs : j < k => j < k + 1
      BY <1>1, <1>2, ProgIs
    <3> QED
      BY <3>1 DEF TextOf
  <2> HIDE DEF S
  <2>7. /\ \A r \in Procs, w \in Which : r # p \/ w # "new" => Untouched(r, w)
        /\ \A i \in Mapped(New(p)) :
              value'[New(p).user[i]] = IF i \in S THEN "text" ELSE Text(New(p))[i]
    BY <1>1, <2>1, <2>4, FilledText
  <2>8. \A r \in Procs : r # p => Still(r)
    <3>1. \A r \in Procs : r # p => todo'[r] = todo[r]
      BY <1>1, <2>1, ThenIs
    <3> QED
      BY <2>1, <2>7, <3>1, OthersStill DEF Which
  <2>9. Own(p)' = Own(p) /\ New(p)' = New(p) /\ Size(p)' = Size(p)
    BY <2>1 DEF Own, New, Size
  <2>10. Text(Own(p))' = Text(Own(p)) /\ Backed(p)'
    <3>1. Untouched(p, "own")
      BY <2>7 DEF Which
    <3> QED
      BY <1>1, <2>9, <3>1, TextKept DEF AtLoad, Backed, Filled, Mapped
  <2>11. Loaded(p, k + 1, a)'
    <3>1. Filled(New(p)', a) /\ Mapped(New(p)') = Mapped(New(p))
      BY <1>2, <1>6, <2>9 DEF Loaded, Filled, Mapped
    <3>2. ASSUME NEW i \in Upages, i < a
          PROVE  Text(New(p))'[i] = IF i \in TextOf(prog, k + 1) THEN "text" ELSE "zero"
      <4>1. i \in Mapped(New(p)) /\ Text(New(p))[i] = IF i \in TextOf(prog, k) THEN "text" ELSE "zero"
        BY <1>2, <1>6, <3>2 DEF Loaded, Filled
      <4>2. Text(New(p))'[i] = value'[New(p).user[i]]
        BY <2>9, <3>1, <4>1 DEF Text, Mapped
      <4> QED
        BY <2>3, <2>5, <2>6, <2>7, <4>1, <4>2
    <3>3. a' = a /\ TextOf(prog, k + 1)' = TextOf(prog, k + 1)
      BY <2>1 DEF TextOf
    <3>4. \A i \in TextOf(prog, k + 1) : i < a
      BY <1>2, <1>6, <2>4, <2>5 DEF Loaded, Filled
    <3> QED
      BY <3>1, <3>2, <3>3, <3>4 DEF Loaded, Filled
  <2>12. AtSegment(p)'
    BY <1>2, <1>6, <2>1, <2>2, <2>9, <2>10, <2>11 DEF AtSegment
  <2> QED
    BY <2>1, <2>8, <2>10, <2>12 DEF Moves, Stage
<1> QED
  BY <1>3, <1>4, <1>5, <1>6, Zenon DEF Load

\* The image of a program has the pages of its segments and one for the stack.
LEMMA ImageIs ==
  ASSUME NEW prog \in Programs, NEW k \in Nat \ {0}, k \notin DOMAIN prog.segs,
         NEW n \in Nat, Tops(prog, k, n)
  PROVE  ImageOf(prog) =
           [i \in 0..n |-> IF i \in Span((n + 1) * PGSIZE - prog.args, (n + 1) * PGSIZE) THEN "args"
                           ELSE IF i \in TextOf(prog, k) THEN "text" ELSE "zero"]
<1> DEFINE tops == {0} \cup {PageUp(EndOf(prog.segs[j])) : j \in DOMAIN prog.segs}
           text == UNION {Span(prog.segs[j].va, prog.segs[j].va + prog.segs[j].filesz) :
                            j \in DOMAIN prog.segs}
<1>1. \A j \in DOMAIN prog.segs : j < k
  <2>1. prog.segs \in Seq([va : Uints, memsz : Uints, filesz : Uints, short : BOOLEAN])
    BY MemoryAssumption
  <2>2. DOMAIN prog.segs = 1..Len(prog.segs) /\ Len(prog.segs) \in Nat
    BY <2>1
  <2> QED
    BY <2>2
<1>2. \A j \in DOMAIN prog.segs : PageUp(EndOf(prog.segs[j])) <= n
                                  /\ PageUp(EndOf(prog.segs[j])) \in Nat
  <2>1. \A j \in DOMAIN prog.segs : EndOf(prog.segs[j]) \in Nat
    BY ProgIs
  <2> QED
    BY <1>1, <2>1, PageUpIs DEF Tops
<1>3. n \in tops /\ tops \subseteq Nat /\ \A x \in tops : n >= x
  <2>1. n \in tops
    BY DEF Tops
  <2> QED
    BY <1>2, <2>1
<1>4. Max(tops) = n
  <2> HIDE DEF tops
  <2>1. \A x \in tops : (\A y \in tops : x >= y) => x = n
    BY <1>3
  <2> QED
    BY <1>3, <2>1 DEF Max
<1>5. \A i : i \in text <=> i \in TextOf(prog, k)
  BY <1>1 DEF TextOf, Span
<1> HIDE DEF tops, text
<1>6. ImageOf(prog) =
        [i \in 0..Max(tops) |->
            IF i \in Span((Max(tops) + 1) * PGSIZE - prog.args, (Max(tops) + 1) * PGSIZE) THEN "args"
            ELSE IF i \in text THEN "text" ELSE "zero"]
  BY DEF ImageOf, tops, text
<1> QED
  BY <1>4, <1>5, <1>6

\* exec(): the arguments are on the stack, and the new image replaces the old.
LEMMA CommitMoves ==
  ASSUME NEW n \in Nat, Ownership(n), NEW p \in Procs, Stage(p), Commit(p)
  PROVE  /\ \A r \in Procs : r # p => Still(r)
         /\ Stage(p)' /\ panic' = panic
         /\ \/ Text(Own(p))' = Text(Own(p))
            \/ /\ 0 \in Mapped(Own(p))
               /\ \E prog \in Programs : Text(Own(p))' = ImageOf(prog)
<1> DEFINE prog == local[p].prog  sz == local[p].sz  args == prog.args
<1>1. Types /\ Accounted(n) /\ DOMAIN todo = Procs /\ AtCommit(p) /\ sz \in Nat
      /\ prog \in Programs /\ args \in Nat /\ Backed(p)
  <2>1. InCommit(p)
    BY StageTypes, Where DEF Commit
  <2>2. prog \in Programs
    BY <2>1 DEF InCommit, Built, Execing
  <2>3. AtCommit(p) /\ Backed(p)
    BY StageAt DEF Commit, AtCommit
  <2> QED
    BY <2>2, <2>3, StageTypes, MemoryAssumption
<1>2. panic' = panic
  BY DEF Commit
<1>3. CASE sz = 0 \/ args > sz
  <2>1. Bad(p) /\ UNCHANGED <<value, proc, local>>
    BY <1>3, Zenon DEF Commit
  <2>2. Moves(p, FALSE)
    BY <1>1, <1>2, <2>1, BadMoves
  <2> QED
    BY <2>2 DEF Moves
<1>4. CASE ~(sz = 0 \/ args > sz)
  <2> DEFINE l == [NoLocal EXCEPT !.old = proc[p].pgdir]
             S == Span(sz - args, sz)
  <2>1. /\ Fill(New(p), S, "args")
        /\ proc' = [proc EXCEPT ![p].pgdir = New(p), ![p].sz = sz]
        /\ local' = [local EXCEPT ![p] = l]
        /\ Only(p, Freevm("old") \o <<<<"failed">>>>)
    BY <1>4 DEF Commit
  <2>2. PICK k \in Nat \ {0}, m \in Nat :
          /\ k \notin DOMAIN prog.segs
          /\ sz = m * PGSIZE + PGSIZE /\ m < UPAGES
          /\ Tops(prog, k, m) /\ Loaded(p, k, m + 1)
    BY <1>1, <1>4 DEF AtCommit
  <2>3. /\ PageUp(sz) = m + 1 /\ sz = (m + 1) * PGSIZE
        /\ \A i \in Upages : i < m + 1 <=> i \in 0..m
        /\ \A i \in 0..m : i \in Upages
    <3>1. PageUp(sz) = m + 1 /\ sz = (m + 1) * PGSIZE
      BY <2>2, PageUpWhole
    <3> HIDE DEF sz
    <3>2. \A i \in Nat : (i < m + 1 <=> i \in 0..m) /\ (i <= m => i < UPAGES)
      BY <2>2, Bounds
    <3>3. \A i \in 0..m : i \in Nat /\ i <= m
      BY <2>2
    <3> QED
      BY <3>1, <3>2, <3>3, Bounds
  <2>4. Mapped(New(p)) = 0..m
    BY <2>2, <2>3 DEF Loaded, Filled
  <2>5. S \subseteq Mapped(New(p))
    <3>1. sz - args \in Nat /\ sz <= sz
      BY <1>1, <1>4
    <3>2. \A i \in S : i \in Upages /\ i < PageUp(sz)
      BY <1>1, <3>1, SpanBelow
    <3> QED
      BY <2>3, <2>4, <3>2
  <2> HIDE DEF S
  <2>6. /\ \A r \in Procs, w \in Which : r # p \/ w # "new" => Untouched(r, w)
        /\ \A i \in Mapped(New(p)) :
              value'[New(p).user[i]] = IF i \in S THEN "args" ELSE Text(New(p))[i]
    BY <1>1, <2>1, <2>5, FilledText
  <2>7. /\ \A r \in Procs : r # p => proc'[r] = proc[r] /\ local'[r] = local[r]
        /\ Own(p)' = New(p) /\ Size(p)' = sz
    BY <1>1, <2>1 DEF Types, Own, Size
  <2>8. /\ todo'[p] = <<<<"deallocuvm", "old", USERTOP, 0>>, <<"freedir", "old">>, <<"failed">>>>
        /\ \A r \in Procs : r # p => todo'[r] = todo[r]
    BY <1>1, <2>1, OnlyIs, FreevmIs
  <2>9. \A r \in Procs : r # p => Still(r)
    BY <2>6, <2>7, <2>8, OthersStill DEF Which
  <2>10. Backed(p)'
    <3>1. Mapped(Own(p))' = 0..m
      BY <2>4, <2>7 DEF Mapped
    <3>2. {i \in Upages : i < m + 1} = 0..m /\ 0 \in 0..m
      BY <2>2, <2>3
    <3> QED
      BY <2>3, <2>7, <3>1, <3>2 DEF Backed, Filled
  <2>11. Undoing(p)'
    <3>1. <<"failed">> \in LastOf("old") /\ 0 \in Nat
      BY DEF LastOf
    <3> QED
      BY <2>8, <2>10, <3>1 DEF Undoing
  <2>12. Text(Own(p))' = ImageOf(prog)
    <3>1. Text(Own(p))' = [i \in Mapped(New(p)) |-> value'[New(p).user[i]]]
      BY <2>7 DEF Text, Mapped
    <3>2. \A i \in 0..m : value'[New(p).user[i]] =
            IF i \in S THEN "args" ELSE IF i \in TextOf(prog, k) THEN "text" ELSE "zero"
      <4> SUFFICES ASSUME NEW i \in 0..m
                   PROVE value'[New(p).user[i]] =
                         IF i \in S THEN "args" ELSE IF i \in TextOf(prog, k) THEN "text" ELSE "zero"
        OBVIOUS
      <4>1. i \in Mapped(New(p)) /\ i \in Upages /\ i < m + 1
        BY <2>3, <2>4
      <4>2. Text(New(p))[i] = IF i \in TextOf(prog, k) THEN "text" ELSE "zero"
        BY <2>2, <4>1 DEF Loaded
      <4> QED
        BY <2>6, <4>1, <4>2
    <3>3. ImageOf(prog) = [i \in 0..m |-> IF i \in S THEN "args"
                                          ELSE IF i \in TextOf(prog, k) THEN "text" ELSE "zero"]
      <4>1. S = Span((m + 1) * PGSIZE - args, (m + 1) * PGSIZE)
        BY <2>3 DEF S
      <4> QED
        BY <1>1, <2>2, <4>1, ImageIs
    <3> HIDE DEF prog
    <3> QED
      BY <2>4, <3>1, <3>2, <3>3
  <2>13. 0 \in Mapped(Own(p))
    BY <1>1 DEF Backed
  <2> QED
    BY <1>1, <1>2, <2>9, <2>11, <2>12, <2>13 DEF Stage
<1> QED
  BY <1>3, <1>4

\* A step that leaves all page tables of processes and all pages alone.
LEMMA MemoryStays ==
  ASSUME NEW p \in Procs, DOMAIN todo = Procs, NEW s, Only(p, s) \/ Then(p, s),
         \A r \in Procs, w \in Which : Untouched(r, w),
         \A r \in Procs : /\ proc'[r].pgdir = proc[r].pgdir
                          /\ r # p => proc'[r].sz = proc[r].sz /\ local'[r] = local[r]
  PROVE  /\ \A r \in Procs : r # p => Still(r)
         /\ Own(p)' = Own(p) /\ Text(Own(p))' = Text(Own(p))
         /\ proc'[p].sz = proc[p].sz => Size(p)' = Size(p) /\ (Backed(p) => Backed(p)')
<1>1. \A r \in Procs : r # p => todo'[r] = todo[r]
  BY ThenIs, OnlyIs
<1>2. \A r \in Procs : r # p => Still(r)
  BY <1>1, OthersStill DEF Which
<1>3. Own(p)' = Own(p) /\ Text(Own(p))' = Text(Own(p))
  BY TextKept DEF Own, Which
<1> QED
  BY <1>2, <1>3 DEF Backed, Filled, Mapped, Size

\* The end of growproc().
LEMMA GrownMoves ==
  ASSUME NEW n \in Nat, Ownership(n), NEW p \in Procs, Stage(p), Grown(p)
  PROVE  Quiet(p)
<1>1. Types /\ DOMAIN todo = Procs /\ Grew(p) /\ local[p].sz \in Nat /\ PageUp(local[p].sz) \in Nat
  BY StageTypes, StageAt DEF Grown
<1> DEFINE sz == local[p].sz
<1>2. PICK g \in Int :
        /\ todo[p] = <<<<"grown", g>>>>
        /\ IF g # 0 /\ sz = 0
           THEN Backed(p) \/ Filled(Own(p), 0)
           ELSE sz <= USERTOP /\ Filled(Own(p), PageUp(sz))
  BY <1>1 DEF Grew
<1>3. Arg(p, 2) = g
  BY <1>2, Tails, Heads DEF Arg
<1>4. /\ proc' = IF g # 0 /\ sz = 0 THEN proc ELSE [proc EXCEPT ![p].sz = sz]
      /\ local' = [local EXCEPT ![p] = NoLocal]
      /\ Then(p, <<>>) /\ value' = value
  BY <1>3 DEF Grown, Refused
<1>5. /\ \A r \in Procs : /\ proc'[r].pgdir = proc[r].pgdir
                          /\ r # p => proc'[r].sz = proc[r].sz /\ local'[r] = local[r]
      /\ Size(p)' = IF g # 0 /\ sz = 0 THEN Size(p) ELSE sz
  BY <1>1, <1>4 DEF Types, Size
<1>6. /\ \A r \in Procs : r # p => Still(r)
      /\ Own(p)' = Own(p) /\ Text(Own(p))' = Text(Own(p))
  <2>1. \A r \in Procs, w \in Which : Untouched(r, w)
    BY <1>4, ValueLeaves
  <2> QED
    BY <1>1, <1>4, <1>5, <2>1, MemoryStays
<1>7. todo'[p] = <<>>
  BY <1>1, <1>2, <1>4, Goes
<1>8. Backed(p)' \/ Filled(Own(p), 0)'
  <2>1. CASE g # 0 /\ sz = 0
    BY <1>2, <1>5, <1>6, <2>1 DEF Backed, Filled, Mapped
  <2>2. CASE ~(g # 0 /\ sz = 0)
    <3>1. Filled(Own(p)', PageUp(sz)) /\ Size(p)' = sz
      BY <1>2, <1>5, <1>6, <2>2
    <3>2. CASE PageUp(sz) = 0
      BY <3>1, <3>2 DEF Filled
    <3>3. CASE PageUp(sz) # 0
      <4>1. 0 \in Upages /\ 0 < PageUp(sz)
        BY <1>1, <3>3, Bounds
      <4> QED
        BY <3>1, <4>1 DEF Filled, Backed, Mapped
    <3> QED
      BY <3>2, <3>3
  <2> QED
    BY <2>1, <2>2
<1> QED
  BY <1>6, <1>7, <1>8 DEF Quiet, Stage, Idle

\* The end of a call that changed nothing of p.
LEMMA FailedMoves ==
  ASSUME NEW n \in Nat, Ownership(n), NEW p \in Procs, Stage(p), Failed(p)
  PROVE  Moves(p, FALSE)
<1>1. Types /\ DOMAIN todo = Procs /\ Ending(p)
  BY StageTypes, StageAt DEF Failed
<1>2. PICK e : todo[p] = <<e>>
  BY <1>1 DEF Ending
<1>3. /\ local' = [local EXCEPT ![p] = NoLocal] /\ proc' = proc
      /\ Then(p, <<>>) /\ value' = value /\ panic' = panic
  BY DEF Failed
<1>4. /\ \A r \in Procs : r # p => Still(r)
      /\ Text(Own(p))' = Text(Own(p)) /\ Backed(p)'
  <2>1. \A r \in Procs, w \in Which : Untouched(r, w)
    BY <1>3, ValueLeaves
  <2>2. \A r \in Procs : r # p => local'[r] = local[r]
    BY <1>1, <1>3 DEF Types
  <2> QED
    BY <1>1, <1>3, <2>1, <2>2, MemoryStays DEF Ending
<1>5. todo'[p] = <<>>
  BY <1>1, <1>2, <1>3, Goes
<1> QED
  BY <1>3, <1>4, <1>5 DEF Moves, Stage, Idle

\* A program that runs has the memory its size says.
LEMMA RunsBacked ==
  ASSUME NEW n \in Nat, Ownership(n), NEW p \in Procs, Stage(p), InUser(p)
  PROVE  /\ Types /\ Accounted(n) /\ Slots /\ DOMAIN todo = Procs /\ todo[p] = <<>>
         /\ Backed(p) /\ Clear(p) /\ proc[p].state = "live" /\ 0 \in Mapped(Own(p))
<1>1. /\ Types /\ Accounted(n) /\ Slots /\ DOMAIN todo = Procs
      /\ todo[p] = <<>> /\ Clear(p) /\ proc[p].state = "live" /\ 0 \in Mapped(Own(p))
  BY StageTypes, OutsideIs DEF InUser, Own
<1>2. Idle(p)
  BY <1>1, StageAt
<1>3. ~Filled(Own(p), 0)
  BY <1>1 DEF Filled
<1> QED
  BY <1>1, <1>2, <1>3 DEF Idle

\* sbrk().
LEMMA SbrkMoves ==
  ASSUME NEW n \in Nat, Ownership(n), NEW p \in Procs, Stage(p), NEW g \in Grows, Sbrk(p, g)
  PROVE  Moves(p, FALSE)
<1> DEFINE sz == Size(p)
           l == [NoLocal EXCEPT !.sz = IF sz + g < 0 THEN sz ELSE sz + g]
<1>1. /\ Types /\ DOMAIN todo = Procs /\ Backed(p) /\ g \in Int
      /\ sz \in Nat /\ sz <= USERTOP /\ PageUp(sz) \in Nat /\ USERTOP \in Nat
  BY RunsBacked, StageTypes, MemoryAssumption, Bounds DEF Sbrk
<1>2. /\ local' = [local EXCEPT ![p] = l] /\ proc' = proc /\ value' = value /\ panic' = panic
      /\ Only(p, IF g > 0 THEN AllocSteps("own", sz, sz + g) \o <<<<"grown", g>>>>
                 ELSE IF g < 0 /\ sz + g >= 0
                 THEN <<<<"deallocuvm", "own", sz, PageUp(sz + g)>>, <<"grown", g>>>>
                 ELSE <<<<"grown", g>>>>)
  BY DEF Sbrk, Size
<1>3. l.sz = IF sz + g < 0 THEN sz ELSE sz + g
  BY DEF NoLocal
<1> HIDE DEF l
<1>4. local'[p] = l /\ \A r \in Procs : r # p => local'[r] = local[r]
  BY <1>1, <1>2 DEF Types
<1>5. /\ \A r \in Procs : r # p => Still(r)
      /\ Text(Own(p))' = Text(Own(p)) /\ Own(p)' = Own(p) /\ Size(p)' = Size(p)
  <2>1. \A r \in Procs, w \in Which : Untouched(r, w)
    BY <1>2, ValueLeaves
  <2>2. \E s : Only(p, s)
    BY <1>2
  <2> QED
    BY <1>1, <1>2, <1>4, <2>1, <2>2, MemoryStays
<1>6. Mapped(Own(p)) = {i \in Upages : i < PageUp(sz)} /\ Mapped(Own(p))' = Mapped(Own(p))
      /\ Backed(p)'
  BY <1>1, <1>5 DEF Backed, Filled, Mapped
<1>7. \A i \in Upages : i \in Nat
  BY Bounds
<1>8. CASE g > 0
  <2>1. Only(p, AllocSteps("own", sz, sz + g) \o <<<<"grown", g>>>>)
    BY <1>2, <1>8
  <2>2. AllocSteps("own", sz, sz + g) \o <<<<"grown", g>>>>
        = <<<<"allocuvm", "own", sz, sz + g, PageUp(sz)>>, <<"grown", g>>>>
    BY Joined DEF AllocSteps, AllocFrom
  <2>3. todo'[p] = <<<<"allocuvm", "own", sz, sz + g, PageUp(sz)>>, <<"grown", g>>>>
    BY <1>1, <2>1, <2>2, OnlyIs
  <2>4. g \in Nat \ {0} /\ PageUp(sz) <= PageUp(sz) /\ PageUp(sz) <= PageUp(sz + g)
    <3>1. g \in Nat \ {0} /\ sz + g \in Nat /\ sz <= sz + g
      BY <1>1, <1>8
    <3> QED
      BY <1>1, <3>1, PageUpGrows
  <2>5. Filled(Own(p)', PageUp(sz))
    BY <1>6 DEF Filled, Mapped
  <2>6. Growing(p)'
    BY <1>1, <1>5, <2>3, <2>4, <2>5 DEF Growing, Filled
  <2> QED
    BY <1>2, <1>5, <2>6 DEF Moves, Stage
<1>9. CASE g < 0 /\ sz + g >= 0
  <2>1. Only(p, <<<<"deallocuvm", "own", sz, PageUp(sz + g)>>, <<"grown", g>>>>)
    BY <1>1, <1>2, <1>9
  <2>2. todo'[p] = <<<<"deallocuvm", "own", sz, PageUp(sz + g)>>, <<"grown", g>>>>
    BY <1>1, <2>1, OnlyIs
  <2>3. local'[p].sz = sz + g /\ sz + g \in Nat /\ sz + g <= sz /\ sz + g <= USERTOP
        /\ g \in Int \ {0} /\ ~(g > 0) /\ sz \in 0..USERTOP
    BY <1>1, <1>3, <1>4, <1>9
  <2>4. Kept(p, g)' = PageUp(sz + g)
    BY <2>3 DEF Kept
  <2>5. PageUp(sz + g) \in Nat /\ PageUp(sz + g) <= PageUp(sz)
    BY <1>1, <2>3, PageUpIs, PageUpGrows
  <2>6. /\ {i \in Upages : i < PageUp(sz + g)} \subseteq Mapped(Own(p))
        /\ Mapped(Own(p)) \subseteq
             {i \in Upages : i < PageUp(sz + g) \/ (PageUp(sz + g) <= i /\ i < PageUp(sz))}
    BY <1>1, <1>6, <1>7, <2>5
  <2>7. PageUp(sz + g) <= PageUp(sz + g)
    BY <2>5
  <2>8. Shrinking(p)'
    BY <1>6, <2>2, <2>3, <2>4, <2>5, <2>6, <2>7, Bounds DEF Shrinking
  <2> QED
    BY <1>2, <1>5, <2>8 DEF Moves, Stage
<1>10. CASE ~(g > 0) /\ ~(g < 0 /\ sz + g >= 0)
  <2>1. Only(p, <<<<"grown", g>>>>)
    BY <1>2, <1>10
  <2>2. todo'[p] = <<<<"grown", g>>>>
    BY <1>1, <2>1, OnlyIs
  <2>3. local'[p].sz = sz
    BY <1>1, <1>3, <1>4, <1>10
  <2>4. Grew(p)'
    BY <1>1, <1>6, <2>2, <2>3, Bounds DEF Grew, Filled
  <2> QED
    BY <1>2, <1>5, <2>4 DEF Moves, Stage
<1> QED
  BY <1>8, <1>9, <1>10

\* exec() as it starts.
LEMMA ExecMoves ==
  ASSUME NEW n \in Nat, Ownership(n), NEW p \in Procs, Stage(p), NEW prog \in Programs, Exec(p, prog)
  PROVE  Moves(p, FALSE)
<1> DEFINE l == [NoLocal EXCEPT !.prog = prog]
<1>1. Types /\ DOMAIN todo = Procs /\ Backed(p)
  BY RunsBacked DEF Exec
<1>2. /\ local' = [local EXCEPT ![p] = l] /\ proc' = proc /\ value' = value /\ panic' = panic
      /\ Only(p, IF prog.fewargs /\ prog.elf
                 THEN <<<<"setupkvm">>, <<"segment", 1>>>> ELSE <<<<"failed">>>>)
  BY DEF Exec
<1>3. l.sz = 0
  BY DEF NoLocal
<1> HIDE DEF l
<1>4. local'[p] = l /\ \A r \in Procs : r # p => local'[r] = local[r]
  BY <1>1, <1>2 DEF Types
<1>5. /\ \A r \in Procs : r # p => Still(r)
      /\ Text(Own(p))' = Text(Own(p)) /\ Backed(p)'
  <2>1. \A r \in Procs, w \in Which : Untouched(r, w)
    BY <1>2, ValueLeaves
  <2>2. \E s : Only(p, s)
    BY <1>2
  <2> QED
    BY <1>1, <1>2, <1>4, <2>1, <2>2, MemoryStays
<1>6. todo'[p] = <<<<"setupkvm">>, <<"segment", 1>>>> \/ todo'[p] = <<<<"failed">>>>
  BY <1>1, <1>2, OnlyIs
<1>7. ExecStarts(p)' \/ Ending(p)'
  BY <1>3, <1>4, <1>5, <1>6 DEF ExecStarts, Ending, LastOf
<1> QED
  BY <1>2, <1>5, <1>7 DEF Moves, Stage

\* exit().
LEMMA ExitMoves ==
  ASSUME NEW n \in Nat, Ownership(n), NEW p \in Procs, Stage(p), Exit(p)
  PROVE  Moves(p, FALSE)
<1>1. Types /\ DOMAIN todo = Procs /\ todo[p] = <<>>
  BY StageTypes, OutsideIs DEF Exit
<1>2. Idle(p)
  BY <1>1, StageAt
<1>3. /\ proc' = [q \in Procs |->
                IF q = p THEN [proc[p] EXCEPT !.state = "zombie"]
                ELSE IF proc[q].parent = p THEN [proc[q] EXCEPT !.parent = First]
                ELSE proc[q]]
      /\ Only(p, <<>>) /\ UNCHANGED <<value, local, panic>>
  BY DEF Exit
<1>4. \A r \in Procs : proc'[r].pgdir = proc[r].pgdir /\ proc'[r].sz = proc[r].sz
  BY <1>1, <1>3 DEF Types
<1>5. /\ \A r \in Procs : r # p => Still(r)
      /\ Text(Own(p))' = Text(Own(p)) /\ Own(p)' = Own(p) /\ Size(p)' = Size(p)
      /\ Backed(p) => Backed(p)'
  <2>1. \A r \in Procs, w \in Which : Untouched(r, w)
    BY <1>3, ValueLeaves
  <2> QED
    BY <1>1, <1>3, <1>4, <2>1, MemoryStays
<1>6. todo'[p] = <<>>
  BY <1>1, <1>3, OnlyIs
<1>7. Idle(p)'
  BY <1>2, <1>5, <1>6 DEF Idle, Filled, Mapped
<1> QED
  BY <1>3, <1>5, <1>7 DEF Moves, Stage

\* A program stores into a page.
StoredOwn(p, i, v) == Mapped(Own(p))' = Mapped(Own(p))
                      /\ Text(Own(p))' = [Text(Own(p)) EXCEPT ![i] = v]

\* A store changes one page of the program that stores.
LEMMA StoreMoves ==
  ASSUME NEW n \in Nat, Ownership(n), NEW p \in Procs, Stage(p), NEW i, NEW v, Store(p, i, v)
  PROVE  /\ \A r \in Procs : r # p => Still(r)
         /\ Stage(p)' /\ panic' = panic
         /\ i \in Mapped(Own(p)) /\ StoredOwn(p, i, v)
<1>1. /\ Types /\ Accounted(n) /\ DOMAIN todo = Procs /\ todo[p] = <<>> /\ Backed(p)
      /\ i \in Mapped(Own(p))
  BY RunsBacked DEF Store, Own
<1>2. UNCHANGED <<free, proc, todo, local, leaked, panic>>
      /\ value' = [value EXCEPT ![Own(p).user[i]] = v]
  BY DEF Store, Own
<1>3. Tables[p]["own"] = Own(p) /\ "own" \in Which /\ Own(p) \in PgDirs
  BY <1>1, TablesAre, DirTypes DEF Which
<1>4. Own(p).user[i] \in Pages /\ i \in Upages
  BY <1>1, <1>3 DEF Mapped, PgDirs
<1>5. \A q \in Pages : value'[q] = IF q = Own(p).user[i] THEN v ELSE value[q]
  BY <1>1, <1>2, <1>4 DEF Types
<1>6. \A r \in Procs, w \in Which : r # p \/ w # "own" => Untouched(r, w)
  <2>1. Own(p).user[i] \in PagesOf(Own(p))
    BY <1>1, <1>4 DEF PagesOf, Mapped
  <2>2. \A q \in Pages : q \notin PagesOf(Tables[p]["own"]) => value'[q] = value[q]
    BY <1>3, <1>5, <2>1
  <2> QED
    BY <1>1, <1>3, <2>2, TableLeaves
<1>7. \A r \in Procs : r # p => Still(r)
  BY <1>2, <1>6, OthersStill DEF Which
<1>8. Own(p)' = Own(p) /\ Size(p)' = Size(p) /\ Mapped(Own(p))' = Mapped(Own(p))
  BY <1>2 DEF Own, Size, Mapped
<1>9. Stage(p)'
  BY <1>1, <1>2, <1>8 DEF Stage, Idle, Backed, Filled
<1>10. Text(Own(p))' = [Text(Own(p)) EXCEPT ![i] = v]
  <2>1. Text(Own(p))' = [j \in Mapped(Own(p)) |-> value'[Own(p).user[j]]]
    BY <1>8 DEF Text
  <2>2. ASSUME NEW j \in Mapped(Own(p))
        PROVE  value'[Own(p).user[j]] = IF j = i THEN v ELSE Text(Own(p))[j]
    <3>1. j \in Upages /\ Own(p).user[j] # 0 /\ Own(p).user[j] \in Pages
      BY <1>3 DEF Mapped, PgDirs
    <3>2. j # i => Own(p).user[j] # Own(p).user[i]
      BY <1>1, <1>3, <1>4, <3>1, MappedOnce
    <3>3. Text(Own(p))[j] = value[Own(p).user[j]]
      BY DEF Text
    <3> QED
      BY <1>5, <3>1, <3>2, <3>3
  <2>3. DOMAIN Text(Own(p)) = Mapped(Own(p))
    BY DEF Text
  <2>4. [Text(Own(p)) EXCEPT ![i] = v] = [j \in Mapped(Own(p)) |-> IF j = i THEN v ELSE Text(Own(p))[j]]
    BY <2>3
  <2> QED
    BY <2>1, <2>2, <2>4
<1> QED
  BY <1>1, <1>2, <1>7, <1>8, <1>9, <1>10 DEF StoredOwn

\* System call arguments are only looked at.
LEMMA ArgumentStill ==
  ASSUME NEW p, NEW a, Argument(p, a)
  PROVE  UNCHANGED <<free, value, proc, todo, local, leaked>>
  BY DEF Argument, Use

\* When nothing of a process changes, all of them are still.
LEMMA AllStill ==
  ASSUME UNCHANGED <<value, todo, local>>,
         \A r \in Procs : proc'[r].pgdir = proc[r].pgdir /\ proc'[r].sz = proc[r].sz
  PROVE  \A r \in Procs : Still(r)
<1>1. \A r \in Procs, w \in Which : Untouched(r, w)
  BY ValueLeaves
<1> QED
  BY <1>1, StillIs DEF Which

\* A slot without a process has no pages.
LEMMA NoPagesIs ==
  ASSUME NEW q \in Procs
  PROVE  /\ Own(q) = NoDir => Text(Own(q)) = [i \in {} |-> 0] /\ Mapped(Own(q)) = {}
         /\ Own(q)' = NoDir => Text(Own(q))' = [i \in {} |-> 0]
         /\ Own(q)' = NoDir /\ todo'[q] = <<>> => Stage(q)'
<1>1. Mapped(NoDir) = {} /\ Filled(NoDir, 0)
  BY EmptyIs DEF NoDir
<1>2. ASSUME Own(q) = NoDir PROVE Text(Own(q)) = [i \in {} |-> 0] /\ Mapped(Own(q)) = {}
  BY <1>1, <1>2 DEF Text
<1>3. ASSUME Own(q)' = NoDir PROVE Text(Own(q))' = [i \in {} |-> 0] /\ Filled(Own(q), 0)'
  <2>1. Mapped(Own(q))' = {}
    BY <1>1, <1>3 DEF Mapped
  <2>2. Text(Own(q))' = [i \in {} |-> 0]
    BY <2>1 DEF Text
  <2> QED
    BY <1>1, <1>3, <2>2 DEF Filled, Mapped
<1> QED
  BY <1>2, <1>3 DEF Stage, Idle

\* What a step of p does that also changes the slot of q.
MovesBoth(p, q) ==
  /\ p # q /\ \A r \in Procs : r # p /\ r # q => Still(r)
  /\ Stage(p)' /\ Stage(q)' /\ panic' = panic
  /\ Text(Own(p))' = Text(Own(p))

\* fork() as it starts.
LEMMA ForkMoves ==
  ASSUME NEW n \in Nat, Ownership(n), Staged, NEW p \in Procs, NEW q \in Procs, Fork(p, q)
  PROVE  Moves(p, FALSE)
<1>1. /\ Types /\ Accounted(n) /\ DOMAIN todo = Procs /\ Backed(p) /\ panic' = panic /\ Stage(p)
  BY RunsBacked DEF Staged, Fork
<1>2. CASE free = {}
  <2>1. UNCHANGED <<value, proc, todo, local>>
    BY <1>2 DEF Fork, NoPage
  <2>2. \A r \in Procs : Still(r)
    BY <2>1, AllStill
  <2> QED
    BY <1>1, <2>2, StageStill DEF Moves, Still
<1>3. CASE free # {}
  <2> DEFINE l == [NoLocal EXCEPT !.child = q]
             s == <<<<"setupkvm">>, <<"copyuvm", 0>>, <<"forked">>>>
  <2>1. /\ Kalloc("stack") /\ local' = [local EXCEPT ![p] = l] /\ Only(p, s)
        /\ proc' = [proc EXCEPT ![q].state = "embryo", ![q].kstack = Page]
    BY <1>3 DEF Fork
  <2>2. /\ \A r \in Procs : proc'[r].pgdir = proc[r].pgdir /\ proc'[r].sz = proc[r].sz
        /\ \A r \in Procs : r # p => local'[r] = local[r]
    BY <1>1, <2>1 DEF Types
  <2>3. \A r \in Procs, w \in Which : Untouched(r, w)
    BY <1>1, <1>3, <2>1, KallocLeaves
  <2>4. /\ \A r \in Procs : r # p => Still(r)
        /\ Text(Own(p))' = Text(Own(p)) /\ Backed(p)'
    BY <1>1, <2>1, <2>2, <2>3, MemoryStays
  <2>5. todo'[p] = s
    BY <1>1, <2>1, OnlyIs
  <2> QED
    BY <1>1, <2>4, <2>5 DEF Moves, Stage, ForkStarts
<1> QED
  BY <1>2, <1>3

\* fork(): the child has a copy of the memory of its parent, or there is none.
LEMMA ForkedMoves ==
  ASSUME NEW n \in Nat, Ownership(n), Staged, NEW p \in Procs, Forked(p)
  PROVE  \E q \in Procs :
           /\ MovesBoth(p, q) /\ Mapped(Own(q)) = {}
           /\ Text(Own(q))' = Text(Own(q)) \/ Text(Own(q))' = Text(Own(p))
<1>1. Types /\ Slots /\ Accounted(n) /\ DOMAIN todo = Procs /\ ForkEnds(p)
      /\ PageUp(Size(p)) \in Nat
  BY StageTypes, StageAt DEF Staged, Forked
<1>2. todo[p] = <<<<"forked">>>> /\ Backed(p) /\ Copied(p, PageUp(Size(p)))
  BY <1>1 DEF ForkEnds
<1>3. todo[p] # <<>> /\ Final(todo[p]) = <<"forked">>
  BY <1>2, Tails, Finals
<1>4a. proc[p].state = "live" /\ local[p].child \in Procs
      /\ proc[local[p].child].state = "embryo"
  BY <1>1, <1>3 DEF Slots, Types, Makes
<1>4. PICK q \in Procs : q = local[p].child /\ proc[p].state = "live" /\ proc[q].state = "embryo"
  BY <1>4a
<1>5. q # p /\ Own(q) = NoDir /\ todo[q] = <<>>
  BY <1>1, <1>4 DEF Slots
<1>6. /\ local' = [local EXCEPT ![p] = NoLocal] /\ Then(p, <<>>) /\ panic' = panic
      /\ IF New(p).dir = 0
         THEN Kfree({proc[q].kstack}) /\ proc' = [proc EXCEPT ![q] = Unused]
         ELSE /\ proc' = [proc EXCEPT ![q] =
                           [state |-> "live", parent |-> p, sz |-> proc[p].sz,
                            pgdir |-> New(p), kstack |-> @.kstack]]
              /\ NoPage
  BY <1>4 DEF Forked
<1>7. todo'[p] = <<>> /\ \A r \in Procs : r # p => todo'[r] = todo[r]
  BY <1>1, <1>2, <1>6, Goes, ThenIs
<1>8. /\ \A r \in Procs : r # q => proc'[r] = proc[r]
      /\ \A r \in Procs : r # p => local'[r] = local[r]
      /\ Own(q)' = New(p) /\ (New(p).dir # 0 => Size(q)' = Size(p))
  <2>1. \A r \in Procs : r # q => proc'[r] = proc[r]
    BY <1>1, <1>6 DEF Types
  <2>2. \A r \in Procs : r # p => local'[r] = local[r]
    BY <1>1, <1>6 DEF Types
  <2>3. CASE New(p).dir = 0
    <3>1. New(p) = NoDir
      BY <1>1, <2>3 DEF Slots
    <3>2. Own(q)' = NoDir
      BY <1>1, <1>4, <1>6, <2>3 DEF Types, Own, Unused
    <3> QED
      BY <2>1, <2>2, <2>3, <3>1, <3>2
  <2>4. CASE New(p).dir # 0
    <3>1. Own(q)' = New(p) /\ Size(q)' = Size(p)
      BY <1>1, <1>4, <1>6, <2>4 DEF Types, Own, Size
    <3> QED
      BY <2>1, <2>2, <2>4, <3>1
  <2> QED
    BY <2>3, <2>4
<1>9. \A r \in Procs, w \in Which : Untouched(r, w)
  <2>1. CASE New(p).dir = 0
    <3>1. proc[q].kstack \in 1..n /\ proc[q].kstack \in Pages
      <4>1. proc[q].kstack # 0
        BY <1>1, <1>4 DEF Slots
      <4> QED
        BY <1>1, <1>4, <4>1, Installed DEF Types
    <3>2. \A x \in Pages : x # proc[q].kstack => value'[x] = value[x]
      <4>1. {proc[q].kstack} \subseteq Pages /\ {proc[q].kstack} \subseteq 1..n
        BY <3>1
      <4>2. Kfree({proc[q].kstack})
        BY <1>6, <2>1
      <4> QED
        BY <1>1, <4>1, <4>2, KfreeIs
    <3> QED
      BY <1>1, <1>4, <3>2, StackLeaves
  <2>2. CASE New(p).dir # 0
    BY <1>6, <2>2, ValueLeaves DEF NoPage
  <2> QED
    BY <2>1, <2>2
<1>10. \A r \in Procs : r # p /\ r # q => Still(r)
  BY <1>7, <1>8, <1>9, StillIs DEF Which
<1>11. Own(p)' = Own(p) /\ Size(p)' = Size(p)
  BY <1>5, <1>8 DEF Own, Size
<1>12. Text(Own(p))' = Text(Own(p)) /\ Stage(p)'
  <2>1. Text(Own(p))' = Text(Own(p))
    BY <1>9, <1>11, TextKept DEF Which
  <2>2. Backed(p)'
    BY <1>2, <1>11 DEF Backed, Filled, Mapped
  <2> QED
    BY <1>7, <2>1, <2>2 DEF Stage, Idle
<1>13. Mapped(Own(q)) = {}
  BY <1>4, <1>5, NoPagesIs
<1>14. Stage(q)' /\ (Text(Own(q))' = Text(Own(q)) \/ Text(Own(q))' = Text(Own(p)))
  <2>1. CASE New(p).dir = 0
    <3>1. Own(q)' = NoDir /\ todo'[q] = <<>>
      BY <1>1, <1>4, <1>5, <1>7, <1>8, <2>1 DEF Slots
    <3> QED
      BY <1>4, <1>5, <3>1, NoPagesIs
  <2>2. CASE New(p).dir # 0
    <3>1. Filled(New(p), PageUp(Size(p))) /\ Filled(Own(p), PageUp(Size(p)))
          /\ \A i \in Upages : i < PageUp(Size(p)) => Text(New(p))[i] = Text(Own(p))[i]
      BY <1>2, <2>2 DEF Copied, Backed
    <3>2. Mapped(New(p)) = Mapped(Own(p)) /\ 0 \in Mapped(New(p))
      BY <1>2, <3>1 DEF Filled, Backed
    <3>3. Text(New(p)) = Text(Own(p))
      <4>1. \A i \in Mapped(Own(p)) : Text(New(p))[i] = Text(Own(p))[i]
        BY <3>1 DEF Filled
      <4>2. \A i \in Mapped(Own(p)) : value[New(p).user[i]] = value[Own(p).user[i]]
        BY <3>2, <4>1 DEF Text
      <4> QED
        BY <3>2, <4>2 DEF Text
    <3>4. Text(Own(q))' = Text(New(p))
      <4>1. Tables[p]["new"] = New(p) /\ Untouched(p, "new")
        BY <1>9, TablesAre DEF Which
      <4>2. \A i \in Mapped(New(p)) : value'[New(p).user[i]] = value[New(p).user[i]]
        BY <4>1 DEF Untouched, Mapped
      <4>3. Text(Own(q))' = [i \in Mapped(New(p)) |-> value'[New(p).user[i]]]
        BY <1>8 DEF Text, Mapped
      <4> QED
        BY <4>2, <4>3 DEF Text
    <3>5. Stage(q)'
      <4>1. Backed(q)'
        BY <1>8, <2>2, <3>1, <3>2 DEF Backed, Filled, Mapped
      <4>2. todo'[q] = <<>>
        BY <1>4, <1>5, <1>7
      <4> QED
        BY <4>1, <4>2 DEF Stage, Idle
    <3> QED
      BY <3>3, <3>4, <3>5
  <2> QED
    BY <2>1, <2>2
<1>15. MovesBoth(p, q)
  BY <1>5, <1>6, <1>10, <1>12, <1>14 DEF MovesBoth
<1> QED
  BY <1>4, <1>13, <1>14, <1>15

\* wait(): the memory of the zombie is no longer anybody's.
LEMMA WaitMoves ==
  ASSUME NEW n \in Nat, Ownership(n), Staged, NEW p \in Procs, NEW q \in Procs, Wait(p, q)
  PROVE  MovesBoth(p, q) /\ Text(Own(q))' = [i \in {} |-> 0]
<1> DEFINE l == [NoLocal EXCEPT !.old = proc[q].pgdir]
           rec == [Unused EXCEPT !.state = "reaped"]
<1>1. /\ Types /\ Slots /\ Accounted(n) /\ DOMAIN todo = Procs /\ Backed(p)
      /\ proc[p].state = "live" /\ proc[q].state = "zombie" /\ panic' = panic
  BY RunsBacked DEF Staged, Wait
<1>2. /\ Kfree({proc[q].kstack}) /\ local' = [local EXCEPT ![p] = l]
      /\ proc' = [proc EXCEPT ![q] = rec]
      /\ Only(p, Freevm("old") \o <<<<"reaped", q>>>>)
  BY DEF Wait
<1>3. p # q /\ todo[q] = <<>> /\ proc[q].kstack # 0
  BY <1>1 DEF Slots
<1>4. rec.pgdir = NoDir
  BY DEF Unused
<1> HIDE DEF l, rec
<1>5. /\ \A r \in Procs : r # q => proc'[r] = proc[r]
      /\ \A r \in Procs : r # p => local'[r] = local[r]
      /\ Own(q)' = NoDir
  BY <1>1, <1>2, <1>4 DEF Types, Own
<1>6. /\ todo'[p] = <<<<"deallocuvm", "old", USERTOP, 0>>, <<"freedir", "old">>, <<"reaped", q>>>>
      /\ \A r \in Procs : r # p => todo'[r] = todo[r]
  <2>1. Freevm("old") \o <<<<"reaped", q>>>>
          = <<<<"deallocuvm", "old", USERTOP, 0>>, <<"freedir", "old">>, <<"reaped", q>>>>
    BY FreevmIs
  <2> QED
    BY <1>1, <1>2, <2>1, OnlyIs
<1>7. \A r \in Procs, w \in Which : Untouched(r, w)
  <2>1. {proc[q].kstack} \subseteq Pages /\ {proc[q].kstack} \subseteq 1..n
    <3>1. proc[q].kstack \in 1..n /\ proc[q].kstack \in Pages
      BY <1>1, <1>3, Installed DEF Types
    <3> QED
      BY <3>1
  <2>2. \A x \in Pages : x # proc[q].kstack => value'[x] = value[x]
    BY <1>1, <1>2, <2>1, KfreeIs
  <2> QED
    BY <1>1, <2>2, StackLeaves
<1>8. \A r \in Procs : r # p /\ r # q => Still(r)
  BY <1>5, <1>6, <1>7, StillIs DEF Which
<1>9. Own(p)' = Own(p) /\ Size(p)' = Size(p)
  BY <1>3, <1>5 DEF Own, Size
<1>10. Text(Own(p))' = Text(Own(p)) /\ Stage(p)'
  <2>1. Text(Own(p))' = Text(Own(p))
    BY <1>7, <1>9, TextKept DEF Which
  <2>2. Backed(p)'
    BY <1>1, <1>9 DEF Backed, Filled, Mapped
  <2>3. <<"reaped", q>> \in LastOf("old") /\ 0 \in Nat
    BY DEF LastOf
  <2>4. Undoing(p)'
    BY <1>6, <2>2, <2>3 DEF Undoing
  <2> QED
    BY <2>1, <2>4 DEF Stage
<1>11. Text(Own(q))' = [i \in {} |-> 0] /\ Stage(q)'
  <2>1. todo'[q] = <<>>
    BY <1>3, <1>6
  <2> QED
    BY <1>5, <2>1, NoPagesIs
<1> QED
  BY <1>1, <1>3, <1>8, <1>10, <1>11 DEF MovesBoth

\* The end of wait().
LEMMA ReapedMoves ==
  ASSUME NEW n \in Nat, Ownership(n), Staged, NEW p \in Procs, Reaped(p)
  PROVE  \E q \in Procs : MovesBoth(p, q) /\ Text(Own(q))' = Text(Own(q))
<1>1. Types /\ Slots /\ Accounted(n) /\ DOMAIN todo = Procs /\ Ending(p) /\ InReaped(p)
  BY StageTypes, StageAt, Where DEF Staged, Reaped
<1>2. PICK q \in Procs : todo[p] = <<<<"reaped", q>>>>
  BY <1>1 DEF InReaped
<1>3. Arg(p, 2) = q /\ Reaps(p, q) /\ todo[p] # <<>>
  <2>1. Head(todo[p]) = <<"reaped", q>> /\ todo[p] # <<>> /\ Final(todo[p]) = <<"reaped", q>>
    BY <1>2, Tails, Finals
  <2> QED
    BY <2>1 DEF Arg, Reaps
<1>4. p # q /\ Own(q) = NoDir /\ todo[q] = <<>>
  BY <1>1, <1>3 DEF Slots
<1>5. /\ proc' = [proc EXCEPT ![q] = Unused] /\ local' = [local EXCEPT ![p] = NoLocal]
      /\ Then(p, <<>>) /\ UNCHANGED <<value, panic>>
  BY <1>3 DEF Reaped
<1>6. todo'[p] = <<>> /\ \A r \in Procs : r # p => todo'[r] = todo[r]
  BY <1>1, <1>2, <1>5, Goes, ThenIs
<1>7. /\ \A r \in Procs : r # q => proc'[r] = proc[r]
      /\ \A r \in Procs : r # p => local'[r] = local[r]
      /\ Own(q)' = NoDir
  BY <1>1, <1>5 DEF Types, Own, Unused
<1>8. \A r \in Procs, w \in Which : Untouched(r, w)
  BY <1>5, ValueLeaves
<1>9. \A r \in Procs : r # p /\ r # q => Still(r)
  BY <1>6, <1>7, <1>8, StillIs DEF Which
<1>10. Own(p)' = Own(p) /\ Size(p)' = Size(p)
  BY <1>4, <1>7 DEF Own, Size
<1>11. Text(Own(p))' = Text(Own(p)) /\ Stage(p)'
  <2>1. Text(Own(p))' = Text(Own(p))
    BY <1>8, <1>10, TextKept DEF Which
  <2>2. Backed(p)'
    BY <1>1, <1>10 DEF Ending, Backed, Filled, Mapped
  <2> QED
    BY <1>6, <2>1, <2>2 DEF Stage, Idle
<1>12. Text(Own(q))' = Text(Own(q)) /\ Stage(q)'
  <2>1. todo'[q] = <<>>
    BY <1>4, <1>6
  <2> QED
    BY <1>4, <1>7, <2>1, NoPagesIs
<1> QED
  BY <1>4, <1>5, <1>9, <1>11, <1>12 DEF MovesBoth

----------------------------------------------------------------------------
(***************************************************************************)
(* The stages are an invariant, and every step is one of AddressSpace.     *)
(***************************************************************************)

\* The view of AddressSpace.
LEMMA ViewIs ==
  /\ View = [p \in Procs |-> Text(Own(p))]
  /\ View' = [p \in Procs |-> Text(Own(p))']
  /\ \A p \in Procs : Abstract!Pages(p) = Mapped(Own(p))
<1>1. View = [p \in Procs |-> Text(Own(p))] /\ View' = [p \in Procs |-> Text(Own(p))']
  BY DEF View, Text, Own, Mapped
<1>2. ASSUME NEW p \in Procs PROVE Abstract!Pages(p) = Mapped(Own(p))
  <2>1. View[p] = Text(Own(p)) /\ DOMAIN Text(Own(p)) = Mapped(Own(p))
    BY <1>1 DEF Text
  <2> QED
    BY <2>1 DEF Abstract!Pages
<1> QED
  BY <1>1, <1>2

\* A step that changes the memory of p at most.
LEMMA OneSet ==
  ASSUME Staged, NEW p \in Procs, \A r \in Procs : r # p => Still(r), Stage(p)'
  PROVE  /\ Staged' /\ Abstract!Set(p, Text(Own(p))')
         /\ Text(Own(p))' = Text(Own(p)) => View' = View
<1>1. \A r \in Procs : Stage(r)'
  BY StageStill DEF Staged
<1>2. \A r \in Procs : r # p => Text(Own(r))' = Text(Own(r))
  BY DEF Still
<1>3. View' = [View EXCEPT ![p] = Text(Own(p))']
  BY <1>2, ViewIs
<1>4. ASSUME Text(Own(p))' = Text(Own(p)) PROVE View' = View
  BY <1>2, <1>4, ViewIs
<1> QED
  BY <1>1, <1>3, <1>4 DEF Staged, Abstract!Set

\* A step that changes nobody's memory.
LEMMA QuietStep ==
  ASSUME Staged, NEW p \in Procs, Moves(p, FALSE)
  PROVE  Staged' /\ [Abstract!Next]_View
  BY OneSet DEF Moves

\* The steps that change the memory of the process that takes them: first, a page
\* of allocuvm().
LEMMA AddStep ==
  ASSUME Staged, NEW p \in Procs, Moves(p, \E i \in Upages : AddedOwn(p, i, "zero"))
  PROVE  Staged' /\ [Abstract!Next]_View
<1>1. Staged' /\ Abstract!Set(p, Text(Own(p))') /\ (Text(Own(p))' = Text(Own(p)) => View' = View)
  BY OneSet DEF Moves
<1>2. ASSUME NEW i \in Upages, AddedOwn(p, i, "zero") PROVE Abstract!Next
  <2>1. Upages = 0..(UPAGES - 1) /\ View[p] = Text(Own(p)) /\ Abstract!Pages(p) = Mapped(Own(p))
    BY ViewIs DEF Upages
  <2>2. Abstract!Add(p, i)
    BY <1>1, <1>2, <2>1 DEF Abstract!Add, AddedOwn
  <2> QED
    BY <2>1, <2>2 DEF Abstract!Next
<1> QED
  BY <1>1, <1>2 DEF Moves

\* A page of deallocuvm().
LEMMA DropStep ==
  ASSUME Staged, NEW p \in Procs, Moves(p, \E j \in Mapped(Own(p)) : DroppedOwn(p, j))
  PROVE  Staged' /\ [Abstract!Next]_View
<1>1. Staged' /\ Abstract!Set(p, Text(Own(p))') /\ (Text(Own(p))' = Text(Own(p)) => View' = View)
  BY OneSet DEF Moves
<1>2. ASSUME NEW j \in Mapped(Own(p)), DroppedOwn(p, j) PROVE Abstract!Next
  <2>1. /\ j \in 0..(UPAGES - 1) /\ View[p] = Text(Own(p))
        /\ Abstract!Pages(p) = Mapped(Own(p))
    BY ViewIs DEF Upages, Mapped
  <2>2. Abstract!Drop(p, j)
    BY <1>1, <1>2, <2>1 DEF Abstract!Drop, DroppedOwn
  <2> QED
    BY <2>1, <2>2 DEF Abstract!Next
<1> QED
  BY <1>1, <1>2 DEF Moves

\* The program stores.
LEMMA StoreStep ==
  ASSUME NEW n \in Nat, Ownership(n), Staged, NEW p \in Procs, NEW i \in Upages, NEW v \in Values,
         Store(p, i, v)
  PROVE  Staged' /\ [Abstract!Next]_View
<1>1. /\ \A r \in Procs : r # p => Still(r)
      /\ Stage(p)' /\ i \in Mapped(Own(p)) /\ StoredOwn(p, i, v)
  BY StoreMoves DEF Staged
<1>2. Staged' /\ Abstract!Set(p, Text(Own(p))')
  BY <1>1, OneSet
<1>3. /\ i \in 0..(UPAGES - 1) /\ View[p] = Text(Own(p))
      /\ Abstract!Pages(p) = Mapped(Own(p))
  BY ViewIs DEF Upages
<1>4. Abstract!Store(p, i, v)
  BY <1>1, <1>2, <1>3 DEF Abstract!Store, StoredOwn
<1> QED
  BY <1>2, <1>3, <1>4 DEF Abstract!Next

\* The end of exec().
LEMMA CommitStep ==
  ASSUME NEW n \in Nat, Ownership(n), Staged, NEW p \in Procs, Commit(p)
  PROVE  Staged' /\ [Abstract!Next]_View
<1>1. /\ \A r \in Procs : r # p => Still(r)
      /\ Stage(p)'
      /\ \/ Text(Own(p))' = Text(Own(p))
         \/ /\ 0 \in Mapped(Own(p))
            /\ \E prog \in Programs : Text(Own(p))' = ImageOf(prog)
  BY CommitMoves DEF Staged
<1>2. Staged' /\ Abstract!Set(p, Text(Own(p))') /\ (Text(Own(p))' = Text(Own(p)) => View' = View)
  BY <1>1, OneSet
<1>3. ASSUME 0 \in Mapped(Own(p)), NEW prog \in Programs, Text(Own(p))' = ImageOf(prog)
      PROVE  Abstract!Next
  <2>1. Abstract!Pages(p) # {}
    BY <1>3, ViewIs
  <2>2. Abstract!Exec(p, ImageOf(prog))
    BY <1>2, <1>3, <2>1 DEF Abstract!Exec
  <2> QED
    BY <2>2 DEF Abstract!Next
<1> QED
  BY <1>1, <1>2, <1>3

\* The steps that change the slot of another process.
LEMMA BothSet ==
  ASSUME Staged, NEW p \in Procs, NEW q \in Procs, MovesBoth(p, q)
  PROVE  /\ Staged' /\ Abstract!Set(q, Text(Own(q))')
         /\ Text(Own(q))' = Text(Own(q)) => View' = View
<1>1. \A r \in Procs : Stage(r)'
  BY StageStill DEF Staged, MovesBoth
<1>2. \A r \in Procs : r # q => Text(Own(r))' = Text(Own(r))
  BY DEF Still, MovesBoth
<1>3. View' = [View EXCEPT ![q] = Text(Own(q))']
  BY <1>2, ViewIs
<1>4. ASSUME Text(Own(q))' = Text(Own(q)) PROVE View' = View
  BY <1>2, <1>4, ViewIs
<1> QED
  BY <1>1, <1>3, <1>4 DEF Staged, Abstract!Set

\* The end of fork().
LEMMA ForkedStep ==
  ASSUME NEW n \in Nat, Ownership(n), Staged, NEW p \in Procs, Forked(p)
  PROVE  Staged' /\ [Abstract!Next]_View
<1>1. PICK q \in Procs :
        /\ MovesBoth(p, q) /\ Mapped(Own(q)) = {}
        /\ Text(Own(q))' = Text(Own(q)) \/ Text(Own(q))' = Text(Own(p))
  BY ForkedMoves
<1>2. Staged' /\ Abstract!Set(q, Text(Own(q))') /\ (Text(Own(q))' = Text(Own(q)) => View' = View)
  BY <1>1, BothSet
<1>3. ASSUME Text(Own(q))' = Text(Own(p)) PROVE Abstract!Next
  <2>1. View[p] = Text(Own(p)) /\ Abstract!Pages(q) = {}
    BY <1>1, ViewIs
  <2>2. Abstract!Fork(p, q)
    BY <1>2, <1>3, <2>1 DEF Abstract!Fork
  <2> QED
    BY <2>2 DEF Abstract!Next
<1> QED
  BY <1>1, <1>2, <1>3

\* wait() takes the memory from the zombie.
LEMMA WaitStep ==
  ASSUME NEW n \in Nat, Ownership(n), Staged, NEW p \in Procs, NEW q \in Procs, Wait(p, q)
  PROVE  Staged' /\ [Abstract!Next]_View
<1>1. MovesBoth(p, q) /\ Text(Own(q))' = [i \in {} |-> 0]
  BY WaitMoves
<1>2. Staged' /\ Abstract!Set(q, Text(Own(q))')
  BY <1>1, BothSet
<1>3. Abstract!Gone(q)
  BY <1>1, <1>2 DEF Abstract!Gone, Abstract!NoPages
<1> QED
  BY <1>2, <1>3 DEF Abstract!Next

\* Steps that change no memory and no stage: a panic, or looking at arguments.
LEMMA SameStep ==
  ASSUME Staged, UNCHANGED <<value, proc, todo, local>>
  PROVE  Staged' /\ [Abstract!Next]_View
<1>1. \A r \in Procs : Still(r)
  BY AllStill
<1>2. \A r \in Procs : Stage(r)' /\ Text(Own(r))' = Text(Own(r))
  BY <1>1, StageStill DEF Staged, Still
<1>3. View' = View
  BY <1>2, ViewIs
<1> QED
  BY <1>2, <1>3 DEF Staged

\* Every step.
LEMMA NextStaged ==
  ASSUME NEW n \in Nat, Ownership(n), Staged, [Next]_vars
  PROVE  Staged' /\ [Abstract!Next]_View
<1>1. CASE UNCHANGED vars
  BY <1>1, SameStep DEF vars
<1>2. ASSUME NEW p \in Procs, Call(p) PROVE Staged' /\ [Abstract!Next]_View
  <2>1. Stage(p)
    BY DEF Staged
  <2>2. CASE \E i \in Upages, v \in Values : Store(p, i, v)
    BY <2>2, StoreStep
  <2>3. CASE \E a \in Pointers : Argument(p, a)
    BY <2>3, ArgumentStill, SameStep
  <2>4. CASE \E g \in Grows : Sbrk(p, g)
    BY <2>1, <2>4, SbrkMoves, QuietStep
  <2>5. CASE \E q \in Procs : Fork(p, q)
    BY <2>5, ForkMoves, QuietStep
  <2>6. CASE \E q \in Procs : Wait(p, q)
    BY <2>6, WaitStep
  <2>7. CASE \E prog \in Programs : Exec(p, prog)
    BY <2>1, <2>7, ExecMoves, QuietStep
  <2>8. CASE Exit(p)
    BY <2>1, <2>8, ExitMoves, QuietStep
  <2> QED
    BY <1>2, <2>2, <2>3, <2>4, <2>5, <2>6, <2>7, <2>8 DEF Call
<1>3. ASSUME NEW p \in Procs, Inside(p) PROVE Staged' /\ [Abstract!Next]_View
  <2>1. Stage(p)
    BY DEF Staged
  <2>2. CASE Setupkvm(p)
    <3>1. Quiet(p)
      BY <2>1, <2>2, SetupkvmQuiet
    <3> QED
      BY <3>1, OneSet DEF Quiet
  <2>3. CASE Allocuvm(p)
    BY <2>1, <2>3, AllocuvmMoves, AddStep
  <2>4. CASE Deallocuvm(p)
    BY <2>1, <2>4, DeallocuvmMoves, DropStep
  <2>5. CASE Freedir(p) \/ Copyuvm(p) \/ Segment(p)
    BY <2>1, <2>5, FreedirQuiet, CopyuvmMoves, SegmentMoves, QuietStep
  <2>6. CASE Load(p)
    BY <2>1, <2>6, LoadMoves, QuietStep, SameStep
  <2> QED
    BY <1>3, <2>2, <2>3, <2>4, <2>5, <2>6 DEF Inside
<1>4. ASSUME NEW p \in Procs, Ends(p) PROVE Staged' /\ [Abstract!Next]_View
  <2>1. Stage(p)
    BY DEF Staged
  <2>2. CASE Grown(p) \/ Failed(p)
    <3>1. Grown(p) => Quiet(p)
      BY <2>1, GrownMoves
    <3> QED
      BY <2>1, <2>2, <3>1, FailedMoves, QuietStep, OneSet DEF Quiet
  <2>3. CASE Forked(p)
    BY <2>3, ForkedStep
  <2>4. CASE Commit(p)
    BY <2>4, CommitStep
  <2>5. CASE Reaped(p)
    <3>1. PICK q \in Procs : MovesBoth(p, q) /\ Text(Own(q))' = Text(Own(q))
      BY <2>5, ReapedMoves
    <3> QED
      BY <3>1, BothSet
  <2> QED
    BY <1>4, <2>2, <2>3, <2>4, <2>5 DEF Ends
<1> QED
  BY <1>1, <1>2, <1>3, <1>4 DEF Next

\* At the start, only the first process has a page.
LEMMA BootStaged ==
  ASSUME NEW n \in (KTABLES + 3)..NPAGES, Boot(n)
  PROVE  Staged /\ Abstract!Init
<1> DEFINE mem == KTABLES + 3
<1>1. /\ \A p \in Procs : todo[p] = <<>>
      /\ \A p \in Procs : p # First => Own(p) = NoDir
      /\ Size(First) = PGSIZE /\ Own(First).user = [i \in Upages |-> IF i = 0 THEN mem ELSE 0]
      /\ First \in Procs /\ mem \in Pages /\ value[mem] = "text" /\ mem # 0 /\ mem # 1
  <2>1. First \in Procs /\ mem \in Pages /\ mem # 0 /\ mem # 1
    BY Bounds, MemoryAssumption DEF Pages
  <2>2. value[mem] = "text"
    BY <2>1 DEF Boot
  <2>3. \A p \in Procs : todo[p] = <<>> /\ (p # First => Own(p) = NoDir)
    BY DEF Boot, Own, Unused
  <2>4. Size(First) = PGSIZE /\ Own(First).user = [i \in Upages |-> IF i = 0 THEN mem ELSE 0]
    BY <2>1 DEF Boot, Own, Size
  <2> QED
    BY <2>1, <2>2, <2>3, <2>4
<1> HIDE DEF mem
<1>2. Mapped(Own(First)) = {0} /\ 0 \in Upages
  <2>1. 0 \in Upages
    BY Bounds DEF Upages
  <2> QED
    BY <1>1, <2>1 DEF Mapped
<1>3. Stage(First)
  <2>1. PageUp(PGSIZE) = 1
    <3>1. 0 * PGSIZE + PGSIZE = PGSIZE /\ PageUp(0 * PGSIZE + PGSIZE) = 0 + 1
      BY Bounds, PageUpWhole
    <3> QED
      BY <3>1
  <2>2. {i \in Upages : i < 1} = {0}
    BY <1>2, Bounds DEF Upages
  <2> QED
    BY <1>1, <1>2, <2>1, <2>2 DEF Stage, Idle, Backed, Filled
<1>4. \A p \in Procs : p # First =>
        Mapped(Own(p)) = {} /\ Text(Own(p)) = [i \in {} |-> 0] /\ Stage(p)
  <2>1. Mapped(NoDir) = {} /\ Filled(NoDir, 0)
    BY EmptyIs DEF NoDir
  <2> QED
    BY <1>1, <2>1, NoPagesIs DEF Stage, Idle
<1>5. Text(Own(First)) = [i \in {0} |-> "text"]
  BY <1>1, <1>2 DEF Text
<1>6. View = [p \in Procs |-> IF p = First THEN [i \in {0} |-> "text"] ELSE Abstract!NoPages]
  BY <1>4, <1>5, ViewIs DEF Abstract!NoPages
<1> QED
  BY <1>1, <1>3, <1>4, <1>6 DEF Staged, Abstract!Init

----------------------------------------------------------------------------
(***************************************************************************)
(* The kernel finds what it looks for.                                     *)
(***************************************************************************)

\* The pages of the addresses from a up to b, for what is not empty, and for what
\* has a negative count.
LEMMA PagesBelow ==
  ASSUME NEW a \in Nat, NEW b \in Int, NEW sz \in Nat, a < sz, b <= sz,
         NEW i \in (a \div PGSIZE)..((b - 1) \div PGSIZE)
  PROVE  i \in Nat /\ i < PageUp(sz)
<1>1. PGSIZE \in Nat \ {0}
  BY Bounds
<1>2. i \in Int /\ a \div PGSIZE <= i /\ i <= (b - 1) \div PGSIZE /\ a \div PGSIZE \in Nat
  BY <1>1
<1>3. i \in Nat
  BY <1>2
<1>4. i * PGSIZE <= b - 1
  <2> DEFINE d == (b - 1) \div PGSIZE
  <2>1. d \in Int /\ d * PGSIZE <= b - 1
    BY <1>1
  <2>2. i <= d
    BY <1>2
  <2> HIDE DEF d
  <2>3. i * PGSIZE <= d * PGSIZE
    BY <1>1, <1>3, <2>1, <2>2
  <2>4. i * PGSIZE \in Int /\ d * PGSIZE \in Int
    BY <1>1, <1>3, <2>1
  <2> QED
    BY <2>1, <2>3, <2>4
<1>5. i * PGSIZE \in Nat
  BY <1>1, <1>3
<1>6. ~(i * PGSIZE >= sz)
  BY <1>4, <1>5
<1> QED
  BY <1>3, <1>6, PageUpIs

\* A process that has the pages its size says does not make the kernel trap.
LEMMA UseSafe ==
  ASSUME NEW n, Ownership(n), NEW p \in Procs, Backed(p), NEW a \in Nat, NEW b \in Int,
         a < Size(p), b <= Size(p), NEW w, Use(p, a, b, w)
  PROVE  panic' = panic
<1>1. Size(p) \in Nat /\ PageUp(Size(p)) \in Nat /\ PageUp(Size(p)) <= UPAGES
  BY StageTypes, PageUpTop
<1>2. ASSUME NEW i \in (a \div PGSIZE)..((b - 1) \div PGSIZE) PROVE i \in Mapped(proc[p].pgdir)
  <2>1. i \in Nat /\ i < PageUp(Size(p))
    BY <1>1, PagesBelow
  <2>2. i \in Upages
    BY <1>1, <2>1, Bounds DEF Upages
  <2> QED
    BY <2>1, <2>2 DEF Backed, Filled, Own
<1> QED
  BY <1>2 DEF Use, Reaches

\* What fetchint() and fetchstr() accept is there, and what argptr() accepts with
\* a count of at least 0.
LEMMA ArgumentSafe ==
  ASSUME NEW n \in Nat, Ownership(n), NEW p \in Procs, Stage(p),
         NEW a \in Pointers, Argument(p, a)
  PROVE  panic' = panic \/ panic' \in Unchecked
<1>1. /\ Backed(p) /\ Size(p) \in Nat /\ Size(p) <= USERTOP /\ a \in Nat
      /\ ADDRESSES \in Nat /\ ADDRESSES > USERTOP + INTSIZE /\ INTSIZE \in Nat
      /\ USERTOP \in Nat
  BY RunsBacked, StageTypes, Addresses, Bounds DEF Argument
<1>2. \A b \in Int : 0 <= b /\ b < ADDRESSES => Wrap(b) = b
  BY <1>1 DEF Wrap
<1>3. CASE Fetchint(p, a) /\ Use(p, a, a + INTSIZE, "trap")
  <2>1. a < Size(p) /\ Wrap(a + INTSIZE) <= Size(p)
    BY <1>3 DEF Fetchint, Size
  <2>2. a + INTSIZE \in Int /\ a + INTSIZE <= Size(p)
    BY <1>1, <1>2, <2>1
  <2> QED
    BY <1>1, <1>3, <2>1, <2>2, UseSafe
<1>4. CASE Fetchstr(p, a) /\ Use(p, a, proc[p].sz, "trap")
  BY <1>1, <1>4, UseSafe DEF Fetchstr, Size
<1>5. ASSUME NEW s \in Sizes, Argptr(p, a, s), s >= 0, Use(p, a, a + s, "trap")
      PROVE  panic' = panic
  <2>1. a < Size(p) /\ Wrap(a + s) <= Size(p)
    BY <1>5 DEF Argptr, Size
  <2>2. s \in Int /\ s + USERTOP < ADDRESSES
    BY Addresses
  <2>3. a + s \in Int /\ a + s <= Size(p)
    BY <1>1, <1>2, <1>5, <2>1, <2>2
  <2> QED
    BY <1>1, <1>5, <2>1, <2>3, UseSafe
<1>6. ASSUME NEW m, Use(p, a, a + m, "stray count") \/ Use(p, a, a + m, "stray pstat")
      PROVE  panic' = panic \/ panic' \in Unchecked
  BY <1>6 DEF Use, Unchecked
<1> QED
  BY <1>3, <1>4, <1>5, <1>6 DEF Argument

\* Nothing has gone wrong but what the code does not check for.
Calm == panic \in {""} \cup Unchecked

\* A step goes wrong only in these ways.
LEMMA NextSafe ==
  ASSUME NEW n \in Nat, Ownership(n), Staged, [Next]_vars
  PROVE  panic' = panic \/ panic' \in Unchecked
<1>1. CASE UNCHANGED vars
  BY <1>1 DEF vars
<1>2. ASSUME NEW p \in Procs, Call(p) PROVE panic' = panic \/ panic' \in Unchecked
  <2>1. Stage(p)
    BY DEF Staged
  <2>2. CASE \E i \in Upages, v \in Values : Store(p, i, v)
    BY <2>2 DEF Store
  <2>3. CASE \E a \in Pointers : Argument(p, a)
    BY <2>1, <2>3, ArgumentSafe
  <2>4. CASE \E g \in Grows : Sbrk(p, g)
    BY <2>4 DEF Sbrk
  <2>5. CASE \E q \in Procs : Fork(p, q) \/ Wait(p, q)
    BY <2>5 DEF Fork, Wait
  <2>6. CASE \E prog \in Programs : Exec(p, prog)
    BY <2>6 DEF Exec
  <2>7. CASE Exit(p)
    BY <2>7 DEF Exit
  <2> QED
    BY <1>2, <2>2, <2>3, <2>4, <2>5, <2>6, <2>7 DEF Call
<1>3. ASSUME NEW p \in Procs, Inside(p) PROVE panic' = panic \/ panic' \in Unchecked
  <2>1. Stage(p)
    BY DEF Staged
  <2>2. CASE Setupkvm(p)
    BY <2>2 DEF Setupkvm
  <2>3. CASE Allocuvm(p)
    BY <2>1, <2>3, AllocuvmMoves DEF Moves
  <2>4. CASE Copyuvm(p)
    BY <2>1, <2>4, CopyuvmMoves DEF Moves
  <2>5. CASE Deallocuvm(p) \/ Freedir(p) \/ Segment(p)
    BY <2>5 DEF Deallocuvm, Freedir, Segment
  <2>6. CASE Load(p)
    BY <2>1, <2>6, LoadMoves DEF Moves
  <2> QED
    BY <1>3, <2>2, <2>3, <2>4, <2>5, <2>6 DEF Inside
<1>4. ASSUME NEW p \in Procs, Ends(p) PROVE panic' = panic \/ panic' \in Unchecked
  <2>1. CASE Grown(p)
    BY <2>1 DEF Grown, Unchecked
  <2> QED
    BY <1>4, <2>1 DEF Ends, Forked, Commit, Failed, Reaped
<1> QED
  BY <1>1, <1>2, <1>3, <1>4 DEF Next

\* Outside the kernel, the stages say what SizeIsMapped says.
LEMMA StagedMaps ==
  ASSUME NEW n, Ownership(n), Staged, Calm
  PROVE  SizeIsMapped
<1>1. ASSUME NEW p \in Procs, Outside(p)
      PROVE  Mapped(proc[p].pgdir) \in {Below(proc[p].sz), {}}
  <2>1. Idle(p) /\ Size(p) \in Nat /\ PageUp(Size(p)) \in Nat
    BY <1>1, StageAt, StageTypes DEF Staged, Outside
  <2>2. {i \in Upages : i < PageUp(Size(p))} = Below(Size(p))
    <3>1. ASSUME NEW i \in Upages PROVE i < PageUp(Size(p)) <=> i * PGSIZE < Size(p)
      <4>1. i \in Nat /\ PGSIZE \in Nat
        BY Bounds DEF Upages
      <4>2. PICK x \in Nat : x = i * PGSIZE
        BY <4>1, PageUpWhole
      <4>3. x >= Size(p) <=> i >= PageUp(Size(p))
        BY <2>1, <4>1, <4>2, PageUpIs
      <4> QED
        BY <2>1, <4>1, <4>2, <4>3
    <3> QED
      BY <3>1 DEF Below
  <2>3. {i \in Upages : i < 0} = {}
    BY Bounds DEF Upages
  <2> QED
    BY <2>1, <2>2, <2>3 DEF Idle, Backed, Filled, Own, Size
<1> QED
  BY <1>1 DEF SizeIsMapped, Calm

----------------------------------------------------------------------------
(***************************************************************************)
(* The theorems.                                                           *)
(***************************************************************************)

\* ImplementsAddressSpace: whatever the number of pages the machine has, and
\* wherever the calls of the processes run out of them, each process sees an
\* address space of its own: it changes only when that process stores into it,
\* grows or shrinks it or runs another program, and fork() copies it
\* (kernel/vm.c, kernel/proc.c and kernel/exec.c over kernel/kalloc.c).  That is
\* so until one of Unchecked happens, after which the model takes no step.
THEOREM AddressSpacesOf ==
  ASSUME NEW n \in (KTABLES + 3)..NPAGES
  PROVE  Boot(n) /\ [][Next]_vars => ImplementsAddressSpace
<1>1. n \in Nat
  BY Bounds
<1>2. Boot(n) => Ownership(n) /\ Staged /\ Abstract!Init
  BY BootOwns, BootStaged
<1>3. Ownership(n) /\ Staged /\ [Next]_vars => Ownership(n)' /\ Staged' /\ [Abstract!Next]_View
  BY <1>1, NextOwns, NextStaged
<1> QED
  BY <1>2, <1>3, PTL DEF ImplementsAddressSpace, Abstract!Spec

\* With all of them.
THEOREM AddressSpaces == Spec => ImplementsAddressSpace
<1>1. NPAGES \in (KTABLES + 3)..NPAGES
  BY MemoryAssumption, Bounds
<1>2. Boot(NPAGES) /\ [][Next]_vars => ImplementsAddressSpace
  BY <1>1, AddressSpacesOf
<1> QED
  BY <1>2 DEF Spec

\* SizeIsMapped: outside the kernel, a program has every page below its size, or
\* none at all, so that the kernel's checks of its addresses against proc->sz
\* suffice (kernel/syscall.c) and copyuvm() never misses a page (kernel/vm.c).
\* Whatever the programs' headers and the addresses and counts they pass, the
\* kernel goes wrong in no other way than those of Unchecked.
THEOREM SizesMappedOf ==
  ASSUME NEW n \in (KTABLES + 3)..NPAGES
  PROVE  Boot(n) /\ [][Next]_vars => []SizeIsMapped
<1> DEFINE Safe == Ownership(n) /\ Staged /\ Calm
<1>1. n \in Nat
  BY Bounds
<1>2. Boot(n) => Safe
  BY BootOwns, BootStaged DEF Boot, Calm
<1>3. Safe /\ [Next]_vars => Safe'
  <2>1. ASSUME panic' = panic \/ panic' \in Unchecked, Calm PROVE Calm'
    BY <2>1, Zenon DEF Calm, Unchecked
  <2> QED
    BY <1>1, <2>1, NextOwns, NextStaged, NextSafe
<1>4. Safe => SizeIsMapped
  BY StagedMaps
<1> QED
  BY <1>2, <1>3, <1>4, PTL

\* With all of them.
THEOREM SizesMapped == Spec => []SizeIsMapped
<1>1. NPAGES \in (KTABLES + 3)..NPAGES
  BY MemoryAssumption, Bounds
<1>2. Boot(NPAGES) /\ [][Next]_vars => []SizeIsMapped
  BY <1>1, SizesMappedOf
<1> QED
  BY <1>2 DEF Spec
=============================================================================
