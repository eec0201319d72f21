-------------------------- MODULE BufferCacheProofs --------------------------
(***************************************************************************)
(* Proofs about the buffer cache and the IDE driver, for any set of        *)
(* processes, any number of buffers and any disk.                          *)
(***************************************************************************)
EXTENDS BufferCache, SequenceTheorems, TLAPS

----------------------------------------------------------------------------
(***************************************************************************)
(* The inductive invariant.                                                *)
(***************************************************************************)

\* What iderw() waits for.
Done(b) == buf[b].valid /\ ~buf[b].dirty

\* Process p is in bget(), or in iderw().
InBget(p) == pc[p] \in {"bget", "bget_sleep"}
InIo(p)   == pc[p] \in {"iderw", "io_sleep", "io_test"}

\* No buffer is ever lost from the list.
LruComplete == \A b \in Buf : \E i \in 1..NBUF : lru[i] = b

\* A process holds two buffers at most, the first one an indirect block; what
\* it looks for in bget() fits what it holds.
HeldOK ==
    \A p \in Procs :
        /\ Len(held[p]) <= 2
        /\ \A i \in 1..Len(held[p]) : buf[held[p][i]].sector \in Sectors
        /\ Len(held[p]) = 2 => /\ buf[held[p][1]].sector \in Outer
                               /\ buf[held[p][2]].sector \notin Outer
        /\ InBget(p) => want[p] \in Sectors /\ MayRead(p, want[p])
        /\ InIo(p) => Len(held[p]) # 0

\* A process does I/O on the buffer it got last, and is woken when that is
\* done; all others it holds are valid and clean.
Stages ==
    \A p \in Procs :
        /\ pc[p] = "iderw" => ~Done(held[p][Len(held[p])])
        /\ pc[p] \in {"bget_sleep", "io_sleep", "io_test"} => cur[p] \in Buf
        /\ pc[p] \in {"io_sleep", "io_test"} => cur[p] = held[p][Len(held[p])]
        /\ pc[p] = "io_sleep" => ~Done(cur[p])
        /\ pc[p] = "io_test" => Done(cur[p])
        /\ \A i \in 1..Len(held[p]) : (i < Len(held[p]) \/ ~InIo(p)) => Done(held[p][i])

\* A dirty buffer is busy and has the contents of its block; a valid one
\* caches a block.
FlagsOK ==
    \A b \in Buf :
        /\ buf[b].dirty => /\ buf[b].busy
                           /\ buf[b].data \in Data /\ buf[b].data[1] = buf[b].sector
        /\ buf[b].valid => buf[b].sector \in Sectors

\* The disk keeps each block in its place and is given what is to be written.
DiskOK ==
    /\ \A s \in Sectors : disk[s][1] = s
    /\ (ctl # Idle /\ ctl.op = "write") => ctl.data = buf[Head(idequeue)].data

\* The inductive invariant, with or without read errors.
Sound ==
    /\ TypeOK /\ LruComplete /\ HeldOK /\ BusyHeld /\ OneCopy
    /\ Stages /\ FlagsOK /\ QueueServed /\ NoLostWakeup /\ DiskOK

----------------------------------------------------------------------------
(***************************************************************************)
(* Sequences.                                                              *)
(***************************************************************************)

\* What Append does.
LEMMA Appended ==
  ASSUME NEW s \in Seq(Buf), NEW b \in Buf
  PROVE  /\ Append(s, b) \in Seq(Buf)
         /\ Len(Append(s, b)) = Len(s) + 1
         /\ \A i \in 1..Len(s) : Append(s, b)[i] = s[i]
         /\ Append(s, b)[Len(s) + 1] = b
  BY AppendProperties

\* What Front and Last do.
LEMMA Fronted ==
  ASSUME NEW s \in Seq(Buf), s # <<>>
  PROVE  /\ Front(s) \in Seq(Buf)
         /\ Len(s) \in Nat \ {0}
         /\ Len(Front(s)) = Len(s) - 1
         /\ \A i \in 1..(Len(s) - 1) : Front(s)[i] = s[i]
         /\ Last(s) = s[Len(s)] /\ Last(s) \in Buf
<1>1. Len(s) \in Nat \ {0} /\ Last(s) = s[Len(s)] /\ Last(s) \in Buf
  BY EmptySeq DEF Last
<1> DEFINE n == Len(s) - 1
           t == SubSeq(s, 1, n)
<1>2. n \in Nat /\ \A i \in 1..n : s[i] \in Buf
  BY <1>1
<1>3. t \in Seq(Buf) /\ Len(t) = n /\ \A i \in 1..n : t[i] = s[i]
  <2>1. /\ t \in Seq(Buf)
        /\ Len(t) = IF 1 <= n THEN n - 1 + 1 ELSE 0
        /\ \A i \in 1..(n - 1 + 1) : t[i] = s[1 + i - 1]
    <3> HIDE DEF n
    <3> QED
      BY <1>2, SubSeqProperties
  <2> HIDE DEF n, t
  <2> QED
    BY <1>2, <2>1
<1> QED
  BY <1>1, <1>3 DEF Front

\* What Head and Tail do.
LEMMA Headed ==
  ASSUME NEW s \in Seq(Buf), s # <<>>
  PROVE  /\ Tail(s) \in Seq(Buf)
         /\ Len(s) \in Nat \ {0}
         /\ Len(Tail(s)) = Len(s) - 1
         /\ \A i \in 1..(Len(s) - 1) : Tail(s)[i] = s[i + 1]
         /\ Head(s) = s[1] /\ Head(s) \in Buf
<1>1. Len(s) \in Nat \ {0}
  BY EmptySeq
<1> QED
  BY <1>1, HeadTailProperties

----------------------------------------------------------------------------
(***************************************************************************)
(* Init, and the steps that only move a process.                           *)
(***************************************************************************)

\* The constants are what they are declared to be.
LEMMA Sets ==
  /\ NBUF \in Nat \ {0} /\ Sectors \subseteq Nat \ {0} /\ Outer \subseteq Sectors
  /\ NoDev \notin Sectors /\ NoBuf \notin Buf /\ Nobody \notin Procs
  BY BufferCacheAssumption DEF NoDev, NoBuf, Buf

\* The controller's commands.
Commands == [op : {"read", "write"}, sector : Sectors, data : Data \cup {Junk}, done : BOOLEAN]

\* After binit() and ideinit().
LEMMA InitSound == Init => Sound
<1> SUFFICES ASSUME Init PROVE Sound
  OBVIOUS
<1>1. TypeOK
  <2>1. lru \in [1..NBUF -> Buf]
    BY Sets DEF Init, Buf
  <2>2. disk \in [Sectors -> Data]
    BY BufferCacheAssumption DEF Init, Data
  <2>3. <<>> \in Seq(Buf)
    BY EmptySeq
  <2> QED
    BY <2>1, <2>2, <2>3 DEF Init, TypeOK, Junk
<1>2. LruComplete
  <2> SUFFICES ASSUME NEW b \in Buf PROVE \E i \in 1..NBUF : lru[i] = b
    BY DEF LruComplete
  <2>1. NBUF + 1 - b \in 1..NBUF /\ NBUF + 1 - (NBUF + 1 - b) = b
    BY Sets DEF Buf
  <2> QED
    BY <2>1 DEF Init
<1>3. \A p \in Procs : held[p] = <<>> /\ Len(held[p]) = 0 /\ pc[p] = "run"
  BY EmptySeq DEF Init
<1>4. HeldOK /\ Stages
  BY <1>3 DEF HeldOK, Stages, InBget, InIo
<1>5. BusyHeld
  BY <1>3 DEF BusyHeld, Holds, Init
<1>6. OneCopy /\ FlagsOK
  BY DEF OneCopy, FlagsOK, Init
<1>7. QueueServed /\ NoLostWakeup
  BY <1>3, EmptySeq DEF QueueServed, NoLostWakeup, Init
<1>8. DiskOK
  BY DEF DiskOK, Init
<1> QED
  BY <1>1, <1>2, <1>4, <1>5, <1>6, <1>7, <1>8 DEF Sound

\* A caller asks for a block.
LEMMA BreadSound ==
  ASSUME Sound, NEW p \in Procs, Bread(p)
  PROVE  Sound'
<1> PICK s \in Sectors : MayRead(p, s) /\ want' = [want EXCEPT ![p] = s]
  BY DEF Bread
<1>1. pc[p] = "run" /\ pc' = [pc EXCEPT ![p] = "bget"]
  BY DEF Bread, At
<1>2. /\ UNCHANGED <<buf, lru, disk, idequeue, ctl, cur, held>>
  BY DEF Bread, cache, ide
<1>3. TypeOK'
  BY <1>1, <1>2 DEF Sound, TypeOK
<1>4. \A q \in Procs : /\ pc'[q] = IF q = p THEN "bget" ELSE pc[q]
                       /\ want'[q] = IF q = p THEN s ELSE want[q]
  BY <1>1 DEF Sound, TypeOK
<1>5. HeldOK'
  BY <1>1, <1>2, <1>4 DEF Sound, HeldOK, InBget, InIo, MayRead
<1>6. (LruComplete /\ BusyHeld /\ OneCopy /\ FlagsOK /\ DiskOK)'
  BY <1>2 DEF Sound, LruComplete, BusyHeld, Holds, OneCopy, FlagsOK, DiskOK
<1>7. Stages'
  BY <1>1, <1>2, <1>4 DEF Sound, Stages, InIo, Done
<1>8. QueueServed'
  <2>1. \A q \in Procs : pc[q] = "io_sleep" => pc'[q] = "io_sleep"
    BY <1>1, <1>4
  <2> QED
    BY <1>2, <2>1 DEF Sound, QueueServed, Holds
<1>9. NoLostWakeup'
  BY <1>1, <1>2, <1>4 DEF Sound, NoLostWakeup, Holds
<1> QED
  BY <1>3, <1>5, <1>6, <1>7, <1>8, <1>9 DEF Sound

\* bget() finds the block busy, and the process falls asleep: it does not
\* hold that buffer itself.
LEMMA BgetSleepSound ==
  ASSUME Sound, NEW p \in Procs, BgetSleep(p)
  PROVE  Sound'
<1> PICK b \in Caches(want[p]) : ~Free(b) /\ cur' = [cur EXCEPT ![p] = b]
  BY DEF BgetSleep
<1>1. pc[p] = "bget" /\ pc' = [pc EXCEPT ![p] = "bget_sleep"]
  BY DEF BgetSleep, At
<1>2. UNCHANGED <<buf, lru, disk, idequeue, ctl, want, held>>
  BY DEF BgetSleep, cache, ide
<1>3. b \in Buf /\ buf[b].sector = want[p] /\ buf[b].busy
  BY DEF Caches, Free
<1>4. TypeOK'
  BY <1>1, <1>2, <1>3 DEF Sound, TypeOK
<1>5. \A q \in Procs : /\ pc'[q] = IF q = p THEN "bget_sleep" ELSE pc[q]
                       /\ cur'[q] = IF q = p THEN b ELSE cur[q]
  BY <1>1 DEF Sound, TypeOK
<1>6. HeldOK'
  BY <1>1, <1>2, <1>5 DEF Sound, HeldOK, InBget, InIo, MayRead
<1>7. (LruComplete /\ BusyHeld /\ OneCopy /\ FlagsOK /\ DiskOK)'
  BY <1>2 DEF Sound, LruComplete, BusyHeld, Holds, OneCopy, FlagsOK, DiskOK
<1>8. Stages'
  BY <1>1, <1>2, <1>3, <1>5 DEF Sound, Stages, InIo, Done
<1>9. ~Holds(p, b)
  <2>1. MayRead(p, want[p]) /\ want[p] \in Sectors /\ held[p] \in Seq(Buf)
    BY <1>1 DEF Sound, TypeOK, HeldOK, InBget
  <2>2. CASE held[p] = <<>>
    BY <2>2, EmptySeq DEF Holds
  <2>3. CASE Len(held[p]) = 1 /\ buf[held[p][1]].sector \in Outer /\ want[p] \notin Outer
    BY <2>3, <1>3 DEF Holds
  <2> QED
    BY <2>1, <2>2, <2>3 DEF MayRead
<1>10. (QueueServed /\ NoLostWakeup)'
  BY <1>1, <1>2, <1>3, <1>5, <1>9 DEF Sound, QueueServed, NoLostWakeup, Holds
<1> QED
  BY <1>4, <1>6, <1>7, <1>8, <1>10 DEF Sound

\* bget() finds no buffer, and the machine stops.
LEMMA BgetPanicSound ==
  ASSUME Sound, NEW p \in Procs, BgetPanic(p)
  PROVE  Sound'
<1>1. pc[p] = "bget" /\ pc' = [pc EXCEPT ![p] = "panic"]
  BY DEF BgetPanic, At
<1>2. UNCHANGED <<buf, lru, disk, idequeue, ctl, want, cur, held>>
  BY DEF BgetPanic, cache, ide
<1>3. TypeOK'
  BY <1>1, <1>2 DEF Sound, TypeOK
<1>4. \A q \in Procs : pc'[q] = IF q = p THEN "panic" ELSE pc[q]
  BY <1>1 DEF Sound, TypeOK
<1>5. HeldOK'
  BY <1>1, <1>2, <1>4 DEF Sound, HeldOK, InBget, InIo, MayRead
<1>6. (LruComplete /\ BusyHeld /\ OneCopy /\ FlagsOK /\ DiskOK)'
  BY <1>2 DEF Sound, LruComplete, BusyHeld, Holds, OneCopy, FlagsOK, DiskOK
<1>7. Stages'
  BY <1>1, <1>2, <1>4 DEF Sound, Stages, InIo, Done
<1>8. (QueueServed /\ NoLostWakeup)'
  BY <1>1, <1>2, <1>4 DEF Sound, QueueServed, NoLostWakeup, Holds
<1> QED
  BY <1>3, <1>5, <1>6, <1>7, <1>8 DEF Sound

\* A process awake in iderw() finds its request done.
LEMMA IderwTestSound ==
  ASSUME Sound, NEW p \in Procs, IderwTest(p)
  PROVE  Sound'
<1>1. pc[p] = "io_test" /\ Done(cur[p])
  BY DEF IderwTest, At, Sound, Stages
<1>2. pc' = [pc EXCEPT ![p] = "run"] /\ cur' = [cur EXCEPT ![p] = NoBuf]
  BY <1>1 DEF IderwTest, Done
<1>3. UNCHANGED <<buf, lru, disk, idequeue, ctl, want, held>>
  BY DEF IderwTest, cache, ide
<1>4. TypeOK'
  BY <1>2, <1>3 DEF Sound, TypeOK
<1>5. \A q \in Procs : /\ pc'[q] = IF q = p THEN "run" ELSE pc[q]
                       /\ cur'[q] = IF q = p THEN NoBuf ELSE cur[q]
  BY <1>2 DEF Sound, TypeOK
<1>6. HeldOK'
  BY <1>1, <1>3, <1>5 DEF Sound, HeldOK, InBget, InIo, MayRead
<1>7. (LruComplete /\ BusyHeld /\ OneCopy /\ FlagsOK /\ DiskOK)'
  BY <1>3 DEF Sound, LruComplete, BusyHeld, Holds, OneCopy, FlagsOK, DiskOK
<1>8. Stages'
  <2>1. \A i \in 1..Len(held[p]) : Done(held[p][i])
    <3>1. Len(held[p]) \in Nat
      BY LenProperties DEF Sound, TypeOK
    <3> QED
      BY <1>1, <3>1 DEF Sound, Stages, InIo
  <2> QED
    BY <1>1, <1>3, <1>5, <2>1 DEF Sound, Stages, InIo, Done
<1>9. (QueueServed /\ NoLostWakeup)'
  BY <1>1, <1>3, <1>5 DEF Sound, QueueServed, NoLostWakeup, Holds
<1> QED
  BY <1>4, <1>6, <1>7, <1>8, <1>9 DEF Sound

----------------------------------------------------------------------------
(***************************************************************************)
(* bget() gets a buffer.                                                   *)
(***************************************************************************)

\* The type of a buffer.
BufType == [sector : Sectors \cup {NoDev}, busy : BOOLEAN, valid : BOOLEAN,
            dirty : BOOLEAN, data : Data \cup {Junk}]

\* A free buffer is held by nobody, not queued, and nobody sleeps on it.
LEMMA FreeUnused ==
  ASSUME Sound, NEW b \in Buf, Free(b)
  PROVE  /\ \A q \in Procs : ~Holds(q, b)
         /\ \A q \in Procs : pc[q] \in {"bget_sleep", "io_sleep", "io_test"} => cur[q] # b
         /\ \A i \in 1..Len(idequeue) : idequeue[i] # b
         /\ ~buf[b].dirty
<1>1. \A q \in Procs : ~Holds(q, b)
  BY DEF Sound, BusyHeld, Free
<1>2. ~buf[b].dirty
  BY DEF Sound, FlagsOK, Free
<1>3. \A i \in 1..Len(idequeue) : idequeue[i] # b
  BY <1>1 DEF Sound, QueueServed
<1>4. ASSUME NEW q \in Procs, pc[q] \in {"bget_sleep", "io_sleep", "io_test"}
      PROVE  cur[q] # b
  <2>1. CASE pc[q] = "bget_sleep"
    BY <2>1 DEF Sound, NoLostWakeup, Free
  <2>2. CASE pc[q] \in {"io_sleep", "io_test"}
    <3>1. cur[q] = held[q][Len(held[q])] /\ Len(held[q]) # 0 /\ Len(held[q]) \in Nat
      BY <2>2, LenProperties DEF Sound, Stages, HeldOK, InIo, TypeOK
    <3> QED
      BY <3>1, <1>1 DEF Holds
  <2> QED
    BY <1>4, <2>1, <2>2
<1> QED
  BY <1>1, <1>2, <1>3, <1>4

\* Who holds what after a process has got a buffer.
LEMMA GotHolds ==
  ASSUME Sound, NEW p \in Procs, NEW b \in Buf,
         held' = [held EXCEPT ![p] = Append(held[p], b)]
  PROVE  \A q \in Procs, d \in Buf : Holds(q, d)' <=> (Holds(q, d) \/ (q = p /\ d = b))
<1> SUFFICES ASSUME NEW q \in Procs, NEW d \in Buf
             PROVE  Holds(q, d)' <=> (Holds(q, d) \/ (q = p /\ d = b))
  OBVIOUS
<1>n. PICK n \in Nat : n = Len(held[p])
  BY LenProperties DEF Sound, TypeOK
<1>1. /\ q # p => held'[q] = held[q]
      /\ Len(held'[p]) = n + 1
      /\ \A i \in 1..n : held'[p][i] = held[p][i]
      /\ held'[p][n + 1] = b
  BY <1>n, Appended DEF Sound, TypeOK
<1>2. CASE q # p
  BY <1>2, <1>1 DEF Holds
<1>3. CASE q = p
  <2>1. \A i \in 1..(n + 1) : i \in 1..n \/ i = n + 1
    BY <1>n
  <2>2. n + 1 \in 1..(n + 1) /\ \A i \in 1..n : i \in 1..(n + 1)
    BY <1>n
  <2>3. Holds(p, d)' <=> \E i \in 1..(n + 1) : held'[p][i] = d
    BY <1>1 DEF Holds
  <2>4. Holds(p, d) <=> \E i \in 1..n : held[p][i] = d
    BY <1>n DEF Holds
  <2> QED
    BY <1>3, <1>1, <2>1, <2>2, <2>3, <2>4
<1> QED
  BY <1>2, <1>3

\* A process in bget() gets the free buffer b, which becomes r.
LEMMA GotSound ==
  ASSUME Sound, NEW p \in Procs, pc[p] = "bget",
         NEW b \in Buf, Free(b),
         NEW r \in BufType, r.sector = want[p], r.busy, ~r.dirty,
         \A d \in Buf \ {b} : buf[d].sector # want[p],
         buf' = [buf EXCEPT ![b] = r],
         held' = [held EXCEPT ![p] = Append(held[p], b)],
         pc' = [pc EXCEPT ![p] = IF r.valid THEN "run" ELSE "iderw"],
         want' = [want EXCEPT ![p] = NoDev],
         cur' = [cur EXCEPT ![p] = NoBuf],
         UNCHANGED <<lru, ide>>
  PROVE  Sound'
<1> DEFINE n == Len(held[p])
<1>1. /\ held[p] \in Seq(Buf) /\ n \in Nat
      /\ want[p] \in Sectors
      /\ \/ n = 0
         \/ n = 1 /\ buf[held[p][1]].sector \in Outer /\ want[p] \notin Outer
  <2>1. held[p] \in Seq(Buf) /\ n \in Nat
    BY LenProperties DEF Sound, TypeOK
  <2>2. want[p] \in Sectors /\ MayRead(p, want[p])
    BY DEF Sound, HeldOK, InBget
  <2> QED
    BY <2>1, <2>2, EmptySeq DEF MayRead
<1>2. UNCHANGED <<lru, disk, idequeue, ctl>>
  BY DEF ide
<1>3. \A d \in Buf : buf'[d] = IF d = b THEN r ELSE buf[d]
  BY DEF Sound, TypeOK
<1>4. \A q \in Procs : /\ pc'[q] = IF q = p THEN (IF r.valid THEN "run" ELSE "iderw") ELSE pc[q]
                       /\ want'[q] = IF q = p THEN NoDev ELSE want[q]
                       /\ cur'[q] = IF q = p THEN NoBuf ELSE cur[q]
  BY DEF Sound, TypeOK
<1>5. /\ \A q \in Procs : q # p => held'[q] = held[q]
      /\ held'[p] \in Seq(Buf) /\ Len(held'[p]) = n + 1
      /\ \A i \in 1..n : held'[p][i] = held[p][i]
      /\ held'[p][n + 1] = b
  BY <1>1, Appended DEF Sound, TypeOK
<1>6. \A q \in Procs, d \in Buf : Holds(q, d)' <=> (Holds(q, d) \/ (q = p /\ d = b))
  BY GotHolds
<1>7. \A q \in Procs : \A i \in 1..Len(held[q]) : held[q][i] \in Buf \ {b} /\ Holds(q, held[q][i])
  BY FreeUnused, ElementOfSeq DEF Sound, TypeOK, Holds
<1>8. TypeOK'
  <2>1. buf' \in [Buf -> BufType]
    BY DEF Sound, TypeOK, BufType
  <2>2. held' \in [Procs -> Seq(Buf)]
    BY <1>5 DEF Sound, TypeOK
  <2>3. /\ pc' \in [Procs -> {"run", "bget", "bget_sleep", "iderw", "io_sleep", "io_test", "panic"}]
        /\ want' \in [Procs -> Sectors \cup {NoDev}] /\ cur' \in [Procs -> Buf \cup {NoBuf}]
    BY DEF Sound, TypeOK
  <2> QED
    BY <1>2, <2>1, <2>2, <2>3 DEF Sound, TypeOK, BufType
<1>9. LruComplete'
  BY <1>2 DEF Sound, LruComplete
<1>10. HeldOK'
  <2> SUFFICES ASSUME NEW q \in Procs
               PROVE  /\ Len(held'[q]) <= 2
                      /\ \A i \in 1..Len(held'[q]) : buf'[held'[q][i]].sector \in Sectors
                      /\ Len(held'[q]) = 2 => /\ buf'[held'[q][1]].sector \in Outer
                                              /\ buf'[held'[q][2]].sector \notin Outer
                      /\ InBget(q)' => want'[q] \in Sectors /\ MayRead(q, want[q])'
                      /\ InIo(q)' => Len(held'[q]) # 0
    BY DEF HeldOK
  <2>1. CASE q # p
    <3>1. \A i \in 1..Len(held[q]) : buf'[held[q][i]] = buf[held[q][i]]
      BY <1>3, <1>7
    <3>2. Len(held[q]) \in Nat
      BY LenProperties DEF Sound, TypeOK
    <3>3. MayRead(q, want[q])' <=> MayRead(q, want[q])
      BY <2>1, <1>4, <1>5, <3>1, <3>2 DEF MayRead
    <3> QED
      BY <2>1, <1>4, <1>5, <3>1, <3>2, <3>3 DEF Sound, HeldOK, InBget, InIo
  <2>2. CASE q = p
    <3>1. ~InBget(p)' /\ Len(held'[p]) # 0 /\ Len(held'[p]) <= 2
      BY <1>1, <1>4, <1>5 DEF InBget
    <3>2. \A i \in 1..n : buf'[held'[p][i]].sector = buf[held[p][i]].sector
      BY <1>3, <1>5, <1>7
    <3>3. \A i \in 1..n : buf[held[p][i]].sector \in Sectors
      BY DEF Sound, HeldOK
    <3>4. buf'[held'[p][n + 1]].sector = want[p]
      BY <1>3, <1>5
    <3> HIDE DEF n
    <3>5. \A i \in 1..(n + 1) : buf'[held'[p][i]].sector \in Sectors
      <4>1. \A i \in 1..(n + 1) : i \in 1..n \/ i = n + 1
        BY <1>1
      <4> QED
        BY <1>1, <3>2, <3>3, <3>4, <4>1
    <3>6. n = 1 => /\ buf'[held'[p][1]].sector \in Outer
                   /\ buf'[held'[p][2]].sector \notin Outer
      BY <1>1, <3>2, <3>4 DEF n
    <3> QED
      BY <2>2, <1>1, <1>5, <3>1, <3>5, <3>6
  <2> QED
    BY <2>1, <2>2
<1>11. BusyHeld'
  <2>1. \A q \in Procs : ~Holds(q, b)
    BY FreeUnused
  <2> QED
    BY <2>1, <1>3, <1>6 DEF Sound, BusyHeld
<1>12. OneCopy'
  BY <1>3 DEF Sound, OneCopy
<1>13. Stages'
  <2> DEFINE DoneNow(d) == buf'[d].valid /\ ~buf'[d].dirty
  <2> SUFFICES ASSUME NEW q \in Procs
               PROVE  /\ pc'[q] = "iderw" => ~DoneNow(held'[q][Len(held'[q])])
                      /\ pc'[q] \in {"bget_sleep", "io_sleep", "io_test"} => cur'[q] \in Buf
                      /\ pc'[q] \in {"io_sleep", "io_test"} => cur'[q] = held'[q][Len(held'[q])]
                      /\ pc'[q] = "io_sleep" => ~DoneNow(cur'[q])
                      /\ pc'[q] = "io_test" => DoneNow(cur'[q])
                      /\ \A i \in 1..Len(held'[q]) :
                            (i < Len(held'[q]) \/ ~InIo(q)') => DoneNow(held'[q][i])
    BY DEF Stages, Done
  <2>1. CASE q # p
    <3> DEFINE m == Len(held[q])
    <3>1. \A i \in 1..m : DoneNow(held[q][i]) <=> Done(held[q][i])
      BY <1>3, <1>7 DEF Done
    <3>2. m \in Nat
      BY LenProperties DEF Sound, TypeOK
    <3>3. pc[q] \in {"iderw", "io_sleep", "io_test"} => m # 0
      BY DEF Sound, HeldOK, InIo
    <3>4. /\ pc[q] = "iderw" => ~Done(held[q][m])
          /\ pc[q] \in {"bget_sleep", "io_sleep", "io_test"} => cur[q] \in Buf
          /\ pc[q] \in {"io_sleep", "io_test"} => cur[q] = held[q][m]
          /\ pc[q] = "io_sleep" => ~Done(cur[q])
          /\ pc[q] = "io_test" => Done(cur[q])
          /\ \A i \in 1..m : (i < m \/ ~InIo(q)) => Done(held[q][i])
      BY DEF Sound, Stages
    <3>5. pc'[q] = pc[q] /\ cur'[q] = cur[q] /\ held'[q] = held[q] /\ (InIo(q)' <=> InIo(q))
      BY <2>1, <1>4, <1>5 DEF InIo
    <3>6. m # 0 => (DoneNow(held[q][m]) <=> Done(held[q][m]))
      BY <3>1, <3>2
    <3>7. Len(held'[q]) = m
      BY <3>5
    <3> HIDE DEF m, DoneNow
    <3> QED
      BY <3>1, <3>3, <3>4, <3>5, <3>6, <3>7
  <2>2. CASE q = p
    <3>1. \A i \in 1..n : DoneNow(held'[p][i])
      <4>1. \A i \in 1..n : Done(held[p][i])
        BY DEF Sound, Stages, InIo
      <4> QED
        BY <4>1, <1>3, <1>5, <1>7 DEF Done
    <3>2. DoneNow(held'[p][n + 1]) <=> r.valid
      BY <1>3, <1>5
    <3>3. \A i \in 1..(n + 1) : i \in 1..n \/ i = n + 1
      BY <1>1
    <3>4. \A i \in 1..(n + 1) : (i < n + 1 \/ r.valid) => DoneNow(held'[p][i])
      <4> HIDE DEF DoneNow
      <4> QED
        BY <1>1, <3>1, <3>2, <3>3
    <3>5. pc'[p] = (IF r.valid THEN "run" ELSE "iderw") /\ (InIo(p)' <=> ~r.valid)
      BY <1>4 DEF InIo
    <3> HIDE DEF n, DoneNow
    <3> QED
      BY <2>2, <1>5, <3>2, <3>4, <3>5
  <2> QED
    BY <2>1, <2>2
<1>14. FlagsOK'
  BY <1>1, <1>3 DEF Sound, FlagsOK
<1>15. QueueServed'
  <2>1. \A i \in 1..Len(idequeue) : idequeue[i] \in Buf \ {b}
    BY FreeUnused, ElementOfSeq DEF Sound, TypeOK
  <2>2. \A i \in 1..Len(idequeue) :
           \E q \in Procs : pc'[q] = "io_sleep" /\ cur'[q] = idequeue[i] /\ Holds(q, idequeue[i])'
    <3> SUFFICES ASSUME NEW i \in 1..Len(idequeue)
                 PROVE  \E q \in Procs : /\ pc'[q] = "io_sleep" /\ cur'[q] = idequeue[i]
                                         /\ Holds(q, idequeue[i])'
      OBVIOUS
    <3>1. PICK q \in Procs : /\ pc[q] = "io_sleep" /\ cur[q] = idequeue[i]
                             /\ Holds(q, idequeue[i])
      BY DEF Sound, QueueServed
    <3>2. pc'[q] = "io_sleep" /\ cur'[q] = idequeue[i]
      BY <3>1, <1>4
    <3>3. Holds(q, idequeue[i])'
      BY <3>1, <2>1, <1>2, <1>6
    <3> QED
      BY <3>2, <3>3
  <2>3. idequeue # <<>> => buf'[Head(idequeue)] = buf[Head(idequeue)]
    BY <2>1, <1>3, Headed DEF Sound, TypeOK
  <2> QED
    BY <2>2, <2>3, <1>2 DEF Sound, QueueServed, Holds
<1>16. NoLostWakeup'
  <2> SUFFICES ASSUME NEW q \in Procs
               PROVE  /\ pc'[q] = "bget_sleep" =>
                            /\ buf'[cur'[q]].busy /\ ~Holds(q, cur[q])'
                            /\ buf'[cur'[q]].sector = want'[q]
                      /\ pc'[q] = "io_sleep" => cur'[q] \in {idequeue[i] : i \in 1..Len(idequeue)}
    BY <1>2 DEF NoLostWakeup
  <2>1. CASE q = p
    BY <2>1, <1>4
  <2>2. CASE q # p
    <3>1. /\ pc[q] = "bget_sleep" =>
                /\ buf[cur[q]].busy /\ ~Holds(q, cur[q])
                /\ buf[cur[q]].sector = want[q]
          /\ pc[q] = "io_sleep" => cur[q] \in {idequeue[i] : i \in 1..Len(idequeue)}
      BY DEF Sound, NoLostWakeup
    <3>2. pc[q] = "bget_sleep" => cur[q] # b
      BY FreeUnused
    <3>3. pc[q] = "bget_sleep" => cur[q] \in Buf
      BY DEF Sound, Stages
    <3>4. Holds(q, cur[q])' <=> Holds(q, cur[q])
      BY <2>2, <1>4, <1>5 DEF Holds
    <3> QED
      BY <2>2, <1>3, <1>4, <3>1, <3>2, <3>3, <3>4
  <2> QED
    BY <2>1, <2>2
<1>17. DiskOK'
  <2>1. idequeue # <<>> => Head(idequeue) \in Buf \ {b}
    <3>1. idequeue # <<>> => Head(idequeue) = idequeue[1] /\ 1 \in 1..Len(idequeue)
                             /\ Head(idequeue) \in Buf
      BY Headed DEF Sound, TypeOK
    <3> QED
      BY <3>1, FreeUnused
  <2> QED
    BY <2>1, <1>2, <1>3 DEF Sound, DiskOK, QueueServed
<1> QED
  BY <1>8, <1>9, <1>10, <1>11, <1>12, <1>13, <1>14, <1>15, <1>16, <1>17 DEF Sound

\* The buffer is cached and free.
LEMMA BgetHitSound ==
  ASSUME Sound, NEW p \in Procs, BgetHit(p)
  PROVE  Sound'
<1> PICK b \in Caches(want[p]) :
      /\ Free(b)
      /\ buf' = [buf EXCEPT ![b].busy = TRUE]
      /\ held' = [held EXCEPT ![p] = Append(@, b)]
      /\ pc' = [pc EXCEPT ![p] = IF buf[b].valid THEN "run" ELSE "iderw"]
  BY DEF BgetHit
<1> DEFINE r == [buf[b] EXCEPT !.busy = TRUE]
<1>1. pc[p] = "bget" /\ b \in Buf /\ buf[b].sector = want[p] /\ buf[b] \in BufType
  BY DEF BgetHit, At, Caches, Sound, TypeOK, BufType
<1>2. r \in BufType /\ r.sector = want[p] /\ r.busy /\ r.valid = buf[b].valid
  BY <1>1 DEF BufType
<1>3. ~r.dirty
  BY <1>1, FreeUnused DEF BufType
<1>4. \A d \in Buf \ {b} : buf[d].sector # want[p]
  <2>1. want[p] # NoDev
    BY <1>1, Sets DEF Sound, HeldOK, InBget
  <2> QED
    BY <1>1, <2>1 DEF Sound, OneCopy
<1>5. buf' = [buf EXCEPT ![b] = r]
  OBVIOUS
<1>6. /\ want' = [want EXCEPT ![p] = NoDev] /\ cur' = [cur EXCEPT ![p] = NoBuf]
      /\ UNCHANGED <<lru, ide>>
  BY DEF BgetHit
<1>7. pc' = [pc EXCEPT ![p] = IF r.valid THEN "run" ELSE "iderw"]
  BY <1>2
<1> HIDE DEF r
<1> QED
  BY <1>1, <1>2, <1>3, <1>4, <1>5, <1>6, <1>7, GotSound

\* The block is not cached, and a buffer is recycled for it.
LEMMA BgetFreshSound ==
  ASSUME Sound, NEW p \in Procs, BgetFresh(p)
  PROVE  Sound'
<1> PICK b \in Buf :
      /\ Idlest(b)
      /\ buf' = [buf EXCEPT ![b] = Recycled(b, want[p])]
      /\ held' = [held EXCEPT ![p] = Append(@, b)]
      /\ pc' = [pc EXCEPT ![p] = IF buf'[b].valid THEN "run" ELSE "iderw"]
  BY DEF BgetFresh
<1> DEFINE r == Recycled(b, want[p])
<1>1. pc[p] = "bget" /\ Free(b) /\ buf[b] \in BufType /\ want[p] \in Sectors
  BY DEF BgetFresh, At, Idlest, Sound, TypeOK, BufType, HeldOK, InBget
<1>2. r \in BufType /\ r.sector = want[p] /\ r.busy /\ ~r.valid /\ ~r.dirty
  BY <1>1 DEF BufType, Recycled
<1>3. \A d \in Buf \ {b} : buf[d].sector # want[p]
  BY DEF BgetFresh, Caches
<1>4. /\ want' = [want EXCEPT ![p] = NoDev] /\ cur' = [cur EXCEPT ![p] = NoBuf]
      /\ UNCHANGED <<lru, ide>>
  BY DEF BgetFresh
<1> HIDE DEF r
<1>5. buf' = [buf EXCEPT ![b] = r]
  BY DEF r
<1>6. buf'[b] = r
  BY <1>5 DEF Sound, TypeOK
<1> QED
  BY <1>1, <1>2, <1>3, <1>4, <1>5, <1>6, GotSound

----------------------------------------------------------------------------
(***************************************************************************)
(* bwrite() and iderw().                                                   *)
(***************************************************************************)

\* A running process that holds buffers holds them valid and clean.
LEMMA RunningHolds ==
  ASSUME Sound, NEW p \in Procs, pc[p] = "run", held[p] # <<>>
  PROVE  /\ Last(held[p]) = held[p][Len(held[p])] /\ Last(held[p]) \in Buf
         /\ Len(held[p]) \in Nat \ {0}
         /\ Holds(p, Last(held[p]))
         /\ Done(Last(held[p])) /\ buf[Last(held[p])].sector \in Sectors
         /\ \A i \in 1..Len(idequeue) : idequeue[i] # Last(held[p])
<1>1. /\ Last(held[p]) = held[p][Len(held[p])] /\ Last(held[p]) \in Buf
      /\ Len(held[p]) \in Nat \ {0}
  BY Fronted DEF Sound, TypeOK
<1>2. Len(held[p]) \in 1..Len(held[p])
  BY <1>1
<1>3. Holds(p, Last(held[p]))
  BY <1>1, <1>2 DEF Holds
<1>4. Done(Last(held[p])) /\ buf[Last(held[p])].sector \in Sectors
  BY <1>1, <1>2 DEF Sound, Stages, HeldOK, InIo
<1>5. \A i \in 1..Len(idequeue) : idequeue[i] # Last(held[p])
  <2> SUFFICES ASSUME NEW i \in 1..Len(idequeue), idequeue[i] = Last(held[p])
               PROVE  FALSE
    OBVIOUS
  <2>1. PICK q \in Procs : pc[q] = "io_sleep" /\ cur[q] = idequeue[i] /\ Holds(q, idequeue[i])
    BY DEF Sound, QueueServed
  <2>2. q = p
    BY <1>1, <1>3, <2>1 DEF Sound, BusyHeld
  <2> QED
    BY <2>1, <2>2
<1> QED
  BY <1>1, <1>3, <1>4, <1>5

\* A caller writes to its buffer and goes to iderw().
LEMMA BwriteSound ==
  ASSUME Sound, NEW p \in Procs, Bwrite(p)
  PROVE  Sound'
<1>0. PICK v \in Vals :
        buf' = [buf EXCEPT ![Last(held[p])].data = <<buf[Last(held[p])].sector, v>>,
                           ![Last(held[p])].dirty = TRUE]
  BY DEF Bwrite
<1>1. pc[p] = "run" /\ held[p] # <<>> /\ pc' = [pc EXCEPT ![p] = "iderw"]
  BY DEF Bwrite, At
<1>2. UNCHANGED <<lru, disk, idequeue, ctl, want, cur, held>>
  BY DEF Bwrite, ide
<1>b. PICK b \in Buf : b = Last(held[p])
  BY <1>1, RunningHolds
<1>n. PICK n \in Nat \ {0} : n = Len(held[p])
  BY <1>1, RunningHolds
<1>3. /\ b = held[p][n] /\ Holds(p, b) /\ Done(b) /\ b \in Buf /\ n \in Nat \ {0}
      /\ buf[b].sector \in Sectors /\ \A i \in 1..Len(idequeue) : idequeue[i] # b
  BY <1>1, <1>b, <1>n, RunningHolds
<1>4. buf[b] \in BufType /\ <<buf[b].sector, v>> \in Data /\ <<buf[b].sector, v>>[1] = buf[b].sector
  BY <1>0, <1>3 DEF Sound, TypeOK, BufType, Data
<1>5. /\ \A d \in Buf : /\ buf'[d].sector = buf[d].sector /\ buf'[d].busy = buf[d].busy
                        /\ buf'[d].valid = buf[d].valid
                        /\ d # b => buf'[d] = buf[d]
      /\ buf'[b].dirty /\ buf'[b].data = <<buf[b].sector, v>>
  BY <1>0, <1>b, <1>4 DEF Sound, TypeOK, BufType
<1>6. \A q \in Procs : pc'[q] = IF q = p THEN "iderw" ELSE pc[q]
  BY <1>1 DEF Sound, TypeOK
<1>7. TypeOK'
  <2>1. buf' \in [Buf -> BufType]
    BY <1>0, <1>b, <1>4 DEF Sound, TypeOK, BufType
  <2>2. pc' \in [Procs -> {"run", "bget", "bget_sleep", "iderw", "io_sleep", "io_test", "panic"}]
    BY <1>1 DEF Sound, TypeOK
  <2> QED
    BY <1>2, <2>1, <2>2 DEF Sound, TypeOK, BufType
<1>8. \A q \in Procs : /\ Len(held[q]) \in Nat
                       /\ \A i \in 1..Len(held[q]) : held[q][i] \in Buf
  BY ElementOfSeq, LenProperties DEF Sound, TypeOK
<1>9. \A d \in Buf \ {b} : Done(d)' <=> Done(d)
  BY <1>5 DEF Done
<1>10. HeldOK'
  <2> SUFFICES ASSUME NEW q \in Procs
               PROVE  /\ Len(held[q]) <= 2
                      /\ \A i \in 1..Len(held[q]) : buf'[held[q][i]].sector \in Sectors
                      /\ Len(held[q]) = 2 => /\ buf'[held[q][1]].sector \in Outer
                                             /\ buf'[held[q][2]].sector \notin Outer
                      /\ InBget(q)' => want[q] \in Sectors /\ MayRead(q, want[q])'
                      /\ InIo(q)' => Len(held[q]) # 0
    BY <1>2 DEF HeldOK
  <2>1. \A i \in 1..Len(held[q]) : buf'[held[q][i]].sector = buf[held[q][i]].sector
    BY <1>5, <1>8
  <2>2. MayRead(q, want[q])' <=> MayRead(q, want[q])
    BY <1>2, <1>8, <2>1, EmptySeq DEF MayRead
  <2>3. (InBget(q)' => InBget(q)) /\ (InIo(q)' => InIo(q) \/ q = p)
    BY <1>1, <1>6 DEF InBget, InIo
  <2> QED
    BY <1>n, <1>3, <1>8, <2>1, <2>2, <2>3 DEF Sound, HeldOK
<1>11. LruComplete' /\ OneCopy'
  BY <1>2, <1>5 DEF Sound, LruComplete, OneCopy
<1>12. BusyHeld'
  BY <1>2, <1>5 DEF Sound, BusyHeld, Holds
<1>13. FlagsOK'
  <2>1. buf[b].busy
    BY <1>3 DEF Sound, BusyHeld
  <2>2. \A d \in Buf \ {b} : buf'[d] = buf[d]
    BY <1>5
  <2>3. /\ buf'[b].busy /\ buf'[b].data \in Data /\ buf'[b].data[1] = buf'[b].sector
        /\ buf'[b].sector \in Sectors
    BY <2>1, <1>3, <1>4, <1>5
  <2> QED
    BY <2>2, <2>3 DEF Sound, FlagsOK
<1>14. Stages'
  <2> SUFFICES ASSUME NEW q \in Procs
               PROVE  /\ pc'[q] = "iderw" => ~Done(held[q][Len(held[q])])'
                      /\ pc'[q] \in {"bget_sleep", "io_sleep", "io_test"} => cur[q] \in Buf
                      /\ pc'[q] \in {"io_sleep", "io_test"} => cur[q] = held[q][Len(held[q])]
                      /\ pc'[q] = "io_sleep" => ~Done(cur[q])'
                      /\ pc'[q] = "io_test" => Done(cur[q])'
                      /\ \A i \in 1..Len(held[q]) :
                            (i < Len(held[q]) \/ ~InIo(q)') => Done(held[q][i])'
    BY <1>2 DEF Stages
  <2>1. CASE q # p
    <3>1. \A i \in 1..Len(held[q]) : held[q][i] \in Buf \ {b}
      BY <2>1, <1>3, <1>8 DEF Sound, BusyHeld, Holds
    <3>2. InIo(q) => Len(held[q]) # 0
      BY DEF Sound, HeldOK
    <3>3. pc'[q] = pc[q] /\ (InIo(q)' <=> InIo(q))
      BY <2>1, <1>6 DEF InIo
    <3>4. \A i \in 1..Len(held[q]) : buf'[held[q][i]] = buf[held[q][i]]
      BY <1>5, <3>1
    <3>5. InIo(q) => buf'[held[q][Len(held[q])]] = buf[held[q][Len(held[q])]]
      BY <1>8, <3>2, <3>4
    <3> QED
      BY <1>2, <3>3, <3>4, <3>5 DEF Sound, Stages, Done, InIo
  <2>2. CASE q = p
    <3>1. \A i \in 1..n : Done(held[p][i])
      BY <1>1, <1>n DEF Sound, Stages, InIo
    <3>2. \A i \in 1..n : i < n => held[p][i] \in Buf \ {b}
      <4> SUFFICES ASSUME NEW i \in 1..n, i < n, held[p][i] = b PROVE FALSE
        BY <1>8, <1>n
      <4>1. n <= 2
        BY <1>n DEF Sound, HeldOK
      <4>2. n = 2 /\ i = 1
        BY <1>3, <4>1
      <4> QED
        BY <4>2, <1>n, <1>3 DEF Sound, HeldOK
    <3>3. \A i \in 1..n : i < n => Done(held[p][i])'
      BY <1>2, <1>5, <3>1, <3>2 DEF Done
    <3>4. ~Done(held[p][n])'
      BY <1>2, <1>3, <1>5 DEF Done
    <3>5. pc'[p] = "iderw" /\ InIo(p)'
      BY <1>6 DEF InIo
    <3> QED
      BY <2>2, <1>2, <1>n, <1>3, <3>3, <3>4, <3>5
  <2> QED
    BY <2>1, <2>2
<1>15. idequeue # <<>> => buf'[Head(idequeue)] = buf[Head(idequeue)] /\ Head(idequeue) \in Buf
  <2>1. idequeue # <<>> => /\ Head(idequeue) = idequeue[1] /\ 1 \in 1..Len(idequeue)
                           /\ Head(idequeue) \in Buf
    BY Headed DEF Sound, TypeOK
  <2> QED
    BY <2>1, <1>3, <1>5
<1>16. QueueServed'
  <2>1. \A q \in Procs : pc[q] = "io_sleep" => pc'[q] = "io_sleep"
    BY <1>1, <1>6
  <2> QED
    BY <1>2, <1>15, <2>1 DEF Sound, QueueServed, Holds
<1>17. NoLostWakeup'
  <2>1. \A q \in Procs : pc[q] = "bget_sleep" => cur[q] \in Buf
    BY DEF Sound, Stages
  <2>2. \A q \in Procs : /\ pc'[q] = "bget_sleep" => pc[q] = "bget_sleep"
                         /\ pc'[q] = "io_sleep" => pc[q] = "io_sleep"
    BY <1>6
  <2> QED
    BY <1>2, <1>5, <2>1, <2>2 DEF Sound, NoLostWakeup, Holds
<1>18. DiskOK'
  BY <1>2, <1>15 DEF Sound, DiskOK, QueueServed
<1> QED
  BY <1>7, <1>10, <1>11, <1>12, <1>13, <1>14, <1>16, <1>17, <1>18 DEF Sound

\* What the sequences of held buffers and of requests are made of.
LEMMA SeqsOK ==
  ASSUME Sound
  PROVE  /\ \A q \in Procs : /\ held[q] \in Seq(Buf) /\ Len(held[q]) \in Nat
                             /\ \A i \in 1..Len(held[q]) : held[q][i] \in Buf
         /\ idequeue \in Seq(Buf) /\ Len(idequeue) \in Nat
         /\ \A i \in 1..Len(idequeue) : idequeue[i] \in Buf
         /\ idequeue # <<>> => /\ Head(idequeue) = idequeue[1] /\ 1 \in 1..Len(idequeue)
                               /\ Head(idequeue) \in Buf
  BY ElementOfSeq, LenProperties, Headed DEF Sound, TypeOK

\* Two positions in a sequence of at most two elements.
LEMMA TwoPositions ==
  ASSUME NEW n \in Nat, n <= 2, NEW i \in 1..n, NEW j \in 1..n, i # j
  PROVE  /\ n = 2
         /\ \/ i = 1 /\ j = 2
            \/ i = 2 /\ j = 1
  OBVIOUS

\* The buffers a process holds are different.
LEMMA HeldApart ==
  ASSUME Sound, NEW q \in Procs,
         NEW i \in 1..Len(held[q]), NEW j \in 1..Len(held[q]), held[q][i] = held[q][j]
  PROVE  i = j
<1>1. Len(held[q]) \in Nat /\ Len(held[q]) <= 2
  BY SeqsOK DEF Sound, HeldOK
<1>2. Len(held[q]) = 2 => /\ buf[held[q][1]].sector \in Outer
                          /\ buf[held[q][2]].sector \notin Outer
  BY DEF Sound, HeldOK
<1>3. CASE i # j
  <2>1. Len(held[q]) = 2 /\ ((i = 1 /\ j = 2) \/ (i = 2 /\ j = 1))
    BY <1>1, <1>3, TwoPositions
  <2> QED
    BY <1>2, <2>1
<1> QED
  BY <1>3

\* iderw() queues the request: no other process has queued that buffer.
LEMMA IderwSound ==
  ASSUME Sound, NEW p \in Procs, Iderw(p)
  PROVE  Sound'
<1>1. pc[p] = "iderw" /\ pc' = [pc EXCEPT ![p] = "io_sleep"]
  BY DEF Iderw, At
<1>2. UNCHANGED <<buf, lru, disk, want, held>>
  BY DEF Iderw, cache
<1>3. held[p] # <<>>
  BY <1>1, EmptySeq DEF Sound, HeldOK, InIo
<1>b. PICK b \in Buf : b = Last(held[p])
  BY <1>3, SeqsOK, Fronted
<1>4. /\ b = held[p][Len(held[p])] /\ Holds(p, b) /\ ~Done(b) /\ buf[b].sector \in Sectors
      /\ Len(held[p]) \in 1..Len(held[p])
  <2>1. b = held[p][Len(held[p])] /\ Len(held[p]) \in 1..Len(held[p])
    BY <1>3, <1>b, SeqsOK, Fronted
  <2> QED
    BY <1>1, <2>1 DEF Holds, Sound, Stages, HeldOK
<1>5. /\ idequeue' = Append(idequeue, b)
      /\ ctl' = IF Head(idequeue') = b THEN Command(buf[b]) ELSE ctl
      /\ cur' = [cur EXCEPT ![p] = b]
  BY <1>b DEF Iderw, Enqueued
<1>6. \A q \in Procs : /\ pc'[q] = IF q = p THEN "io_sleep" ELSE pc[q]
                       /\ cur'[q] = IF q = p THEN b ELSE cur[q]
  BY <1>1, <1>5 DEF Sound, TypeOK
<1>n. PICK n \in Nat : n = Len(idequeue)
  BY SeqsOK
<1>7. /\ idequeue' \in Seq(Buf) /\ Len(idequeue') = n + 1
      /\ \A i \in 1..n : idequeue'[i] = idequeue[i]
      /\ idequeue'[n + 1] = b
      /\ idequeue' # <<>> /\ Head(idequeue') = idequeue'[1]
  <2>1. /\ idequeue' \in Seq(Buf) /\ Len(idequeue') = n + 1
        /\ \A i \in 1..n : idequeue'[i] = idequeue[i]
        /\ idequeue'[n + 1] = b
    BY <1>5, <1>n, Appended, SeqsOK
  <2>2. idequeue' # <<>>
    BY <1>n, <2>1, EmptySeq
  <2> QED
    BY <2>1, <2>2, Headed
<1>8. \A i \in 1..n : idequeue[i] # b
  <2> SUFFICES ASSUME NEW i \in 1..n, idequeue[i] = b PROVE FALSE
    OBVIOUS
  <2>1. PICK q \in Procs : pc[q] = "io_sleep" /\ Holds(q, b)
    BY <1>n DEF Sound, QueueServed
  <2> QED
    BY <2>1, <1>1, <1>4 DEF Sound, BusyHeld
<1>9. /\ n = 0 => idequeue = <<>> /\ Head(idequeue') = b /\ ctl' = Command(buf[b])
      /\ n # 0 => idequeue # <<>> /\ Head(idequeue') = Head(idequeue) /\ ctl' = ctl
  <2>1. n = 0 <=> idequeue = <<>>
    BY <1>n, SeqsOK, EmptySeq
  <2>2. n = 0 => Head(idequeue') = b
    BY <1>7
  <2>3. n # 0 => 1 \in 1..n
    BY <1>n
  <2>4. n # 0 => Head(idequeue') = Head(idequeue) /\ Head(idequeue') # b
    BY <1>7, <1>8, <2>1, <2>3, SeqsOK
  <2> QED
    BY <1>5, <2>1, <2>2, <2>4
<1>10. Command(buf[b]) \in Commands /\ Command(buf[b]) # Idle
  <2>1. buf[b] \in BufType
    BY DEF Sound, TypeOK, BufType
  <2>2. Command(buf[b]) \in Commands
    BY <2>1, <1>4 DEF BufType, Command, Commands
  <2>3. Command(buf[b]).op # Idle.op
    BY <2>1 DEF Command, Idle
  <2> QED
    BY <2>2, <2>3
<1>11. TypeOK'
  <2>1. ctl' \in {Idle} \cup Commands
    BY <1>5, <1>10 DEF Sound, TypeOK, Commands
  <2>2. /\ pc' \in [Procs -> {"run", "bget", "bget_sleep", "iderw", "io_sleep", "io_test", "panic"}]
        /\ cur' \in [Procs -> Buf \cup {NoBuf}]
    BY <1>1, <1>5 DEF Sound, TypeOK
  <2> QED
    BY <1>2, <1>7, <2>1, <2>2 DEF Sound, TypeOK, Commands
<1>12. HeldOK'
  BY <1>1, <1>2, <1>6 DEF Sound, HeldOK, InBget, InIo, MayRead
<1>13. (LruComplete /\ BusyHeld /\ OneCopy /\ FlagsOK)'
  BY <1>2 DEF Sound, LruComplete, BusyHeld, Holds, OneCopy, FlagsOK
<1>14. Stages'
  <2>1. \A q \in Procs : InIo(q)' <=> InIo(q)
    BY <1>1, <1>6 DEF InIo
  <2> QED
    BY <1>1, <1>2, <1>4, <1>6, <2>1 DEF Sound, Stages, Done
<1>15. QueueServed'
  <2>0. \A i \in 1..(n + 1) : i \in 1..n \/ i = n + 1
    BY <1>n
  <2>1. \A i, j \in 1..(n + 1) : i # j => idequeue'[i] # idequeue'[j]
    <3>1. \A i, j \in 1..n : i # j => idequeue[i] # idequeue[j]
      BY <1>n DEF Sound, QueueServed
    <3> QED
      BY <2>0, <3>1, <1>7, <1>8
  <2>2. \A i \in 1..(n + 1) :
           \E q \in Procs : pc'[q] = "io_sleep" /\ cur'[q] = idequeue'[i] /\ Holds(q, idequeue[i])'
    <3> SUFFICES ASSUME NEW i \in 1..(n + 1)
                 PROVE  \E q \in Procs : /\ pc'[q] = "io_sleep" /\ cur'[q] = idequeue'[i]
                                         /\ Holds(q, idequeue[i])'
      OBVIOUS
    <3>1. CASE i = n + 1
      BY <3>1, <1>2, <1>4, <1>6, <1>7 DEF Holds
    <3>2. CASE i \in 1..n
      <4>1. PICK q \in Procs : /\ pc[q] = "io_sleep" /\ cur[q] = idequeue[i]
                               /\ Holds(q, idequeue[i])
        BY <3>2, <1>n DEF Sound, QueueServed
      <4>2. q # p
        BY <4>1, <1>1
      <4> QED
        BY <3>2, <4>1, <4>2, <1>2, <1>6, <1>7 DEF Holds
    <3> QED
      BY <2>0, <3>1, <3>2
  <2>3. ctl' # Idle
    BY <1>9, <1>10 DEF Sound, QueueServed
  <2>4. /\ ctl'.sector = buf'[Head(idequeue')].sector
        /\ ctl'.op = "write" <=> buf'[Head(idequeue')].dirty
    <3>1. CASE n = 0
      <4>1. Command(buf[b]).sector = buf[b].sector /\ (Command(buf[b]).op = "write" <=> buf[b].dirty)
        BY DEF Command
      <4> QED
        BY <3>1, <4>1, <1>2, <1>9
    <3>2. CASE n # 0
      BY <3>2, <1>2, <1>9 DEF Sound, QueueServed
    <3> QED
      BY <3>1, <3>2
  <2> QED
    BY <2>1, <2>2, <2>3, <2>4, <1>7 DEF QueueServed
<1>16. NoLostWakeup'
  <2> SUFFICES ASSUME NEW q \in Procs
               PROVE  /\ pc'[q] = "bget_sleep" =>
                            /\ buf'[cur'[q]].busy /\ ~Holds(q, cur[q])'
                            /\ buf'[cur'[q]].sector = want'[q]
                      /\ pc'[q] = "io_sleep" => \E i \in 1..Len(idequeue') : idequeue'[i] = cur'[q]
    BY DEF NoLostWakeup
  <2>1. \A i \in 1..n : i \in 1..(n + 1)
    BY <1>n
  <2>2. n + 1 \in 1..(n + 1)
    BY <1>n
  <2>3. CASE q = p
    BY <2>2, <2>3, <1>6, <1>7
  <2>4. CASE q # p
    <3>1. pc[q] = "io_sleep" => \E i \in 1..n : idequeue[i] = cur[q]
      BY <1>n DEF Sound, NoLostWakeup
    <3> QED
      BY <2>1, <2>4, <3>1, <1>2, <1>6, <1>7 DEF Sound, NoLostWakeup, Holds
  <2> QED
    BY <2>3, <2>4
<1>17. DiskOK'
  <2>1. CASE n = 0
    <3>1. Command(buf[b]).data = buf[b].data
      BY DEF Command
    <3> QED
      BY <2>1, <3>1, <1>2, <1>9 DEF Sound, DiskOK
  <2>2. CASE n # 0
    BY <2>2, <1>2, <1>9 DEF Sound, DiskOK
  <2> QED
    BY <2>1, <2>2
<1> QED
  BY <1>11, <1>12, <1>13, <1>14, <1>15, <1>16, <1>17 DEF Sound

----------------------------------------------------------------------------
(***************************************************************************)
(* brelse().                                                               *)
(***************************************************************************)

\* What wakeup(b) does to each process.
LEMMA WokenIs ==
  ASSUME NEW b, NEW q \in Procs
  PROVE  Woken(pc, b)[q] = IF pc[q] = "bget_sleep" /\ cur[q] = b THEN "bget"
                           ELSE IF pc[q] = "io_sleep" /\ cur[q] = b THEN "io_test"
                           ELSE pc[q]
  BY DEF Woken

\* Moving a buffer to the front of the list loses none.
LEMMA RelinkedComplete ==
  ASSUME LruComplete, lru \in [1..NBUF -> Buf], NEW b \in Buf
  PROVE  /\ Relinked(b) \in [1..NBUF -> Buf]
         /\ \A d \in Buf : \E i \in 1..NBUF : Relinked(b)[i] = d
<1>1. PICK at \in 1..NBUF : lru[at] = b /\ at = CHOOSE i \in 1..NBUF : lru[i] = b
  BY DEF LruComplete
<1>2. Relinked(b) = [i \in 1..NBUF |-> IF i = 1 THEN b ELSE IF i <= at THEN lru[i - 1] ELSE lru[i]]
  BY <1>1 DEF Relinked
<1>3. \A i \in 1..NBUF : i # 1 => i - 1 \in 1..NBUF
  BY Sets
<1>4. Relinked(b) \in [1..NBUF -> Buf]
  BY <1>2, <1>3
<1>5. ASSUME NEW d \in Buf PROVE \E i \in 1..NBUF : Relinked(b)[i] = d
  <2>1. CASE d = b
    <3>1. 1 \in 1..NBUF
      BY Sets
    <3> QED
      BY <1>2, <2>1, <3>1
  <2>2. CASE d # b
    <3>1. PICK i \in 1..NBUF : lru[i] = d
      BY DEF LruComplete
    <3>2. i # at
      BY <1>1, <2>2, <3>1
    <3>3. CASE i < at
      <4>1. i + 1 \in 1..NBUF /\ i + 1 # 1 /\ i + 1 <= at /\ i + 1 - 1 = i
        BY <3>3, <1>1, Sets
      <4> QED
        BY <4>1, <3>1, <1>2
    <3>4. CASE i > at
      <4>1. i # 1 /\ ~(i <= at)
        BY <3>4, <1>1, Sets
      <4> QED
        BY <4>1, <3>1, <1>2
    <3> QED
      BY <3>2, <3>3, <3>4, <1>1, Sets
  <2> QED
    BY <2>1, <2>2
<1> QED
  BY <1>4, <1>5

\* Who holds what after a process has given its latest buffer back.
LEMMA ReleasedHolds ==
  ASSUME Sound, NEW p \in Procs, held[p] # <<>>, NEW b \in Buf, b = Last(held[p]),
         held' = [held EXCEPT ![p] = Front(held[p])]
  PROVE  \A q \in Procs, d \in Buf : Holds(q, d)' <=> (Holds(q, d) /\ ~(q = p /\ d = b))
<1> SUFFICES ASSUME NEW q \in Procs, NEW d \in Buf
             PROVE  Holds(q, d)' <=> (Holds(q, d) /\ ~(q = p /\ d = b))
  OBVIOUS
<1>n. PICK n \in Nat \ {0} : n = Len(held[p])
  BY SeqsOK, Fronted
<1>1. /\ q # p => held'[q] = held[q]
      /\ Len(held'[p]) = n - 1
      /\ \A i \in 1..(n - 1) : held'[p][i] = held[p][i]
      /\ held[p][n] = b
  BY <1>n, SeqsOK, Fronted DEF Sound, TypeOK
<1>2. CASE q # p
  BY <1>2, <1>1 DEF Holds
<1>3. CASE q = p
  <2>1. Holds(p, d)' <=> \E i \in 1..(n - 1) : held[p][i] = d
    BY <1>1 DEF Holds
  <2>2. \A i \in 1..(n - 1) : i \in 1..n /\ i # n
    BY <1>n
  <2>3. n \in 1..n /\ \A i \in 1..n : i # n => i \in 1..(n - 1)
    BY <1>n
  <2>4. \A i \in 1..n : i # n => held[p][i] # b
    BY <1>1, <1>n, <2>3, HeldApart
  <2> QED
    BY <1>3, <1>1, <1>n, <2>1, <2>2, <2>3, <2>4 DEF Holds
<1> QED
  BY <1>2, <1>3

\* A process gives its latest buffer back: those that wait for it wake up.
LEMMA BrelseSound ==
  ASSUME Sound, NEW p \in Procs, Brelse(p)
  PROVE  Sound'
<1>1. pc[p] = "run" /\ held[p] # <<>>
  BY DEF Brelse, At
<1>2. UNCHANGED <<disk, idequeue, ctl, want, cur>>
  BY DEF Brelse, ide
<1>b. PICK b \in Buf : b = Last(held[p])
  BY <1>1, RunningHolds
<1>n. PICK n \in Nat \ {0} : n = Len(held[p])
  BY <1>1, RunningHolds
<1>3. /\ b = held[p][n] /\ Holds(p, b) /\ Done(b)
      /\ buf[b].sector \in Sectors /\ \A i \in 1..Len(idequeue) : idequeue[i] # b
  BY <1>1, <1>b, <1>n, RunningHolds
<1>4. /\ buf' = [buf EXCEPT ![b].busy = FALSE]
      /\ lru' = Relinked(b)
      /\ pc' = Woken(pc, b)
      /\ held' = [held EXCEPT ![p] = Front(held[p])]
  BY <1>b DEF Brelse
<1>5. buf[b] \in BufType
  BY DEF Sound, TypeOK, BufType
<1>6. /\ \A d \in Buf : /\ buf'[d].sector = buf[d].sector /\ buf'[d].data = buf[d].data
                        /\ buf'[d].valid = buf[d].valid /\ buf'[d].dirty = buf[d].dirty
                        /\ d # b => buf'[d] = buf[d]
      /\ ~buf'[b].busy
  BY <1>4, <1>5 DEF Sound, TypeOK, BufType
<1>7. /\ \A q \in Procs : q # p => held'[q] = held[q]
      /\ held'[p] \in Seq(Buf) /\ Len(held'[p]) = n - 1
      /\ \A i \in 1..(n - 1) : held'[p][i] = held[p][i]
  BY <1>1, <1>4, <1>n, SeqsOK, Fronted DEF Sound, TypeOK
<1>8. \A q \in Procs : pc[q] = "io_sleep" => cur[q] # b
  <2> SUFFICES ASSUME NEW q \in Procs, pc[q] = "io_sleep", cur[q] = b PROVE FALSE
    OBVIOUS
  <2>1. \E i \in 1..Len(idequeue) : idequeue[i] = b
    BY DEF Sound, NoLostWakeup
  <2> QED
    BY <2>1, <1>3
<1>9. \A q \in Procs :
         pc'[q] = IF pc[q] = "bget_sleep" /\ cur[q] = b THEN "bget" ELSE pc[q]
  BY <1>4, <1>8, WokenIs
<1>10. \A q \in Procs : /\ InBget(q)' <=> InBget(q)
                        /\ InIo(q)' <=> InIo(q)
  BY <1>9 DEF InBget, InIo
<1>11. \A q \in Procs, d \in Buf : Holds(q, d)' <=> (Holds(q, d) /\ ~(q = p /\ d = b))
  BY <1>1, <1>b, <1>4, ReleasedHolds
<1>12. TypeOK'
  <2>1. buf' \in [Buf -> BufType]
    BY <1>4, <1>5 DEF Sound, TypeOK, BufType
  <2>2. held' \in [Procs -> Seq(Buf)]
    BY <1>4, <1>7 DEF Sound, TypeOK
  <2>3. pc' \in [Procs -> {"run", "bget", "bget_sleep", "iderw", "io_sleep", "io_test", "panic"}]
    BY <1>4 DEF Sound, TypeOK, Woken
  <2>4. lru' \in [1..NBUF -> Buf]
    BY <1>4, RelinkedComplete DEF Sound, TypeOK
  <2> QED
    BY <1>2, <2>1, <2>2, <2>3, <2>4 DEF Sound, TypeOK, BufType
<1>13. LruComplete'
  <2>1. \A d \in Buf : \E i \in 1..NBUF : Relinked(b)[i] = d
    BY RelinkedComplete DEF Sound, TypeOK
  <2> QED
    BY <1>4, <2>1 DEF LruComplete
<1>14. \A q \in Procs : \A i \in 1..Len(held'[q]) : /\ i \in 1..Len(held[q])
                                                    /\ held'[q][i] = held[q][i]
                                                    /\ held'[q][i] \in Buf
  BY <1>7, <1>n, SeqsOK
<1>15. \A q \in Procs : Len(held'[q]) \in Nat /\ Len(held'[q]) <= Len(held[q])
  BY <1>7, <1>n, SeqsOK
<1>16. HeldOK'
  <2> SUFFICES ASSUME NEW q \in Procs
               PROVE  /\ Len(held'[q]) <= 2
                      /\ \A i \in 1..Len(held'[q]) : buf'[held'[q][i]].sector \in Sectors
                      /\ Len(held'[q]) = 2 => /\ buf'[held'[q][1]].sector \in Outer
                                              /\ buf'[held'[q][2]].sector \notin Outer
                      /\ InBget(q)' => want'[q] \in Sectors /\ MayRead(q, want[q])'
                      /\ InIo(q)' => Len(held'[q]) # 0
    BY DEF HeldOK
  <2>1. \A i \in 1..Len(held'[q]) : buf'[held'[q][i]].sector = buf[held[q][i]].sector
    BY <1>6, <1>14
  <2>2. Len(held'[q]) <= 2 /\ (Len(held'[q]) = 2 => Len(held[q]) = 2)
    <3>1. Len(held[q]) \in Nat /\ Len(held[q]) <= 2
      BY SeqsOK DEF Sound, HeldOK
    <3> QED
      BY <3>1, <1>15
  <2>3. \A i \in 1..Len(held'[q]) : buf'[held'[q][i]].sector \in Sectors
    BY <2>1, <1>14 DEF Sound, HeldOK
  <2>4. Len(held'[q]) = 2 => /\ buf'[held'[q][1]].sector \in Outer
                             /\ buf'[held'[q][2]].sector \notin Outer
    BY <2>1, <2>2 DEF Sound, HeldOK
  <2>5. CASE q = p
    BY <2>2, <2>3, <2>4, <2>5, <1>1, <1>10 DEF InBget, InIo
  <2>6. CASE q # p
    <3>1. MayRead(q, want[q])' <=> MayRead(q, want[q])
      BY <2>1, <2>6, <1>2, <1>7, SeqsOK DEF MayRead
    <3> QED
      BY <2>2, <2>3, <2>4, <2>6, <3>1, <1>2, <1>7, <1>10 DEF Sound, HeldOK
  <2> QED
    BY <2>5, <2>6
<1>17. BusyHeld'
  BY <1>3, <1>6, <1>11 DEF Sound, BusyHeld
<1>18. OneCopy'
  BY <1>6 DEF Sound, OneCopy
<1>19. FlagsOK'
  BY <1>3, <1>6 DEF Sound, FlagsOK, Done
<1>20. Stages'
  <2> SUFFICES ASSUME NEW q \in Procs
               PROVE  /\ pc'[q] = "iderw" => ~Done(held[q][Len(held[q])])'
                      /\ pc'[q] \in {"bget_sleep", "io_sleep", "io_test"} => cur[q] \in Buf
                      /\ pc'[q] \in {"io_sleep", "io_test"} => cur[q] = held'[q][Len(held'[q])]
                      /\ pc'[q] = "io_sleep" => ~Done(cur[q])'
                      /\ pc'[q] = "io_test" => Done(cur[q])'
                      /\ \A i \in 1..Len(held'[q]) :
                            (i < Len(held'[q]) \/ ~InIo(q)') => Done(held[q][i])'
    BY <1>2 DEF Stages
  <2>1. \A d \in Buf : Done(d)' <=> Done(d)
    BY <1>6 DEF Done
  <2>2. CASE q = p
    <3>1. \A i \in 1..Len(held[p]) : Done(held[p][i])
      BY <1>1 DEF Sound, Stages, InIo
    <3>2. \A i \in 1..Len(held'[p]) : Done(held[p][i])'
      BY <2>1, <3>1, <1>14 DEF Done
    <3> QED
      BY <2>2, <3>2, <1>1, <1>9
  <2>3. CASE q # p
    <3>1. held'[q] = held[q] /\ cur'[q] = cur[q]
      BY <2>3, <1>2, <1>7
    <3>2. \A i \in 1..Len(held[q]) : Done(held[q][i])' <=> Done(held[q][i])
      BY <3>1, <1>6, SeqsOK DEF Done
    <3>3. pc[q] = "iderw" => (Done(held[q][Len(held[q])])' <=> Done(held[q][Len(held[q])]))
      <4>1. pc[q] = "iderw" => Len(held[q]) \in 1..Len(held[q])
        BY SeqsOK DEF Sound, HeldOK, InIo
      <4> QED
        BY <4>1, <3>1, <1>6, SeqsOK DEF Done
    <3>4. pc[q] \in {"io_sleep", "io_test"} => (Done(cur[q])' <=> Done(cur[q]))
      BY <3>1, <1>6 DEF Done, Sound, Stages
    <3> QED
      BY <3>1, <3>2, <3>3, <3>4, <1>9, <1>10 DEF Sound, Stages
  <2> QED
    BY <2>2, <2>3
<1>21. QueueServed'
  <2>1. \A i \in 1..Len(idequeue) :
           \E q \in Procs : pc'[q] = "io_sleep" /\ cur[q] = idequeue[i] /\ Holds(q, idequeue[i])'
    <3> SUFFICES ASSUME NEW i \in 1..Len(idequeue)
                 PROVE  \E q \in Procs : /\ pc'[q] = "io_sleep" /\ cur[q] = idequeue[i]
                                         /\ Holds(q, idequeue[i])'
      OBVIOUS
    <3>1. PICK q \in Procs : /\ pc[q] = "io_sleep" /\ cur[q] = idequeue[i]
                             /\ Holds(q, idequeue[i])
      BY DEF Sound, QueueServed
    <3>2. q # p /\ idequeue[i] \in Buf
      BY <3>1, <1>1, SeqsOK
    <3>3. Holds(q, idequeue[i])'
      BY <3>1, <3>2, <1>2, <1>7 DEF Holds
    <3> QED
      BY <3>1, <3>3, <1>9
  <2>2. idequeue # <<>> => buf'[Head(idequeue)] = buf[Head(idequeue)]
    BY <1>3, <1>6, SeqsOK
  <2> QED
    BY <2>1, <2>2, <1>2 DEF Sound, QueueServed
<1>22. NoLostWakeup'
  <2> SUFFICES ASSUME NEW q \in Procs
               PROVE  /\ pc'[q] = "bget_sleep" =>
                            /\ buf'[cur[q]].busy /\ ~Holds(q, cur[q])'
                            /\ buf'[cur[q]].sector = want[q]
                      /\ pc'[q] = "io_sleep" => cur[q] \in {idequeue[i] : i \in 1..Len(idequeue)}
    BY <1>2 DEF NoLostWakeup
  <2>1. pc'[q] = "bget_sleep" => /\ pc[q] = "bget_sleep" /\ cur[q] \in Buf \ {b} /\ q # p
    BY <1>1, <1>9 DEF Sound, Stages
  <2>2. pc'[q] = "bget_sleep" => (Holds(q, cur[q])' <=> Holds(q, cur[q]))
    BY <2>1, <1>2, <1>7 DEF Holds
  <2>3. pc'[q] = "io_sleep" => pc[q] = "io_sleep"
    BY <1>9
  <2> QED
    BY <2>1, <2>2, <2>3, <1>6 DEF Sound, NoLostWakeup
<1>23. DiskOK'
  <2>1. idequeue # <<>> => buf'[Head(idequeue)].data = buf[Head(idequeue)].data
    BY <1>6, SeqsOK
  <2> QED
    BY <2>1, <1>2 DEF Sound, DiskOK, QueueServed
<1> QED
  BY <1>12, <1>13, <1>16, <1>17, <1>18, <1>19, <1>20, <1>21, <1>22, <1>23 DEF Sound

----------------------------------------------------------------------------
(***************************************************************************)
(* The disk and its interrupt.                                             *)
(***************************************************************************)

\* A command is not the idle controller, and a buffer that caches a block
\* makes one.
LEMMA CommandsOK ==
  /\ \A c \in Commands : c # Idle
  /\ \A b \in BufType : b.sector \in Sectors =>
        /\ Command(b) \in Commands
        /\ Command(b).sector = b.sector /\ Command(b).data = b.data /\ ~Command(b).done
        /\ Command(b).op = "write" <=> b.dirty
<1>1. ASSUME NEW c \in Commands PROVE c # Idle
  <2>1. c.op \in {"read", "write"}
    BY DEF Commands
  <2>2. Idle.op = "idle"
    BY DEF Idle
  <2> QED
    BY <2>1, <2>2
<1>2. ASSUME NEW b \in BufType, b.sector \in Sectors
      PROVE  /\ Command(b) \in Commands
             /\ Command(b).sector = b.sector /\ Command(b).data = b.data /\ ~Command(b).done
             /\ Command(b).op = "write" <=> b.dirty
  BY <1>2 DEF Command, Commands, BufType
<1> QED
  BY <1>1, <1>2

\* What the controller is doing, and for which buffer.
LEMMA CtlOK ==
  ASSUME Sound, ctl # Idle
  PROVE  /\ ctl \in Commands /\ idequeue # <<>> /\ Head(idequeue) \in Buf
         /\ ctl.sector = buf[Head(idequeue)].sector
         /\ ctl.op = "write" <=> buf[Head(idequeue)].dirty
         /\ ctl.op = "write" => /\ ctl.data = buf[Head(idequeue)].data
                                /\ ctl.data \in Data /\ ctl.data[1] = ctl.sector
<1>1. ctl \in Commands
  BY DEF Sound, TypeOK, Commands
<1>2. idequeue # <<>> /\ Head(idequeue) \in Buf
  BY SeqsOK DEF Sound, QueueServed
<1>3. ctl.sector = buf[Head(idequeue)].sector /\ (ctl.op = "write" <=> buf[Head(idequeue)].dirty)
  BY DEF Sound, QueueServed
<1>4. ctl.op = "write" => ctl.data = buf[Head(idequeue)].data
  BY DEF Sound, DiskOK
<1> QED
  BY <1>1, <1>2, <1>3, <1>4 DEF Sound, FlagsOK

\* The disk executes its command.
LEMMA DiskDoneSound ==
  ASSUME Sound, DiskDone
  PROVE  Sound'
<1>1. UNCHANGED <<buf, lru, idequeue, pc, want, cur, held>>
  BY DEF DiskDone, cache
<1>2. /\ ctl # Idle /\ ctl \in Commands /\ idequeue # <<>> /\ Head(idequeue) \in Buf
      /\ ctl.sector = buf[Head(idequeue)].sector
      /\ ctl.op = "write" <=> buf[Head(idequeue)].dirty
  BY CtlOK DEF DiskDone
<1>3. /\ disk' \in [Sectors -> Data] /\ \A s \in Sectors : disk'[s][1] = s
      /\ ctl' \in Commands /\ ctl'.sector = ctl.sector /\ ctl'.op = ctl.op
      /\ ctl'.op = "write" => ctl'.data = ctl.data
  <2>1. disk \in [Sectors -> Data] /\ \A s \in Sectors : disk[s][1] = s
    BY DEF Sound, TypeOK, DiskOK
  <2>2. CASE ctl.op = "write"
    <3>1. disk' = [disk EXCEPT ![ctl.sector] = ctl.data] /\ ctl' = [ctl EXCEPT !.done = TRUE]
      BY <2>2 DEF DiskDone
    <3>2. ctl.data \in Data /\ ctl.data[1] = ctl.sector
      BY <1>2, <2>2, CtlOK
    <3> QED
      BY <1>2, <2>1, <3>1, <3>2 DEF Commands
  <2>3. CASE ctl.op # "write"
    <3>1. /\ disk' = disk
          /\ ctl' = [ctl EXCEPT !.done = TRUE, !.data = disk[ctl.sector]]
      BY <2>3 DEF DiskDone
    <3> QED
      BY <1>2, <2>1, <2>3, <3>1 DEF Commands
  <2> QED
    BY <2>2, <2>3
<1>4. TypeOK'
  BY <1>1, <1>3 DEF Sound, TypeOK, Commands
<1>5. HeldOK'
  BY <1>1 DEF Sound, HeldOK, InBget, InIo, MayRead
<1>6. (LruComplete /\ BusyHeld /\ OneCopy /\ FlagsOK)'
  BY <1>1 DEF Sound, LruComplete, BusyHeld, Holds, OneCopy, FlagsOK
<1>7. (Stages /\ NoLostWakeup)'
  BY <1>1 DEF Sound, Stages, InIo, Done, NoLostWakeup, Holds
<1>8. ctl' # Idle
  BY <1>3, CommandsOK
<1>9. QueueServed'
  BY <1>1, <1>2, <1>3, <1>8 DEF Sound, QueueServed, Holds
<1>10. DiskOK'
  BY <1>1, <1>2, <1>3 DEF Sound, DiskOK
<1> QED
  BY <1>4, <1>5, <1>6, <1>7, <1>9, <1>10 DEF Sound

\* ideintr(): the request served is done, its process wakes up, and the disk
\* starts on the next one.
LEMMA IdeintrSound ==
  ASSUME Sound, Ideintr
  PROVE  Sound'
<1>1. UNCHANGED <<lru, disk, want, cur, held>>
  BY DEF Ideintr
<1>2. /\ ctl \in Commands /\ idequeue # <<>>
  BY CtlOK DEF Ideintr
<1>b. PICK b \in Buf : b = Head(idequeue)
  BY <1>2, SeqsOK
<1>n. PICK n \in Nat \ {0} : n = Len(idequeue)
  BY <1>2, SeqsOK, EmptySeq
<1>3. PICK err \in {FALSE, ReadErrors} : buf' = [buf EXCEPT ![b] = Transferred(@, err)]
  BY <1>b DEF Ideintr
<1>4. /\ idequeue' = Tail(idequeue) /\ pc' = Woken(pc, b)
      /\ ctl' = NextCommand(idequeue')
  BY <1>b DEF Ideintr
<1>5. PICK o \in Procs : pc[o] = "io_sleep" /\ cur[o] = b /\ Holds(o, b)
  BY <1>b, <1>n, <1>2, SeqsOK DEF Sound, QueueServed
<1>6. /\ ~Done(b) /\ buf[b].sector \in Sectors /\ buf[b] \in BufType
      /\ \A q \in Procs : Holds(q, b) => q = o
  <2>1. ~Done(b)
    BY <1>5 DEF Sound, Stages
  <2>2. buf[b].sector \in Sectors
    BY <1>5 DEF Sound, HeldOK, Holds
  <2>3. buf[b] \in BufType
    BY DEF Sound, TypeOK, BufType
  <2>4. \A q \in Procs : Holds(q, b) => q = o
    BY <1>5 DEF Sound, BusyHeld
  <2> QED
    BY <2>1, <2>2, <2>3, <2>4
<1>7. /\ \A d \in Buf : /\ buf'[d].sector = buf[d].sector /\ buf'[d].busy = buf[d].busy
                        /\ d # b => buf'[d] = buf[d]
      /\ buf'[b] \in BufType /\ buf'[b].valid /\ ~buf'[b].dirty
  <2>1. buf' = [buf EXCEPT ![b] = Transferred(buf[b], err)]
    BY <1>3
  <2>2. /\ Transferred(buf[b], err) \in BufType
        /\ Transferred(buf[b], err).sector = buf[b].sector
        /\ Transferred(buf[b], err).busy = buf[b].busy
        /\ Transferred(buf[b], err).valid /\ ~Transferred(buf[b], err).dirty
    BY <1>2, <1>6 DEF Transferred, BufType, Commands
  <2> QED
    BY <2>1, <2>2 DEF Sound, TypeOK
<1>8. \A q \in Procs :
         pc'[q] = IF pc[q] = "bget_sleep" /\ cur[q] = b THEN "bget"
                  ELSE IF pc[q] = "io_sleep" /\ cur[q] = b THEN "io_test"
                  ELSE pc[q]
  BY <1>4, WokenIs
<1>9. \A q \in Procs : /\ InBget(q)' <=> InBget(q)
                       /\ InIo(q)' <=> InIo(q)
  BY <1>8 DEF InBget, InIo
<1>10. /\ idequeue' \in Seq(Buf) /\ Len(idequeue') = n - 1
       /\ \A i \in 1..(n - 1) : idequeue'[i] = idequeue[i + 1]
       /\ b = idequeue[1]
  BY <1>2, <1>4, <1>b, <1>n, Headed, SeqsOK
<1>11. \A i \in 1..(n - 1) : i + 1 \in 1..n /\ idequeue[i + 1] \in Buf \ {b}
  <2>1. \A i \in 1..(n - 1) : i + 1 \in 1..n /\ 1 \in 1..n /\ i + 1 # 1
    BY <1>n
  <2> QED
    BY <2>1, <1>n, <1>10, SeqsOK DEF Sound, QueueServed
<1>12. /\ n = 1 => idequeue' = <<>> /\ ctl' = Idle
       /\ n # 1 => /\ idequeue' # <<>> /\ Head(idequeue') \in Buf \ {b}
                   /\ ctl' = Command(buf[Head(idequeue')])
                   /\ buf[Head(idequeue')].sector \in Sectors
  <2>1. n = 1 <=> idequeue' = <<>>
    BY <1>n, <1>10, EmptySeq
  <2>2. n = 1 => ctl' = Idle
    BY <1>4, <2>1 DEF NextCommand
  <2>3. n # 1 => Head(idequeue') = idequeue[2] /\ 2 \in 1..n /\ 1 \in 1..(n - 1)
    BY <1>n, <1>10, <2>1, Headed
  <2>4. n # 1 => Head(idequeue') \in Buf \ {b}
    BY <1>11, <2>3
  <2>5. n # 1 => buf[Head(idequeue')].sector \in Sectors
    <3>1. n # 1 => \E q \in Procs : Holds(q, idequeue[2])
      BY <1>n, <2>3 DEF Sound, QueueServed
    <3> QED
      BY <2>3, <3>1 DEF Sound, HeldOK, Holds
  <2>6. n # 1 => ctl' = Command(buf[Head(idequeue')])
    BY <1>4, <2>1 DEF NextCommand
  <2> QED
    BY <2>1, <2>2, <2>4, <2>5, <2>6
<1>13. n # 1 => /\ ctl' \in Commands /\ ctl' # Idle
                /\ ctl'.sector = buf'[Head(idequeue')].sector
                /\ ctl'.op = "write" <=> buf'[Head(idequeue')].dirty
                /\ ctl'.data = buf'[Head(idequeue')].data
  <2>1. n # 1 => buf[Head(idequeue')] \in BufType
    BY <1>12 DEF Sound, TypeOK, BufType
  <2>2. n # 1 => buf'[Head(idequeue')] = buf[Head(idequeue')]
    BY <1>7, <1>12
  <2> QED
    BY <2>1, <2>2, <1>12, CommandsOK
<1>14. TypeOK'
  <2>1. buf' \in [Buf -> BufType]
    BY <1>3, <1>7 DEF Sound, TypeOK, BufType
  <2>2. ctl' \in {Idle} \cup Commands
    BY <1>12, <1>13
  <2>3. pc' \in [Procs -> {"run", "bget", "bget_sleep", "iderw", "io_sleep", "io_test", "panic"}]
    BY <1>4 DEF Sound, TypeOK, Woken
  <2> QED
    BY <1>1, <1>10, <2>1, <2>2, <2>3 DEF Sound, TypeOK, BufType, Commands
<1>15. HeldOK'
  <2> SUFFICES ASSUME NEW q \in Procs
               PROVE  /\ Len(held[q]) <= 2
                      /\ \A i \in 1..Len(held[q]) : buf'[held[q][i]].sector \in Sectors
                      /\ Len(held[q]) = 2 => /\ buf'[held[q][1]].sector \in Outer
                                             /\ buf'[held[q][2]].sector \notin Outer
                      /\ InBget(q)' => want[q] \in Sectors /\ MayRead(q, want[q])'
                      /\ InIo(q)' => Len(held[q]) # 0
    BY <1>1 DEF HeldOK
  <2>1. \A i \in 1..Len(held[q]) : buf'[held[q][i]].sector = buf[held[q][i]].sector
    BY <1>7, SeqsOK
  <2>2. MayRead(q, want[q])' <=> MayRead(q, want[q])
    BY <1>1, <2>1, SeqsOK DEF MayRead
  <2> QED
    BY <2>1, <2>2, <1>9, SeqsOK DEF Sound, HeldOK
<1>16. LruComplete' /\ OneCopy'
  BY <1>1, <1>7 DEF Sound, LruComplete, OneCopy
<1>17. BusyHeld'
  BY <1>1, <1>7 DEF Sound, BusyHeld, Holds
<1>18. FlagsOK'
  <2>1. \A d \in Buf \ {b} : buf'[d] = buf[d]
    BY <1>7
  <2> QED
    BY <1>6, <1>7, <2>1 DEF Sound, FlagsOK
<1>19. Stages'
  <2> SUFFICES ASSUME NEW q \in Procs
               PROVE  /\ pc'[q] = "iderw" => ~Done(held[q][Len(held[q])])'
                      /\ pc'[q] \in {"bget_sleep", "io_sleep", "io_test"} => cur[q] \in Buf
                      /\ pc'[q] \in {"io_sleep", "io_test"} => cur[q] = held[q][Len(held[q])]
                      /\ pc'[q] = "io_sleep" => ~Done(cur[q])'
                      /\ pc'[q] = "io_test" => Done(cur[q])'
                      /\ \A i \in 1..Len(held[q]) :
                            (i < Len(held[q]) \/ ~InIo(q)') => Done(held[q][i])'
    BY <1>1 DEF Stages
  <2>1. \A d \in Buf : (Done(d) => Done(d)') /\ (d # b => (Done(d)' <=> Done(d)))
    BY <1>7 DEF Done
  <2>2. Done(b)'
    BY <1>7 DEF Done
  <2>3. pc'[q] = "iderw" => ~Done(held[q][Len(held[q])])'
    <3>1. pc'[q] = "iderw" => pc[q] = "iderw" /\ q # o
      BY <1>5, <1>8
    <3>2. pc[q] = "iderw" => /\ ~Done(held[q][Len(held[q])])
                             /\ Len(held[q]) \in 1..Len(held[q])
      BY SeqsOK DEF Sound, Stages, HeldOK, InIo
    <3>3. pc'[q] = "iderw" => held[q][Len(held[q])] \in Buf \ {b}
      BY <3>1, <3>2, <1>6, SeqsOK DEF Holds
    <3> QED
      BY <3>1, <3>2, <3>3, <1>1, <1>7 DEF Done
  <2>4. /\ pc'[q] = "io_sleep" => pc[q] = "io_sleep" /\ cur[q] # b
        /\ pc'[q] = "io_test" => pc[q] = "io_test" \/ (pc[q] = "io_sleep" /\ cur[q] = b)
        /\ pc'[q] = "bget_sleep" => pc[q] = "bget_sleep"
    BY <1>8
  <2>5. /\ pc'[q] \in {"bget_sleep", "io_sleep", "io_test"} => cur[q] \in Buf
        /\ pc'[q] \in {"io_sleep", "io_test"} => cur[q] = held[q][Len(held[q])]
    BY <2>4 DEF Sound, Stages
  <2>6. pc'[q] = "io_sleep" => ~Done(cur[q])'
    BY <2>4, <2>5, <1>1, <1>7 DEF Sound, Stages, Done
  <2>7. pc'[q] = "io_test" => Done(cur[q])'
    <3>1. pc'[q] = "io_test" => Done(cur[q]) \/ cur[q] = b
      BY <2>4 DEF Sound, Stages
    <3> QED
      BY <2>5, <3>1, <1>1, <1>7 DEF Done
  <2>8. \A i \in 1..Len(held[q]) : (i < Len(held[q]) \/ ~InIo(q)') => Done(held[q][i])'
    <3>1. \A i \in 1..Len(held[q]) : (i < Len(held[q]) \/ ~InIo(q)') => Done(held[q][i])
      BY <1>9 DEF Sound, Stages
    <3>2. \A i \in 1..Len(held[q]) : Done(held[q][i]) => Done(held[q][i])'
      BY <1>1, <1>7, SeqsOK DEF Done
    <3> QED
      BY <3>1, <3>2
  <2> QED
    BY <2>3, <2>5, <2>6, <2>7, <2>8
<1>20. QueueServed'
  <2>1. \A i, j \in 1..(n - 1) : i # j => idequeue'[i] # idequeue'[j]
    <3> SUFFICES ASSUME NEW i \in 1..(n - 1), NEW j \in 1..(n - 1), i # j
                 PROVE  idequeue[i + 1] # idequeue[j + 1]
      BY <1>10
    <3>1. i + 1 \in 1..n /\ j + 1 \in 1..n /\ i + 1 # j + 1
      BY <1>n
    <3> QED
      BY <3>1, <1>n DEF Sound, QueueServed
  <2>2. \A i \in 1..(n - 1) :
           \E q \in Procs : pc'[q] = "io_sleep" /\ cur'[q] = idequeue'[i] /\ Holds(q, idequeue[i])'
    <3> SUFFICES ASSUME NEW i \in 1..(n - 1)
                 PROVE  \E q \in Procs : /\ pc'[q] = "io_sleep" /\ cur'[q] = idequeue'[i]
                                         /\ Holds(q, idequeue[i])'
      OBVIOUS
    <3>1. PICK q \in Procs : /\ pc[q] = "io_sleep" /\ cur[q] = idequeue[i + 1]
                             /\ Holds(q, idequeue[i + 1])
      BY <1>11, <1>n DEF Sound, QueueServed
    <3>2. pc'[q] = "io_sleep"
      BY <1>8, <1>11, <3>1
    <3> QED
      BY <3>1, <3>2, <1>1, <1>10 DEF Holds
  <2>3. idequeue' = <<>> <=> ctl' = Idle
    BY <1>12, <1>13
  <2> QED
    BY <2>1, <2>2, <2>3, <1>10, <1>12, <1>13 DEF QueueServed
<1>21. NoLostWakeup'
  <2> SUFFICES ASSUME NEW q \in Procs
               PROVE  /\ pc'[q] = "bget_sleep" =>
                            /\ buf'[cur[q]].busy /\ ~Holds(q, cur[q])'
                            /\ buf'[cur[q]].sector = want[q]
                      /\ pc'[q] = "io_sleep" => \E i \in 1..(n - 1) : idequeue'[i] = cur[q]
    BY <1>1, <1>10 DEF NoLostWakeup
  <2>1. pc'[q] = "bget_sleep" => pc[q] = "bget_sleep" /\ cur[q] \in Buf
    BY <1>8 DEF Sound, Stages
  <2>2. Holds(q, cur[q])' <=> Holds(q, cur[q])
    BY <1>1 DEF Holds
  <2>3. ASSUME pc'[q] = "io_sleep" PROVE \E i \in 1..(n - 1) : idequeue'[i] = cur[q]
    <3>1. pc[q] = "io_sleep" /\ cur[q] # b
      BY <2>3, <1>8
    <3>2. PICK j \in 1..n : idequeue[j] = cur[q]
      BY <3>1, <1>n DEF Sound, NoLostWakeup
    <3>3. j # 1
      BY <3>1, <3>2, <1>10
    <3>4. j - 1 \in 1..(n - 1) /\ (j - 1) + 1 = j
      BY <3>3, <1>n
    <3>5. idequeue'[j - 1] = cur[q]
      BY <3>2, <3>4, <1>10
    <3> QED
      BY <3>4, <3>5
  <2> QED
    BY <2>1, <2>2, <2>3, <1>7 DEF Sound, NoLostWakeup
<1>22. DiskOK'
  BY <1>1, <1>12, <1>13 DEF Sound, DiskOK
<1> QED
  BY <1>14, <1>15, <1>16, <1>17, <1>18, <1>19, <1>20, <1>21, <1>22 DEF Sound

----------------------------------------------------------------------------
(***************************************************************************)
(* The theorems that hold with and without read errors.                    *)
(***************************************************************************)

\* The invariant is inductive.
LEMMA NextSound == Sound /\ [Next]_vars => Sound'
<1> SUFFICES ASSUME Sound, [Next]_vars PROVE Sound'
  OBVIOUS
<1>1. ASSUME NEW p \in Procs, Step(p) PROVE Sound'
  BY <1>1, BgetHitSound, BgetSleepSound, BgetFreshSound, BgetPanicSound, IderwSound,
     IderwTestSound DEF Step
<1>2. ASSUME UNCHANGED vars PROVE Sound'
  <2>1. UNCHANGED <<buf, lru, disk, idequeue, ctl, pc, want, cur, held>>
    BY <1>2 DEF vars, cache, ide
  <2>2. (TypeOK /\ LruComplete /\ BusyHeld /\ OneCopy /\ FlagsOK /\ DiskOK)'
    BY <2>1 DEF Sound, TypeOK, LruComplete, BusyHeld, Holds, OneCopy, FlagsOK, DiskOK
  <2>3. (HeldOK /\ Stages)'
    BY <2>1 DEF Sound, HeldOK, Stages, InBget, InIo, MayRead, Done
  <2>4. (QueueServed /\ NoLostWakeup)'
    BY <2>1 DEF Sound, QueueServed, NoLostWakeup, Holds
  <2> QED
    BY <2>2, <2>3, <2>4 DEF Sound
<1>3. ASSUME NEW p \in Procs, Bread(p) \/ Bwrite(p) \/ Brelse(p) PROVE Sound'
  BY <1>3, BreadSound, BwriteSound, BrelseSound
<1> QED
  BY <1>1, <1>2, <1>3, DiskDoneSound, IdeintrSound DEF Next, Halt

\* Whatever processes race for the buffers, and whether or not the disk fails:
\* each buffer has one user at most, each block one copy, and the flags, the
\* queue and the processes agree (bget(), brelse(), iderw(), ideintr()).
THEOREM CacheSound == Spec => []Sound
  BY InitSound, NextSound, PTL DEF Spec

\* No request and no wakeup is lost between bget(), iderw() and ideintr(),
\* although both sleep on the same channel.
THEOREM RequestsServed == Spec => []RequestsKept
<1>1. Sound => RequestsKept
  BY DEF Sound, RequestsKept
<1> QED
  BY <1>1, CacheSound, PTL

\* A process that waits for another wants what that one holds: an indirect
\* block, if the other is waiting as well.
LEMMA WaitsInOrder ==
  ASSUME Sound, NEW p \in Procs, NEW q \in Procs, WaitsFor(p, q), InBget(q)
  PROVE  want[p] \in Outer /\ want[q] \notin Outer /\ p # q
<1>1. pc[p] = "bget_sleep" /\ Holds(q, cur[p]) /\ buf[cur[p]].sector = want[p] /\ ~Holds(p, cur[p])
  BY DEF WaitsFor, Sound, NoLostWakeup
<1>2. PICK i \in 1..Len(held[q]) : held[q][i] = cur[p]
  BY <1>1 DEF Holds
<1>3. Len(held[q]) \in Nat /\ Len(held[q]) # 0
  BY SeqsOK, <1>2
<1>4. MayRead(q, want[q])
  BY DEF Sound, HeldOK
<1>5. Len(held[q]) = 1 /\ buf[held[q][1]].sector \in Outer /\ want[q] \notin Outer
  BY <1>3, <1>4, EmptySeq DEF MayRead
<1> QED
  BY <1>1, <1>2, <1>5

\* Nobody waits for himself through others: of those that wait for each other
\* one wants a block that is not an indirect block, and whoever has it waits
\* for nobody.  This is the order in which bmap() and itrunc() lock.
THEOREM NoDeadlock == Spec => []NoCircularWait
<1>1. Sound => NoCircularWait
  <2> SUFFICES ASSUME Sound, NEW S \in SUBSET Procs, S # {},
                      \A p \in S : \E q \in S : WaitsFor(p, q)
               PROVE  FALSE
    BY DEF NoCircularWait
  <2>1. \A p \in S : InBget(p)
    BY DEF WaitsFor, InBget
  <2>2. PICK p \in S, q \in S : WaitsFor(p, q)
    OBVIOUS
  <2>3. PICK r \in S : WaitsFor(q, r)
    BY <2>2
  <2>4. want[q] \notin Outer
    BY <2>1, <2>2, WaitsInOrder
  <2>5. want[q] \in Outer
    BY <2>1, <2>3, WaitsInOrder
  <2> QED
    BY <2>4, <2>5
<1> QED
  BY <1>1, CacheSound, PTL

----------------------------------------------------------------------------
(***************************************************************************)
(* Without read errors: the cache is coherent.                             *)
(***************************************************************************)

\* A valid clean buffer equals its block, and so does what the controller has
\* read or written.
Synced ==
    /\ \A b \in Buf : Done(b) => buf[b].data = disk[buf[b].sector]
    /\ (ctl # Idle /\ ctl.done) => ctl.data = disk[ctl.sector]

\* The buffers are empty at first.
LEMMA InitSynced == Init => Synced
  BY DEF Init, Synced, Done

\* Steps that leave the contents of the buffers, the disk and the controller
\* alone.
LEMMA SyncedKept ==
  ASSUME Synced, UNCHANGED <<disk, ctl>>,
         \A b \in Buf : Done(b)' => /\ Done(b)
                                    /\ buf'[b].data = buf[b].data
                                    /\ buf'[b].sector = buf[b].sector
  PROVE  Synced'
  BY DEF Synced

\* bget(): the buffer it finds keeps its contents, the one it recycles is not
\* valid.
LEMMA BgetSynced ==
  ASSUME Sound, Synced, NEW p \in Procs, BgetHit(p) \/ BgetFresh(p)
  PROVE  Synced'
<1>1. UNCHANGED <<disk, ctl>>
  BY DEF BgetHit, BgetFresh, ide
<1>2. CASE BgetHit(p)
  <2>1. PICK b \in Buf : buf' = [buf EXCEPT ![b].busy = TRUE]
    BY <1>2 DEF BgetHit, Caches
  <2>2. \A d \in Buf : /\ buf'[d].data = buf[d].data /\ buf'[d].sector = buf[d].sector
                       /\ buf'[d].valid = buf[d].valid /\ buf'[d].dirty = buf[d].dirty
    BY <2>1 DEF Sound, TypeOK
  <2> QED
    BY <1>1, <2>2, SyncedKept DEF Done
<1>3. CASE BgetFresh(p)
  <2>1. PICK b \in Buf : buf' = [buf EXCEPT ![b] = Recycled(b, want[p])]
    BY <1>3 DEF BgetFresh
  <2>2. ~Recycled(b, want[p]).valid
    BY DEF Recycled, Sound, TypeOK
  <2>3. ~buf'[b].valid /\ \A d \in Buf \ {b} : buf'[d] = buf[d]
    BY <2>1, <2>2 DEF Sound, TypeOK
  <2> QED
    BY <1>1, <2>3, SyncedKept DEF Done
<1> QED
  BY <1>2, <1>3

\* bwrite() makes its buffer dirty.
LEMMA BwriteSynced ==
  ASSUME Sound, Synced, NEW p \in Procs, Bwrite(p)
  PROVE  Synced'
<1>1. UNCHANGED <<disk, ctl>>
  BY DEF Bwrite, ide
<1>b. PICK b \in Buf : b = Last(held[p])
  BY RunningHolds DEF Bwrite, At
<1>2. PICK v \in Vals : buf' = [buf EXCEPT ![b].data = <<buf[b].sector, v>>, ![b].dirty = TRUE]
  BY <1>b DEF Bwrite
<1>3. buf'[b].dirty /\ \A d \in Buf \ {b} : buf'[d] = buf[d]
  BY <1>2 DEF Sound, TypeOK
<1> QED
  BY <1>1, <1>3, SyncedKept DEF Done

\* brelse() only changes B_BUSY.
LEMMA BrelseSynced ==
  ASSUME Sound, Synced, NEW p \in Procs, Brelse(p)
  PROVE  Synced'
<1>1. UNCHANGED <<disk, ctl>>
  BY DEF Brelse, ide
<1>b. PICK b \in Buf : b = Last(held[p])
  BY RunningHolds DEF Brelse, At
<1>2. buf' = [buf EXCEPT ![b].busy = FALSE]
  BY <1>b DEF Brelse
<1>3. \A d \in Buf : /\ buf'[d].data = buf[d].data /\ buf'[d].sector = buf[d].sector
                     /\ buf'[d].valid = buf[d].valid /\ buf'[d].dirty = buf[d].dirty
  BY <1>2 DEF Sound, TypeOK
<1> QED
  BY <1>1, <1>3, SyncedKept DEF Done

\* iderw() gives the controller a command that is not done yet.
LEMMA IderwSynced ==
  ASSUME Sound, Synced, NEW p \in Procs, Iderw(p)
  PROVE  Synced'
<1>1. UNCHANGED <<buf, disk>> /\ (ctl' = ctl \/ \E b : ctl' = Command(b))
  BY DEF Iderw, cache
<1>2. ctl' = ctl \/ ~ctl'.done
  BY <1>1 DEF Command
<1> QED
  BY <1>1, <1>2 DEF Synced, Done

\* The disk writes a block whose only copy is the dirty buffer, or reads one.
LEMMA DiskDoneSynced ==
  ASSUME Sound, Synced, DiskDone
  PROVE  Synced'
<1>1. buf' = buf
  BY DEF DiskDone, cache
<1>b. PICK b \in Buf : b = Head(idequeue)
  BY CtlOK DEF DiskDone
<1>2. /\ ctl \in Commands /\ ctl # Idle /\ ctl.sector = buf[b].sector
      /\ ctl.op = "write" <=> buf[b].dirty
  BY <1>b, CtlOK DEF DiskDone
<1>3. disk \in [Sectors -> Data] /\ ctl.sector \in Sectors
  BY <1>2 DEF Sound, TypeOK, Commands
<1>4. CASE ctl.op = "write"
  <2>1. disk' = [disk EXCEPT ![ctl.sector] = ctl.data] /\ ctl' = [ctl EXCEPT !.done = TRUE]
    BY <1>4 DEF DiskDone
  <2>2. ctl'.data = disk'[ctl'.sector]
    BY <1>2, <1>3, <2>1 DEF Commands
  <2>3. ASSUME NEW d \in Buf, Done(d) PROVE buf[d].sector # ctl.sector /\ buf[d].sector \in Sectors
    <3>1. d # b
      BY <1>2, <1>4, <2>3 DEF Done
    <3>2. buf[d].sector \in Sectors
      BY <2>3 DEF Sound, FlagsOK, Done
    <3> QED
      BY <1>2, <3>1, <3>2, Sets DEF Sound, OneCopy
  <2>4. \A d \in Buf : Done(d) => disk'[buf[d].sector] = disk[buf[d].sector]
    BY <1>3, <2>1, <2>3
  <2> QED
    BY <1>1, <2>2, <2>4 DEF Synced, Done
<1>5. CASE ctl.op # "write"
  <2>1. disk' = disk /\ ctl' = [ctl EXCEPT !.done = TRUE, !.data = disk[ctl.sector]]
    BY <1>5 DEF DiskDone
  <2>2. ctl'.data = disk'[ctl'.sector]
    BY <1>2, <2>1 DEF Commands
  <2> QED
    BY <1>1, <2>1, <2>2 DEF Synced, Done
<1> QED
  BY <1>4, <1>5

\* What ideintr() does to the buffer it serves and to the others, when the
\* disk does not fail.
LEMMA Served ==
  ASSUME Sound, Synced, ReadErrors = FALSE, Ideintr
  PROVE  \E b \in Buf :
            /\ \A d \in Buf \ {b} : buf'[d] = buf[d]
            /\ buf'[b].sector = buf[b].sector /\ buf[b].sector \in Sectors
            /\ Done(b)'
            /\ buf'[b].data = disk[buf[b].sector]
            /\ buf[b].dirty => buf[b].data = disk[buf[b].sector]
            /\ disk' = disk
            /\ held' = held
<1>b. PICK b \in Buf : b = Head(idequeue)
  BY CtlOK DEF Ideintr
<1>1. /\ ctl \in Commands /\ ctl # Idle /\ ctl.done /\ ctl.sector = buf[b].sector
      /\ ctl.op = "write" <=> buf[b].dirty
      /\ ctl.op = "write" => ctl.data = buf[b].data
  BY <1>b, CtlOK DEF Ideintr
<1>2. ctl.data = disk[buf[b].sector] /\ buf[b].sector \in Sectors
  BY <1>1 DEF Synced, Commands
<1>3. buf' = [buf EXCEPT ![b] = Transferred(buf[b], FALSE)] /\ disk' = disk /\ held' = held
  <2>1. \A err \in {FALSE, ReadErrors} : err = FALSE
    OBVIOUS
  <2>2. PICK err \in {FALSE, ReadErrors} : buf' = [buf EXCEPT ![b] = Transferred(@, err)]
    BY <1>b DEF Ideintr
  <2>3. buf' = [buf EXCEPT ![b] = Transferred(buf[b], FALSE)]
    BY <2>1, <2>2
  <2> QED
    BY <2>3 DEF Ideintr
<1>4. buf[b] \in BufType
  BY DEF Sound, TypeOK, BufType
<1>5. /\ Transferred(buf[b], FALSE).sector = buf[b].sector
      /\ Transferred(buf[b], FALSE).valid /\ ~Transferred(buf[b], FALSE).dirty
      /\ Transferred(buf[b], FALSE).data = IF ~buf[b].dirty THEN ctl.data ELSE buf[b].data
  BY <1>4 DEF Transferred, BufType
<1>6. /\ \A d \in Buf \ {b} : buf'[d] = buf[d]
      /\ buf'[b] = Transferred(buf[b], FALSE)
  BY <1>3 DEF Sound, TypeOK
<1>7. Done(b)'
  BY <1>5, <1>6 DEF Done
<1> QED
  BY <1>1, <1>2, <1>3, <1>5, <1>6, <1>7

\* ideintr() leaves the buffer it serves with the contents of its block.
LEMMA IdeintrSynced ==
  ASSUME Sound, Synced, ReadErrors = FALSE, Ideintr
  PROVE  Synced'
<1>1. PICK b \in Buf :
         /\ \A d \in Buf \ {b} : buf'[d] = buf[d]
         /\ buf'[b].sector = buf[b].sector
         /\ buf'[b].data = disk[buf[b].sector]
         /\ disk' = disk
  BY Served
<1>2. ctl' = Idle \/ ~ctl'.done
  BY DEF Ideintr, NextCommand, Command
<1> QED
  BY <1>1, <1>2 DEF Synced, Done

\* Synced is kept by every step.
LEMMA NextSynced ==
  ASSUME ReadErrors = FALSE
  PROVE  Sound /\ Synced /\ [Next]_vars => Synced'
<1> SUFFICES ASSUME Sound, Synced, [Next]_vars PROVE Synced'
  OBVIOUS
<1>1. ASSUME UNCHANGED <<buf, disk, ctl>> PROVE Synced'
  BY <1>1 DEF Synced, Done
<1>2. ASSUME NEW p \in Procs, Step(p) PROVE Synced'
  <2>1. CASE BgetSleep(p) \/ BgetPanic(p) \/ IderwTest(p)
    BY <1>1, <2>1 DEF BgetSleep, BgetPanic, IderwTest, cache, ide
  <2> QED
    BY <1>2, <2>1, BgetSynced, IderwSynced DEF Step
<1>3. ASSUME NEW p \in Procs, Bread(p) \/ Bwrite(p) \/ Brelse(p) PROVE Synced'
  <2>1. CASE Bread(p)
    BY <1>1, <2>1 DEF Bread, cache, ide
  <2> QED
    BY <1>3, <2>1, BwriteSynced, BrelseSynced
<1>4. ASSUME UNCHANGED vars PROVE Synced'
  BY <1>1, <1>4 DEF vars, cache, ide
<1> QED
  BY <1>2, <1>3, <1>4, DiskDoneSynced, IdeintrSynced DEF Next, Halt

\* No copy is stale, whatever races for it, as long as the disk reports no
\* error: each buffer has one user, each block one copy, a valid clean buffer
\* equals its block and a process back from bread() or bwrite() has such
\* buffers only.
THEOREM CacheCoherent ==
  ASSUME ReadErrors = FALSE
  PROVE  Spec => []Coherent
<1>1. Sound /\ Synced => Coherent
  BY DEF Sound, Synced, Coherent, ValidSynced, Done, Stages, InIo
<1>2. Spec => []Synced
  BY CacheSound, InitSynced, NextSynced, PTL DEF Spec
<1> QED
  BY <1>1, <1>2, CacheSound, PTL

----------------------------------------------------------------------------
(***************************************************************************)
(* The cache implements the store of blocks.                               *)
(***************************************************************************)

\* Contents, without its choices: of the dirty buffer, else of the disk.
ContentsOK ==
    /\ Contents = [s \in Sectors |-> Contents[s]]
    /\ \A b \in Buf : buf[b].dirty => Contents[buf[b].sector] = buf[b].data
    /\ \A s \in Sectors :
          (\A b \in Buf : buf[b].sector = s => ~buf[b].dirty) => Contents[s] = disk[s]

\* HolderOf, without its choices.
HolderOK ==
    /\ HolderOf = [s \in Sectors |-> HolderOf[s]]
    /\ \A s \in Sectors, p \in Procs, b \in Buf :
          (buf[b].sector = s /\ Holds(p, b)) => HolderOf[s] = p
    /\ \A s \in Sectors :
          (\A p \in Procs, b \in Buf : buf[b].sector = s => ~Holds(p, b)) => HolderOf[s] = Nobody

\* The choices have one outcome: there is one copy and one user.
LEMMA ViewOK == Sound /\ Synced => ContentsOK /\ HolderOK
<1> SUFFICES ASSUME Sound, Synced PROVE ContentsOK /\ HolderOK
  OBVIOUS
<1>1. \A s \in Sectors : \A b, d \in Buf : (buf[b].sector = s /\ buf[d].sector = s) => b = d
  BY Sets DEF Sound, OneCopy
<1>2. ASSUME NEW s \in Sectors, NEW b \in Buf, buf[b].sector = s
      PROVE  /\ Caches(s) = {b}
             /\ (CHOOSE d \in Caches(s) : TRUE) = b
  <2>1. Caches(s) = {b}
    BY <1>1, <1>2 DEF Caches
  <2> QED
    BY <2>1
<1>3. ASSUME NEW s \in Sectors, NEW b \in Buf, buf[b].sector = s
      PROVE  Contents[s] = IF buf[b].valid \/ buf[b].dirty THEN buf[b].data ELSE disk[s]
  <2>1. Contents[s] = IF \E d \in Caches(s) : buf[d].valid \/ buf[d].dirty
                      THEN buf[CHOOSE d \in Caches(s) : TRUE].data ELSE disk[s]
    BY DEF Contents
  <2> QED
    BY <2>1, <1>2, <1>3
<1>4. ContentsOK
  <2>1. Contents = [s \in Sectors |-> Contents[s]]
    BY DEF Contents
  <2>2. ASSUME NEW b \in Buf, buf[b].dirty PROVE Contents[buf[b].sector] = buf[b].data
    <3>1. buf[b].sector \in Sectors
      <4>1. PICK q \in Procs : Holds(q, b)
        BY <2>2 DEF Sound, FlagsOK, BusyHeld
      <4> QED
        BY <4>1 DEF Holds, Sound, HeldOK
    <3> QED
      BY <3>1, <2>2, <1>3
  <2>3. ASSUME NEW s \in Sectors, \A b \in Buf : buf[b].sector = s => ~buf[b].dirty
        PROVE  Contents[s] = disk[s]
    <3>1. CASE \E b \in Buf : buf[b].sector = s
      <4>1. PICK b \in Buf : buf[b].sector = s
        BY <3>1
      <4>2. ~buf[b].dirty
        BY <2>3, <4>1
      <4>3. buf[b].valid => buf[b].data = disk[s]
        BY <4>1, <4>2 DEF Synced, Done
      <4> QED
        BY <1>3, <4>1, <4>2, <4>3
    <3>2. CASE \A b \in Buf : buf[b].sector # s
      BY <3>2 DEF Contents, Caches
    <3> QED
      BY <3>1, <3>2
  <2> QED
    BY <2>1, <2>2, <2>3 DEF ContentsOK
<1>5. HolderOK
  <2>1. HolderOf = [s \in Sectors |-> HolderOf[s]]
    BY DEF HolderOf
  <2>2. ASSUME NEW s \in Sectors, NEW p \in Procs, NEW b \in Buf, buf[b].sector = s, Holds(p, b)
        PROVE  HolderOf[s] = p
    <3>1. HolderOf[s] = IF \E q \in Procs, d \in Caches(s) : Holds(q, d)
                        THEN CHOOSE q \in Procs : \E d \in Caches(s) : Holds(q, d) ELSE Nobody
      BY DEF HolderOf
    <3>2. Caches(s) = {b}
      BY <1>2, <2>2
    <3>3. \A q \in Procs : (\E d \in Caches(s) : Holds(q, d)) => q = p
      BY <3>2, <2>2 DEF Sound, BusyHeld
    <3>4. \E q \in Procs : \E d \in Caches(s) : Holds(q, d)
      BY <3>2, <2>2
    <3>5. (CHOOSE q \in Procs : \E d \in Caches(s) : Holds(q, d)) = p
      BY <3>3, <3>4
    <3> QED
      BY <3>1, <3>4, <3>5
  <2>3. ASSUME NEW s \in Sectors,
               \A p \in Procs, b \in Buf : buf[b].sector = s => ~Holds(p, b)
        PROVE  HolderOf[s] = Nobody
    BY <2>3 DEF HolderOf, Caches
  <2> QED
    BY <2>1, <2>2, <2>3 DEF HolderOK
<1> QED
  BY <1>4, <1>5

\* The initial states map to initial states of the store.
LEMMA InitStore == Init => Store!StoreInit
<1> SUFFICES ASSUME Init PROVE Store!StoreInit
  OBVIOUS
<1>1. Sound /\ Synced /\ ContentsOK /\ HolderOK
  BY InitSound, InitSynced, ViewOK
<1>2. \A s \in Sectors : Contents[s] = disk[s] /\ disk[s] \in Sectors \X Vals
  BY <1>1 DEF ContentsOK, Init, Sound, TypeOK, Data
<1>3. Contents \in [Sectors -> Sectors \X Vals]
  BY <1>1, <1>2 DEF ContentsOK
<1>4. \A s \in Sectors : HolderOf[s] = Nobody
  <2>1. \A p \in Procs, b \in Buf : ~Holds(p, b)
    BY EmptySeq DEF Init, Holds
  <2> QED
    BY <2>1, <1>1 DEF HolderOK
<1>5. HolderOf = [s \in Sectors |-> Nobody]
  BY <1>1, <1>4 DEF HolderOK
<1> QED
  BY <1>3, <1>5 DEF Store!StoreInit

\* Two views that agree block by block are equal.
LEMMA SameContents ==
  ASSUME ContentsOK, ContentsOK', \A s \in Sectors : Contents'[s] = Contents[s]
  PROVE  Contents' = Contents
  BY DEF ContentsOK

\* The holders are the same when everybody holds the same buffers of the same
\* blocks.
LEMMA SameHolders ==
  ASSUME HolderOK, HolderOK',
         \A q \in Procs, d \in Buf : Holds(q, d)' <=> Holds(q, d),
         \A d \in Buf : buf'[d].sector = buf[d].sector
  PROVE  HolderOf' = HolderOf
<1>1. ASSUME NEW s \in Sectors PROVE HolderOf'[s] = HolderOf[s]
  <2>1. CASE \E q \in Procs, d \in Buf : buf[d].sector = s /\ Holds(q, d)
    <3>1. PICK q \in Procs, d \in Buf : buf[d].sector = s /\ Holds(q, d)
      BY <2>1
    <3>2. buf'[d].sector = s /\ Holds(q, d)'
      BY <3>1
    <3>3. HolderOf[s] = q
      BY <3>1 DEF HolderOK
    <3>4. HolderOf'[s] = q
      BY <3>2 DEF HolderOK
    <3> QED
      BY <3>3, <3>4
  <2>2. CASE \A q \in Procs, d \in Buf : buf[d].sector = s => ~Holds(q, d)
    <3>1. \A q \in Procs, d \in Buf : buf'[d].sector = s => ~Holds(q, d)'
      BY <2>2
    <3> QED
      BY <2>2, <3>1 DEF HolderOK
  <2> QED
    BY <2>1, <2>2
<1> QED
  BY <1>1 DEF HolderOK

\* Steps that leave the buffers and the disk alone are invisible.
LEMMA Invisible ==
  ASSUME UNCHANGED <<buf, disk, held>>
  PROVE  UNCHANGED Store!storeVars
<1>1. Contents' = Contents
  BY DEF Contents, Caches
<1>2. HolderOf' = HolderOf
  BY DEF HolderOf, Caches, Holds
<1> QED
  BY <1>1, <1>2 DEF Store!storeVars

\* Nobody but the holder changes, and contents do not, when the dirty buffers
\* stay and the disk does.
LEMMA ContentsKept ==
  ASSUME ContentsOK, ContentsOK', disk' = disk,
         \A b \in Buf : /\ buf'[b].dirty <=> buf[b].dirty
                        /\ buf[b].dirty => /\ buf'[b].sector = buf[b].sector
                                           /\ buf'[b].data = buf[b].data
  PROVE  Contents' = Contents
<1> SUFFICES ASSUME NEW s \in Sectors PROVE Contents'[s] = Contents[s]
  BY SameContents
<1>1. CASE \E b \in Buf : buf[b].sector = s /\ buf[b].dirty
  <2>1. PICK b \in Buf : buf[b].sector = s /\ buf[b].dirty
    BY <1>1
  <2>2. buf'[b].sector = s /\ buf'[b].dirty /\ buf'[b].data = buf[b].data
    BY <2>1
  <2>3. Contents[s] = buf[b].data
    BY <2>1 DEF ContentsOK
  <2>4. Contents'[s] = buf'[b].data
    BY <2>2 DEF ContentsOK
  <2> QED
    BY <2>2, <2>3, <2>4
<1>2. CASE \A b \in Buf : buf[b].sector = s => ~buf[b].dirty
  <2>1. \A b \in Buf : buf'[b].sector = s => ~buf'[b].dirty
    BY <1>2
  <2> QED
    BY <1>2, <2>1 DEF ContentsOK
<1> QED
  BY <1>1, <1>2

\* The disk writes the contents of a dirty buffer to its block: callers see
\* no change.
LEMMA DiskDoneStep ==
  ASSUME Sound, Synced, ContentsOK, ContentsOK', DiskDone
  PROVE  UNCHANGED Store!storeVars
<1>1. UNCHANGED <<buf, held>>
  BY DEF DiskDone, cache
<1>b. PICK b \in Buf : b = Head(idequeue)
  BY CtlOK DEF DiskDone
<1>2. /\ ctl \in Commands /\ ctl.sector = buf[b].sector
      /\ ctl.op = "write" <=> buf[b].dirty
  BY <1>b, CtlOK DEF DiskDone
<1>3. CASE ctl.op # "write"
  <2>1. disk' = disk
    BY <1>3 DEF DiskDone
  <2> QED
    BY <1>1, <2>1, Invisible
<1>4. CASE ctl.op = "write"
  <2>1. disk' = [disk EXCEPT ![ctl.sector] = ctl.data]
    BY <1>4 DEF DiskDone
  <2>2. \A s \in Sectors : s # buf[b].sector => disk'[s] = disk[s]
    BY <1>2, <2>1 DEF Sound, TypeOK
  <2>3. ASSUME NEW s \in Sectors PROVE Contents'[s] = Contents[s]
    <3>1. CASE \E d \in Buf : buf[d].sector = s /\ buf[d].dirty
      BY <3>1, <1>1 DEF ContentsOK
    <3>2. CASE \A d \in Buf : buf[d].sector = s => ~buf[d].dirty
      <4>1. disk'[s] = disk[s]
        BY <3>2, <2>2, <1>2, <1>4
      <4> QED
        BY <3>2, <4>1, <1>1 DEF ContentsOK
    <3> QED
      BY <3>1, <3>2
  <2>4. Contents' = Contents
    BY <2>3, SameContents
  <2>5. HolderOf' = HolderOf
    BY <1>1 DEF HolderOf, Caches, Holds
  <2> QED
    BY <2>4, <2>5 DEF Store!storeVars
<1> QED
  BY <1>3, <1>4

\* ideintr() is invisible too: what was written is on the disk by now, and
\* what was read came from there.
LEMMA IdeintrStep ==
  ASSUME Sound, Synced, ContentsOK, ContentsOK', HolderOK, HolderOK',
         ReadErrors = FALSE, Ideintr
  PROVE  UNCHANGED Store!storeVars
<1>1. PICK b \in Buf :
         /\ \A d \in Buf \ {b} : buf'[d] = buf[d]
         /\ buf'[b].sector = buf[b].sector /\ buf[b].sector \in Sectors
         /\ Done(b)'
         /\ buf'[b].data = disk[buf[b].sector]
         /\ buf[b].dirty => buf[b].data = disk[buf[b].sector]
         /\ disk' = disk
         /\ held' = held
  BY Served
<1>2. ASSUME NEW s \in Sectors PROVE Contents'[s] = Contents[s]
  <2>1. CASE s = buf[b].sector
    <3>1. \A d \in Buf : buf[d].sector = s => d = b
      BY <2>1, Sets DEF Sound, OneCopy
    <3>2. \A d \in Buf : buf'[d].sector = s => d = b
      BY <1>1, <3>1
    <3>3. Contents'[s] = disk[s]
      BY <1>1, <3>2 DEF ContentsOK, Done
    <3>4. Contents[s] = disk[s]
      BY <1>1, <2>1, <3>1 DEF ContentsOK
    <3> QED
      BY <3>3, <3>4
  <2>2. CASE s # buf[b].sector
    <3>1. \A d \in Buf : (buf[d].sector = s \/ buf'[d].sector = s) => buf'[d] = buf[d]
      BY <1>1, <2>2
    <3>2. CASE \E d \in Buf : buf[d].sector = s /\ buf[d].dirty
      <4>1. PICK d \in Buf : buf[d].sector = s /\ buf[d].dirty
        BY <3>2
      <4>2. buf'[d] = buf[d]
        BY <3>1, <4>1
      <4>3. Contents[s] = buf[d].data
        BY <4>1 DEF ContentsOK
      <4>4. Contents'[s] = buf'[d].data
        BY <4>1, <4>2 DEF ContentsOK
      <4> QED
        BY <4>2, <4>3, <4>4
    <3>3. CASE \A d \in Buf : buf[d].sector = s => ~buf[d].dirty
      <4>1. \A d \in Buf : buf'[d].sector = s => ~buf'[d].dirty
        BY <3>1, <3>3
      <4> QED
        BY <1>1, <3>3, <4>1 DEF ContentsOK
    <3> QED
      BY <3>2, <3>3
  <2> QED
    BY <2>1, <2>2
<1>3. Contents' = Contents
  BY <1>2, SameContents
<1>4. \A d \in Buf : buf'[d].sector = buf[d].sector
  BY <1>1
<1>5. HolderOf' = HolderOf
  <2>1. \A q \in Procs, d \in Buf : Holds(q, d)' <=> Holds(q, d)
    BY <1>1 DEF Holds
  <2> QED
    BY <1>4, <2>1, SameHolders
<1> QED
  BY <1>3, <1>5 DEF Store!storeVars

\* Process p gets buffer b, of a block that nobody has.
LEMMA LockStep ==
  ASSUME Sound, HolderOK, HolderOK', Contents' = Contents,
         NEW p \in Procs, NEW b \in Buf, NEW s \in Sectors, Free(b),
         \A d \in Buf : buf[d].sector = s => d = b,
         buf'[b].sector = s, \A d \in Buf \ {b} : buf'[d] = buf[d],
         \A q \in Procs, d \in Buf : Holds(q, d)' <=> (Holds(q, d) \/ (q = p /\ d = b))
  PROVE  Store!StoreLock(p, s)
<1>1. \A q \in Procs : ~Holds(q, b)
  BY FreeUnused
<1>2. HolderOf[s] = Nobody
  BY <1>1 DEF HolderOK
<1>3. HolderOf'[s] = p
  BY DEF HolderOK
<1>4. ASSUME NEW t \in Sectors, t # s PROVE HolderOf'[t] = HolderOf[t]
  <2>1. CASE \E q \in Procs, d \in Buf : buf[d].sector = t /\ Holds(q, d)
    <3>1. PICK q \in Procs, d \in Buf : buf[d].sector = t /\ Holds(q, d)
      BY <2>1
    <3>2. d # b
      BY <1>1, <3>1
    <3>3. buf'[d].sector = t /\ Holds(q, d)'
      BY <3>1, <3>2
    <3>4. HolderOf[t] = q
      BY <3>1 DEF HolderOK
    <3>5. HolderOf'[t] = q
      BY <3>3 DEF HolderOK
    <3> QED
      BY <3>4, <3>5
  <2>2. CASE \A q \in Procs, d \in Buf : buf[d].sector = t => ~Holds(q, d)
    <3>1. ASSUME NEW q \in Procs, NEW d \in Buf, buf'[d].sector = t PROVE ~Holds(q, d)'
      <4>1. d # b
        BY <3>1, <1>4
      <4> QED
        BY <4>1, <3>1, <2>2
    <3> QED
      BY <2>2, <3>1 DEF HolderOK
  <2> QED
    BY <2>1, <2>2
<1>5. HolderOf' = [HolderOf EXCEPT ![s] = p]
  BY <1>3, <1>4 DEF HolderOK
<1> QED
  BY <1>2, <1>5 DEF Store!StoreLock

\* bget() locks the block it was asked for.
LEMMA BgetStep ==
  ASSUME Sound, ContentsOK, ContentsOK', HolderOK, HolderOK',
         NEW p \in Procs, BgetHit(p) \/ BgetFresh(p)
  PROVE  Store!StoreLock(p, want[p])
<1>1. pc[p] = "bget" /\ want[p] \in Sectors /\ disk' = disk
  BY DEF BgetHit, BgetFresh, At, ide, Sound, HeldOK, InBget
<1>2. CASE BgetHit(p)
  <2>1. PICK b \in Buf : /\ buf[b].sector = want[p] /\ Free(b)
                         /\ buf' = [buf EXCEPT ![b].busy = TRUE]
                         /\ held' = [held EXCEPT ![p] = Append(held[p], b)]
    BY <1>2 DEF BgetHit, Caches
  <2>2. /\ \A d \in Buf \ {b} : buf'[d] = buf[d]
        /\ buf'[b].sector = want[p] /\ buf'[b].dirty = buf[b].dirty /\ buf'[b].data = buf[b].data
    BY <2>1 DEF Sound, TypeOK
  <2>3. Contents' = Contents
    BY <1>1, <2>1, <2>2, ContentsKept
  <2>4. \A d \in Buf : buf[d].sector = want[p] => d = b
    BY <1>1, <2>1, Sets DEF Sound, OneCopy
  <2>5. \A q \in Procs, d \in Buf : Holds(q, d)' <=> (Holds(q, d) \/ (q = p /\ d = b))
    BY <2>1, GotHolds
  <2> QED
    BY <1>1, <2>1, <2>2, <2>3, <2>4, <2>5, LockStep
<1>3. CASE BgetFresh(p)
  <2>1. PICK b \in Buf : /\ Free(b)
                         /\ buf' = [buf EXCEPT ![b] = Recycled(b, want[p])]
                         /\ held' = [held EXCEPT ![p] = Append(held[p], b)]
    BY <1>3 DEF BgetFresh, Idlest
  <2>2. Recycled(b, want[p]).sector = want[p] /\ ~Recycled(b, want[p]).dirty
    BY DEF Recycled, Sound, TypeOK
  <2>3. /\ \A d \in Buf \ {b} : buf'[d] = buf[d]
        /\ buf'[b].sector = want[p] /\ ~buf'[b].dirty
    BY <2>1, <2>2 DEF Sound, TypeOK
  <2>4. ~buf[b].dirty
    BY <2>1, FreeUnused
  <2>5. Contents' = Contents
    BY <1>1, <2>3, <2>4, ContentsKept
  <2>6. \A d \in Buf : buf[d].sector # want[p]
    BY <1>3 DEF BgetFresh, Caches
  <2>7. \A q \in Procs, d \in Buf : Holds(q, d)' <=> (Holds(q, d) \/ (q = p /\ d = b))
    BY <2>1, GotHolds
  <2> QED
    BY <1>1, <2>1, <2>3, <2>5, <2>6, <2>7, LockStep
<1> QED
  BY <1>2, <1>3

\* bwrite() changes a block that its caller has.
LEMMA BwriteStep ==
  ASSUME Sound, ContentsOK, ContentsOK', HolderOK, HolderOK', NEW p \in Procs, Bwrite(p)
  PROVE  \E s \in Sectors : Store!StoreWrite(p, s)
<1>1. disk' = disk /\ held' = held
  BY DEF Bwrite, ide
<1>b. PICK b \in Buf : b = Last(held[p])
  BY RunningHolds DEF Bwrite, At
<1>2. Holds(p, b) /\ buf[b].sector \in Sectors
  BY <1>b, RunningHolds DEF Bwrite, At
<1>s. PICK s \in Sectors : s = buf[b].sector
  BY <1>2
<1>3. PICK v \in Vals : buf' = [buf EXCEPT ![b].data = <<s, v>>, ![b].dirty = TRUE]
  BY <1>b, <1>s DEF Bwrite
<1>4. /\ \A d \in Buf \ {b} : buf'[d] = buf[d]
      /\ buf'[b].sector = s /\ buf'[b].dirty /\ buf'[b].data = <<s, v>>
  BY <1>3, <1>s DEF Sound, TypeOK
<1>5. HolderOf' = HolderOf
  <2>1. \A q \in Procs, d \in Buf : Holds(q, d)' <=> Holds(q, d)
    BY <1>1 DEF Holds
  <2>2. \A d \in Buf : buf'[d].sector = buf[d].sector
    BY <1>4, <1>s
  <2> QED
    BY <2>1, <2>2, SameHolders
<1>6. HolderOf[s] = p
  BY <1>2, <1>s DEF HolderOK
<1>7. Contents'[s] = <<s, v>>
  BY <1>4 DEF ContentsOK
<1>8. ASSUME NEW t \in Sectors, t # s PROVE Contents'[t] = Contents[t]
  <2>1. \A d \in Buf : (buf[d].sector = t \/ buf'[d].sector = t) => buf'[d] = buf[d]
    BY <1>4, <1>8, <1>s
  <2>2. CASE \E d \in Buf : buf[d].sector = t /\ buf[d].dirty
    <3>1. PICK d \in Buf : buf[d].sector = t /\ buf[d].dirty
      BY <2>2
    <3>2. buf'[d] = buf[d]
      BY <2>1, <3>1
    <3>3. Contents[t] = buf[d].data
      BY <3>1 DEF ContentsOK
    <3>4. Contents'[t] = buf'[d].data
      BY <3>1, <3>2 DEF ContentsOK
    <3> QED
      BY <3>2, <3>3, <3>4
  <2>3. CASE \A d \in Buf : buf[d].sector = t => ~buf[d].dirty
    <3>1. \A d \in Buf : buf'[d].sector = t => ~buf'[d].dirty
      BY <2>1, <2>3
    <3> QED
      BY <1>1, <2>3, <3>1 DEF ContentsOK
  <2> QED
    BY <2>2, <2>3
<1>9. Contents' = [Contents EXCEPT ![s] = <<s, v>>]
  BY <1>7, <1>8 DEF ContentsOK
<1> QED
  BY <1>5, <1>6, <1>9 DEF Store!StoreWrite

\* brelse() unlocks a block that its caller has.
LEMMA BrelseStep ==
  ASSUME Sound, ContentsOK, ContentsOK', HolderOK, HolderOK', NEW p \in Procs, Brelse(p)
  PROVE  \E s \in Sectors : Store!StoreUnlock(p, s)
<1>1. disk' = disk /\ pc[p] = "run" /\ held[p] # <<>>
  BY DEF Brelse, At, ide
<1>b. PICK b \in Buf : b = Last(held[p])
  BY <1>1, RunningHolds
<1>2. Holds(p, b) /\ buf[b].sector \in Sectors
  BY <1>1, <1>b, RunningHolds
<1>s. PICK s \in Sectors : s = buf[b].sector
  BY <1>2
<1>3. /\ buf' = [buf EXCEPT ![b].busy = FALSE]
      /\ held' = [held EXCEPT ![p] = Front(held[p])]
  BY <1>b DEF Brelse
<1>4. \A d \in Buf : /\ buf'[d].sector = buf[d].sector /\ buf'[d].data = buf[d].data
                     /\ buf'[d].dirty = buf[d].dirty
  BY <1>3 DEF Sound, TypeOK
<1>5. \A q \in Procs, d \in Buf : Holds(q, d)' <=> (Holds(q, d) /\ ~(q = p /\ d = b))
  BY <1>1, <1>b, <1>3, ReleasedHolds
<1>6. Contents' = Contents
  BY <1>1, <1>4, ContentsKept
<1>7. HolderOf[s] = p
  BY <1>2, <1>s DEF HolderOK
<1>8. HolderOf'[s] = Nobody
  <2>1. \A d \in Buf : buf'[d].sector = s => d = b
    BY <1>4, <1>s, Sets DEF Sound, OneCopy
  <2>2. \A q \in Procs : ~Holds(q, b)'
    BY <1>2, <1>5 DEF Sound, BusyHeld
  <2> QED
    BY <2>1, <2>2 DEF HolderOK
<1>9. ASSUME NEW t \in Sectors, t # s PROVE HolderOf'[t] = HolderOf[t]
  <2>1. CASE \E q \in Procs, d \in Buf : buf[d].sector = t /\ Holds(q, d)
    <3>1. PICK q \in Procs, d \in Buf : buf[d].sector = t /\ Holds(q, d)
      BY <2>1
    <3>2. d # b
      BY <1>9, <1>s, <3>1
    <3>3. buf'[d].sector = t /\ Holds(q, d)'
      BY <1>4, <1>5, <3>1, <3>2
    <3>4. HolderOf[t] = q
      BY <3>1 DEF HolderOK
    <3>5. HolderOf'[t] = q
      BY <3>3 DEF HolderOK
    <3> QED
      BY <3>4, <3>5
  <2>2. CASE \A q \in Procs, d \in Buf : buf[d].sector = t => ~Holds(q, d)
    <3>1. \A q \in Procs, d \in Buf : buf'[d].sector = t => ~Holds(q, d)'
      BY <2>2, <1>4, <1>5
    <3> QED
      BY <2>2, <3>1 DEF HolderOK
  <2> QED
    BY <2>1, <2>2
<1>10. HolderOf' = [HolderOf EXCEPT ![s] = Nobody]
  BY <1>8, <1>9 DEF HolderOK
<1> QED
  BY <1>6, <1>7, <1>10 DEF Store!StoreUnlock

\* Every step of the cache is a step of the store or invisible.
LEMMA NextStore ==
  ASSUME ReadErrors = FALSE
  PROVE  (/\ Sound /\ Synced /\ ContentsOK /\ HolderOK /\ ContentsOK' /\ HolderOK'
          /\ [Next]_vars) => [Store!StoreNext]_(Store!storeVars)
<1> SUFFICES ASSUME Sound, Synced, ContentsOK, HolderOK, ContentsOK', HolderOK', [Next]_vars
             PROVE  Store!StoreNext \/ UNCHANGED Store!storeVars
  OBVIOUS
<1>1. ASSUME NEW p \in Procs, Step(p)
      PROVE  Store!StoreNext \/ UNCHANGED Store!storeVars
  <2>1. CASE BgetHit(p) \/ BgetFresh(p)
    <3>1. want[p] \in Sectors
      BY <2>1 DEF BgetHit, BgetFresh, At, Sound, HeldOK, InBget
    <3> QED
      BY <2>1, <3>1, BgetStep DEF Store!StoreNext
  <2>2. CASE BgetSleep(p) \/ BgetPanic(p) \/ Iderw(p) \/ IderwTest(p)
    <3>1. UNCHANGED <<buf, disk, held>>
      BY <2>2 DEF BgetSleep, BgetPanic, Iderw, IderwTest, cache, ide
    <3> QED
      BY <3>1, Invisible
  <2> QED
    BY <1>1, <2>1, <2>2 DEF Step
<1>2. ASSUME NEW p \in Procs, Bread(p)
      PROVE  UNCHANGED Store!storeVars
  BY <1>2, Invisible DEF Bread, cache, ide
<1>3. ASSUME NEW p \in Procs, Bwrite(p) \/ Brelse(p)
      PROVE  Store!StoreNext
  BY <1>3, BwriteStep, BrelseStep DEF Store!StoreNext
<1>4. ASSUME UNCHANGED vars PROVE UNCHANGED Store!storeVars
  BY <1>4, Invisible DEF vars, cache, ide
<1> QED
  BY <1>1, <1>2, <1>3, <1>4, DiskDoneStep, IdeintrStep DEF Next, Halt

\* The cache and the driver implement a store of blocks, each locked by
\* bread(), changed by its holder alone and unlocked by brelse(), as long as
\* the disk reports no error.
THEOREM CacheIsStore ==
  ASSUME ReadErrors = FALSE
  PROVE  Spec => ImplementsStore
<1>1. Spec => []Synced
  BY CacheSound, InitSynced, NextSynced, PTL DEF Spec
<1>2. Spec => [](Sound /\ Synced /\ ContentsOK /\ HolderOK)
  BY <1>1, CacheSound, ViewOK, PTL
<1> QED
  BY <1>2, InitStore, NextStore, PTL DEF Spec, ImplementsStore, Store!StoreSpec

=============================================================================
