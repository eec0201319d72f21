----------------------------- MODULE PipeProofs -----------------------------
(***************************************************************************)
(* Proofs about the pipe, for any set of processes, any size of the ring   *)
(* and any width of its counters that is a multiple of that size.          *)
(***************************************************************************)
EXTENDS Pipe, NatLemmas, FiniteSetTheorems, SequenceTheorems, TLAPS

----------------------------------------------------------------------------
(***************************************************************************)
(* The counters.                                                           *)
(***************************************************************************)

\* The two counters are in their range.
CountersOK == nread \in 0..(CountMod - 1) /\ nwrite \in 0..(CountMod - 1)

\* The constants of the ring.
LEMMA Sizes ==
  PIPESIZE \in Nat \ {0} /\ CountMod \in Nat \ {0} /\ PIPESIZE < CountMod
  BY PipeAssumption

\* Who the processes are, and how much they read.
LEMMA Names == Creator \in Procs /\ Nobody \notin Procs /\ ReadSizes \subseteq Nat
  BY PipeAssumption

\* The difference of two counters.
LEMMA CountWraps ==
  ASSUME NEW a \in 0..(CountMod - 1), NEW b \in 0..(CountMod - 1)
  PROVE  /\ (a + CountMod - b) % CountMod \in 0..(CountMod - 1)
         /\ (a + CountMod - b) % CountMod = IF a >= b THEN a - b ELSE a + CountMod - b
  BY Sizes, DiffWraps

\* The number of bytes, without the remainder.
LEMMA CountIs ==
  CountersOK =>
    /\ Count \in 0..(CountMod - 1)
    /\ Count = IF nwrite >= nread THEN nwrite - nread ELSE nwrite + CountMod - nread
  BY CountWraps DEF Count, CountersOK

\* A counter moves on by n.
LEMMA Advances ==
  ASSUME NEW a \in 0..(CountMod - 1), NEW n \in 0..(CountMod - 1)
  PROVE  /\ (a + n) % CountMod \in 0..(CountMod - 1)
         /\ (a + n) % CountMod = IF a + n < CountMod THEN a + n ELSE a + n - CountMod
<1>1. n \in 0..CountMod
  BY Sizes
<1> QED
  BY <1>1, Sizes, AddWraps

\* Writing n bytes adds n to the number of bytes.
LEMMA CountWritten ==
  ASSUME CountersOK, NEW n \in Nat, Count + n <= PIPESIZE,
         nread' = nread, nwrite' = (nwrite + n) % CountMod
  PROVE  CountersOK' /\ Count' = Count + n
<1>1. n \in 0..(CountMod - 1) /\ Count \in 0..(CountMod - 1)
  <2> HIDE DEF Count
  <2> QED
    BY CountIs, Sizes
<1>2. /\ nwrite' \in 0..(CountMod - 1)
      /\ nwrite' = IF nwrite + n < CountMod THEN nwrite + n ELSE nwrite + n - CountMod
  BY <1>1, Advances DEF CountersOK
<1>3. CountersOK'
  BY <1>2 DEF CountersOK
<1>4. Count' = IF nwrite' >= nread' THEN nwrite' - nread'
                                    ELSE nwrite' + CountMod - nread'
  BY <1>3, CountWraps DEF Count, CountersOK
<1> QED
  BY <1>1, <1>2, <1>3, <1>4, CountIs, Sizes DEF CountersOK

\* Reading n bytes takes n from the number of bytes.
LEMMA CountRead ==
  ASSUME CountersOK, NEW n \in Nat, n <= Count,
         nwrite' = nwrite, nread' = (nread + n) % CountMod
  PROVE  CountersOK' /\ Count' = Count - n
<1>1. n \in 0..(CountMod - 1) /\ Count \in 0..(CountMod - 1)
  <2> HIDE DEF Count
  <2> QED
    BY CountIs, Sizes
<1>2. /\ nread' \in 0..(CountMod - 1)
      /\ nread' = IF nread + n < CountMod THEN nread + n ELSE nread + n - CountMod
  BY <1>1, Advances DEF CountersOK
<1>3. CountersOK'
  BY <1>2 DEF CountersOK
<1>4. Count' = IF nwrite' >= nread' THEN nwrite' - nread'
                                    ELSE nwrite' + CountMod - nread'
  BY <1>3, CountWraps DEF Count, CountersOK
<1> QED
  BY <1>1, <1>2, <1>3, <1>4, CountIs, Sizes DEF CountersOK

----------------------------------------------------------------------------
(***************************************************************************)
(* Types.                                                                  *)
(***************************************************************************)

\* The control points.
PcSet == {"none", "run", "read", "r_doze", "r_sleep", "write", "w_doze", "w_sleep"}

\* Initially the pipe is empty.
LEMMA InitTypeOK == Init => TypeOK
<1> SUFFICES ASSUME Init PROVE TypeOK
  OBVIOUS
<1>1. CountersOK /\ nwrite = nread
  BY Sizes DEF Init, CountersOK
<1>2. Count = 0
  BY <1>1, CountIs DEF CountersOK
<1>3. /\ data \in [0..(PIPESIZE - 1) -> Bytes \cup {Junk}]
      /\ open \in [Ends -> BOOLEAN] /\ freed \in BOOLEAN
      /\ plock \in Procs \cup {Nobody}
      /\ ref \in [Ends -> Nat]
      /\ fds \in [Procs -> SUBSET Ends]
      /\ closing \in [Procs -> Ends \cup {"none"}]
      /\ killed \in [Procs -> BOOLEAN]
      /\ want \in [Procs -> ReadSizes \cup {0}]
  BY DEF Init
<1>4. pc \in [Procs -> PcSet]
  BY DEF Init, PcSet
<1>5. out \in [Procs -> Seq(Bytes)]
  BY EmptySeq DEF Init
<1> QED
  BY <1>1, <1>2, <1>3, <1>4, <1>5, Sizes DEF TypeOK, CountersOK, PcSet

\* wakeup() leaves every process at a control point.
LEMMA WokenType ==
  ASSUME pc \in [Procs -> PcSet], NEW e
  PROVE  Woken(pc, e) \in [Procs -> PcSet]
  BY DEF Woken, PcSet

\* The bytes that pipewrite() copies: no more than the ring has room for, nor
\* than there are left.
LEMMA RoomType ==
  ASSUME TypeOK, NEW p \in Procs
  PROVE  /\ Room(p) \in 0..Len(out[p]) /\ Count + Room(p) <= PIPESIZE
         /\ Count \in Nat
         /\ Room(p) < Len(out[p]) => Count + Room(p) = PIPESIZE
<1>1. CountersOK /\ Len(out[p]) \in Nat
  BY DEF TypeOK, CountersOK
<1>2. Count \in Nat /\ Count <= PIPESIZE
  BY <1>1, CountIs DEF TypeOK
<1> HIDE DEF Count
<1> QED
  BY <1>1, <1>2, Sizes DEF Room, Smaller

\* What is left to write after n bytes.
LEMMA RestType ==
  ASSUME NEW s \in Seq(Bytes), NEW n \in 0..Len(s)
  PROVE  /\ SubSeq(s, n + 1, Len(s)) \in Seq(Bytes)
         /\ SubSeq(s, 1, n) \in Seq(Bytes)
         /\ Len(SubSeq(s, n + 1, Len(s))) = Len(s) - n
         /\ Len(SubSeq(s, 1, n)) = n
         /\ (SubSeq(s, n + 1, Len(s)) = <<>>) <=> n = Len(s)
<1>1. Len(s) \in Nat /\ n \in Int /\ \A i \in 1..Len(s) : s[i] \in Bytes
  OBVIOUS
<1>4. \A i \in (n + 1)..Len(s) : s[i] \in Bytes
  BY <1>1
<1>5. \A i \in 1..n : s[i] \in Bytes
  BY <1>1
<1>2. /\ SubSeq(s, n + 1, Len(s)) \in Seq(Bytes)
      /\ Len(SubSeq(s, n + 1, Len(s))) = Len(s) - n
  BY <1>1, <1>4, SubSeqProperties
<1>3. SubSeq(s, 1, n) \in Seq(Bytes) /\ Len(SubSeq(s, 1, n)) = n
  BY <1>1, <1>5, SubSeqProperties
<1>6. ASSUME NEW t \in Seq(Bytes) PROVE t = <<>> <=> Len(t) = 0
  BY <1>6, EmptySeq
<1>7. SubSeq(s, n + 1, Len(s)) = <<>> <=> n = Len(s)
  <2> DEFINE t == SubSeq(s, n + 1, Len(s))
  <2>1. t \in Seq(Bytes) /\ Len(t) = Len(s) - n
    BY <1>2
  <2> HIDE DEF t
  <2>2. t = <<>> <=> n = Len(s)
    BY <1>1, <1>6, <2>1
  <2> QED
    BY <2>2 DEF t
<1> QED
  BY <1>2, <1>3, <1>7

\* The ring still holds bytes after a write.
LEMMA StoredType ==
  ASSUME TypeOK, NEW s \in Seq(Bytes), NEW n \in 0..Len(s)
  PROVE  Stored(s, n) \in [0..(PIPESIZE - 1) -> Bytes \cup {Junk}]
<1> SUFFICES ASSUME NEW i \in 0..(PIPESIZE - 1)
             PROVE  Stored(s, n)[i] \in Bytes \cup {Junk}
  BY DEF Stored
<1> DEFINE P(k) == (nwrite + k - 1) % PIPESIZE = i
<1> HIDE DEF P
<1>1. Stored(s, n)[i] = IF \E k \in 1..n : P(k) THEN s[CHOOSE k \in 1..n : P(k)]
                        ELSE data[i]
  BY DEF Stored, P
<1>2. CASE \E k \in 1..n : P(k)
  <2>1. (CHOOSE k \in 1..n : P(k)) \in 1..n
    BY <1>2
  <2>2. \A k \in 1..n : k \in 1..Len(s)
    OBVIOUS
  <2> QED
    BY <1>1, <1>2, <2>1, <2>2
<1>3. CASE ~\E k \in 1..n : P(k)
  BY <1>1, <1>3 DEF TypeOK
<1> QED
  BY <1>2, <1>3

----------------------------------------------------------------------------
(***************************************************************************)
(* The invariant.                                                          *)
(***************************************************************************)

\* The processes that have end e open.
Holders(e) == {p \in Procs : e \in fds[p]}

\* Who can reach the pipe: the references are the processes that have the end
\* open, whoever is inside the pipe has the end it uses, and an end without
\* references is open only until the one process that closes it is done.
Users ==
  /\ \A e \in Ends : IsFiniteSet(Holders(e)) /\ ref[e] = Cardinality(Holders(e))
  /\ \A e \in Ends : open[e] <=> ref[e] > 0 \/ \E p \in Procs : closing[p] = e
  /\ freed <=> \A e \in Ends : ~open[e]
  /\ \A p \in Procs :
        /\ Reading(p) => "r" \in fds[p]
        /\ Writing(p) => "w" \in fds[p]
        /\ closing[p] # "none" => ref[closing[p]] = 0 /\ pc[p] = "run"
        /\ pc[p] = "none" => fds[p] = {}
  /\ \A p, q \in Procs : closing[p] # "none" /\ closing[q] = closing[p] => p = q

\* Who holds the pipe's lock between two steps, and who has bytes to write.
Locked ==
  /\ \A p \in Procs : pc[p] \in {"r_doze", "w_doze"} <=> plock = p
  /\ \A p \in Procs : ~Writing(p) => out[p] = <<>>

\* Initially only the creator has the ends.
LEMMA InitUsers == Init => Users /\ Locked
<1> SUFFICES ASSUME Init PROVE Users /\ Locked
  OBVIOUS
<1>1. \A e \in Ends : Holders(e) = {Creator}
  BY Names DEF Init, Holders, Ends
<1>2. \A e \in Ends : IsFiniteSet(Holders(e)) /\ Cardinality(Holders(e)) = 1
  BY <1>1, FS_Singleton
<1>3. Locked
  BY Names DEF Init, Locked, Writing
<1>4. Users
  BY <1>2, Names DEF Init, Users, Reading, Writing, Ends
<1> QED
  BY <1>3, <1>4

\* A process that has an end open holds a reference to it, so that the end is
\* open, nobody closes it and the pipe is not freed.
LEMMA HolderRef ==
  ASSUME TypeOK, Users, NEW p \in Procs, NEW e \in fds[p]
  PROVE  /\ e \in Ends /\ ref[e] \in Nat \ {0} /\ open[e] /\ ~freed
         /\ \A q \in Procs : closing[q] # e
         /\ pc[p] # "none"
<1>1. e \in Ends /\ p \in Holders(e)
  BY DEF TypeOK, Holders
<1>2. Cardinality(Holders(e)) # 0 /\ Cardinality(Holders(e)) \in Nat
  BY <1>1, FS_EmptySet, FS_CardinalityType DEF Users
<1>3. ref[e] \in Nat \ {0}
  BY <1>1, <1>2 DEF Users
<1>4. open[e] /\ ~freed
  BY <1>1, <1>3 DEF Users
<1>5. \A q \in Procs : closing[q] # e
  BY <1>1, <1>3 DEF Users, Ends
<1> QED
  BY <1>1, <1>3, <1>4, <1>5 DEF Users

\* Nobody uses a freed pipe.
LEMMA UsersSafe == TypeOK /\ Users => EndsOK
<1> SUFFICES ASSUME TypeOK, Users PROVE NoUseAfterFree
  BY DEF EndsOK
<1>1. \A e \in Ends : ref[e] = Cardinality({p \in Procs : e \in fds[p]})
  BY DEF Users, Holders
<1>2. ASSUME NEW p \in Procs, Reading(p) PROVE ~freed /\ open["r"]
  BY <1>2, HolderRef DEF Users
<1>3. ASSUME NEW p \in Procs, Writing(p) PROVE ~freed /\ open["w"]
  BY <1>3, HolderRef DEF Users
<1>4. ASSUME NEW p \in Procs, closing[p] # "none" PROVE ~freed
  BY <1>4 DEF Users, TypeOK
<1> QED
  BY <1>1, <1>2, <1>3, <1>4 DEF NoUseAfterFree, Users

\* A step of the processes that leaves the ends alone keeps Users, if whoever
\* enters the pipe has the end it uses.
LEMMA UsersKept ==
  ASSUME TypeOK, Users, UNCHANGED <<open, freed, ref, fds, closing>>,
         \A q \in Procs :
            \/ pc'[q] = pc[q]
            \/ /\ pc[q] \notin {"none"} /\ closing[q] = "none"
               /\ pc'[q] # "none"
               /\ Reading(q)' => "r" \in fds[q]
               /\ Writing(q)' => "w" \in fds[q]
  PROVE  Users'
<1>1. \A e \in Ends : Holders(e)' = Holders(e)
  BY DEF Holders
<1>2. /\ \A e \in Ends : IsFiniteSet(Holders(e)') /\ ref'[e] = Cardinality(Holders(e)')
      /\ \A e \in Ends : open'[e] <=> ref'[e] > 0 \/ \E p \in Procs : closing'[p] = e
      /\ freed' <=> \A e \in Ends : ~open'[e]
      /\ \A p, q \in Procs : closing'[p] # "none" /\ closing'[q] = closing'[p] => p = q
  BY <1>1 DEF Users
<1>3. ASSUME NEW p \in Procs
      PROVE  /\ Reading(p)' => "r" \in fds'[p]
             /\ Writing(p)' => "w" \in fds'[p]
             /\ closing'[p] # "none" => ref'[closing'[p]] = 0 /\ pc'[p] = "run"
             /\ pc'[p] = "none" => fds'[p] = {}
  BY DEF Users, Reading, Writing
<1> QED
  BY <1>2, <1>3 DEF Users

\* wakeup() only takes sleepers back to their loops.
LEMMA WokenIs ==
  ASSUME TypeOK, NEW e \in Ends, NEW q \in Procs
  PROVE  \/ Woken(pc, e)[q] = pc[q]
         \/ e = "r" /\ pc[q] = "r_sleep" /\ Woken(pc, e)[q] = "read"
         \/ e = "w" /\ pc[q] = "w_sleep" /\ Woken(pc, e)[q] = "write"
  BY DEF Woken, Ends

\* The inductive invariant.
Sound == TypeOK /\ Users /\ Locked

----------------------------------------------------------------------------
(***************************************************************************)
(* Every step keeps the invariant.                                         *)
(***************************************************************************)

\* write() and read() by a process that has the end open.
LEMMA CallWriteSound ==
  ASSUME Sound, NEW p \in Procs, CallWrite(p)
  PROVE  Sound'
<1>1. PICK s \in Payloads : out' = [out EXCEPT ![p] = s]
  BY DEF CallWrite
<1>2. s \in Seq(Bytes)
  BY PipeAssumption
<1>3. /\ pc[p] = "run" /\ closing[p] = "none" /\ "w" \in fds[p]
      /\ pc' = [pc EXCEPT ![p] = "write"]
      /\ UNCHANGED <<data, nread, nwrite, open, freed, plock, ref, fds, closing, killed, want>>
  BY DEF CallWrite, At, ring, files
<1>4. Count' = Count
  BY <1>3 DEF Count
<1>5. TypeOK'
  BY <1>1, <1>2, <1>3, <1>4 DEF Sound, TypeOK
<1>6. Users'
  BY <1>3, UsersKept DEF Sound, TypeOK, Reading, Writing
<1>7. Locked'
  BY <1>1, <1>3 DEF Sound, TypeOK, Locked, Writing
<1> QED
  BY <1>5, <1>6, <1>7 DEF Sound

\* The same of read().
LEMMA CallReadSound ==
  ASSUME Sound, NEW p \in Procs, CallRead(p)
  PROVE  Sound'
<1>1. PICK n \in ReadSizes : want' = [want EXCEPT ![p] = n]
  BY DEF CallRead
<1>2. /\ pc[p] = "run" /\ closing[p] = "none" /\ "r" \in fds[p]
      /\ pc' = [pc EXCEPT ![p] = "read"]
      /\ UNCHANGED <<data, nread, nwrite, open, freed, plock, ref, fds, closing, killed, out>>
  BY DEF CallRead, At, ring, files
<1>3. Count' = Count
  BY <1>2 DEF Count
<1>4. TypeOK'
  BY <1>1, <1>2, <1>3 DEF Sound, TypeOK
<1>5. Users'
  BY <1>2, UsersKept DEF Sound, TypeOK, Reading, Writing
<1>6. Locked'
  BY <1>2 DEF Sound, TypeOK, Locked, Writing
<1> QED
  BY <1>4, <1>5, <1>6 DEF Sound

\* fork() counts one more reference for each end that the child gets.
LEMMA ForkSound ==
  ASSUME Sound, NEW p \in Procs, Fork(p)
  PROVE  Sound'
<1>1. PICK q \in Procs :
        /\ pc[q] = "none"
        /\ fds' = [fds EXCEPT ![q] = fds[p]]
        /\ pc' = [pc EXCEPT ![q] = "run"]
  BY DEF Fork
<1>2. /\ pc[p] = "run" /\ closing[p] = "none"
      /\ ref' = [e \in Ends |-> IF e \in fds[p] THEN ref[e] + 1 ELSE ref[e]]
      /\ UNCHANGED <<data, nread, nwrite, open, freed, plock, closing, killed, out, want>>
  BY DEF Fork, At, Dup, ring
<1>3. fds[q] = {} /\ closing[q] = "none"
  BY <1>1 DEF Sound, Users
<1>4. Count' = Count
  BY <1>2 DEF Count
<1>5. TypeOK'
  BY <1>1, <1>2, <1>4 DEF Sound, TypeOK
<1>6. ASSUME NEW e \in Ends
      PROVE  IsFiniteSet(Holders(e)') /\ ref'[e] = Cardinality(Holders(e)')
  <2>1. CASE e \in fds[p]
    <3>1. Holders(e)' = Holders(e) \cup {q} /\ q \notin Holders(e)
      BY <1>1, <1>3, <2>1 DEF Holders, Sound, TypeOK
    <3>2. IsFiniteSet(Holders(e)) /\ ref[e] = Cardinality(Holders(e))
      BY DEF Sound, Users
    <3>3. /\ IsFiniteSet(Holders(e) \cup {q})
          /\ Cardinality(Holders(e) \cup {q}) = Cardinality(Holders(e)) + 1
      BY <3>1, <3>2, FS_AddElement
    <3> QED
      BY <1>2, <2>1, <3>1, <3>2, <3>3
  <2>2. CASE e \notin fds[p]
    <3>1. Holders(e)' = Holders(e)
      BY <1>1, <1>3, <2>2 DEF Holders, Sound, TypeOK
    <3> QED
      BY <1>2, <2>2, <3>1 DEF Sound, Users
  <2> QED
    BY <2>1, <2>2
<1>7. ASSUME NEW e \in Ends PROVE ref'[e] > 0 <=> ref[e] > 0
  BY <1>2, HolderRef DEF Sound, TypeOK
<1>8. \A e \in Ends : open'[e] <=> ref'[e] > 0 \/ \E r \in Procs : closing'[r] = e
  BY <1>2, <1>7 DEF Sound, Users
<1>9. ASSUME NEW r \in Procs, closing[r] # "none"
      PROVE  ref'[closing[r]] = 0 /\ pc'[r] = "run"
  <2>1. closing[r] \in Ends /\ ref[closing[r]] = 0 /\ closing[r] \notin fds[p]
    BY <1>9, HolderRef DEF Sound, Users, TypeOK
  <2> QED
    BY <1>1, <1>2, <1>9, <2>1 DEF Sound, Users, TypeOK
<1>10. Users'
  <2>1. ASSUME NEW r \in Procs
        PROVE  /\ Reading(r)' => "r" \in fds'[r]
               /\ Writing(r)' => "w" \in fds'[r]
               /\ pc'[r] = "none" => fds'[r] = {}
    BY <1>1 DEF Sound, Users, Reading, Writing, TypeOK
  <2>2. freed' <=> \A e \in Ends : ~open'[e]
    BY <1>2 DEF Sound, Users
  <2>3. \A r, t \in Procs : closing'[r] # "none" /\ closing'[t] = closing'[r] => r = t
    BY <1>2 DEF Sound, Users
  <2> QED
    BY <1>2, <1>6, <1>8, <1>9, <2>1, <2>2, <2>3 DEF Users
<1>11. Locked'
  BY <1>1, <1>2 DEF Sound, TypeOK, Locked, Writing
<1> QED
  BY <1>5, <1>10, <1>11 DEF Sound

\* kill() takes a sleeper back to its loop.
LEMMA KillSound ==
  ASSUME Sound, NEW p \in Procs, Kill(p)
  PROVE  Sound'
<1>1. /\ pc[p] # "none" /\ killed' = [killed EXCEPT ![p] = TRUE]
      /\ pc' = [pc EXCEPT ![p] = IF pc[p] = "r_sleep" THEN "read"
                                 ELSE IF pc[p] = "w_sleep" THEN "write" ELSE pc[p]]
      /\ UNCHANGED <<data, nread, nwrite, open, freed, plock, ref, fds, closing, out, want>>
  BY DEF Kill, ring, files
<1>2. Count' = Count
  BY <1>1 DEF Count
<1>3. TypeOK'
  BY <1>1, <1>2 DEF Sound, TypeOK
<1>4. ASSUME NEW q \in Procs
      PROVE  \/ pc'[q] = pc[q]
             \/ pc[q] = "r_sleep" /\ pc'[q] = "read"
             \/ pc[q] = "w_sleep" /\ pc'[q] = "write"
  BY <1>1 DEF Sound, TypeOK
<1>5. Users'
  <2>1. ASSUME NEW q \in Procs, pc'[q] # pc[q]
        PROVE  /\ pc[q] # "none" /\ closing[q] = "none" /\ pc'[q] # "none"
               /\ Reading(q)' => "r" \in fds[q]
               /\ Writing(q)' => "w" \in fds[q]
    BY <1>4, <2>1 DEF Sound, Users, Reading, Writing
  <2> QED
    BY <1>1, <2>1, UsersKept DEF Sound
<1>6. Locked'
  BY <1>1, <1>4 DEF Sound, Locked, Writing
<1> QED
  BY <1>3, <1>5, <1>6 DEF Sound

\* fileclose() drops one reference; whoever drops the last one closes the end.
LEMMA FilecloseSound ==
  ASSUME Sound, NEW p \in Procs, Fileclose(p)
  PROVE  Sound'
<1>1. PICK e \in fds[p] :
        /\ fds' = [fds EXCEPT ![p] = fds[p] \ {e}]
        /\ ref' = [ref EXCEPT ![e] = ref[e] - 1]
        /\ closing' = [closing EXCEPT ![p] = IF ref'[e] > 0 THEN "none" ELSE e]
  BY DEF Fileclose
<1>2. /\ pc[p] = "run" /\ closing[p] = "none"
      /\ UNCHANGED <<data, nread, nwrite, open, freed, plock, pc, killed, out, want>>
  BY DEF Fileclose, At, ring
<1>3. /\ e \in Ends /\ ref[e] \in Nat \ {0} /\ open[e]
      /\ \A q \in Procs : closing[q] # e
  BY HolderRef DEF Sound
<1>4. Count' = Count
  BY <1>2 DEF Count
<1>5. TypeOK'
  BY <1>1, <1>2, <1>3, <1>4 DEF Sound, TypeOK
<1>6. ASSUME NEW d \in Ends
      PROVE  IsFiniteSet(Holders(d)') /\ ref'[d] = Cardinality(Holders(d)')
  <2>1. CASE d = e
    <3>1. Holders(d)' = Holders(d) \ {p} /\ p \in Holders(d)
      BY <1>1, <2>1 DEF Holders, Sound, TypeOK
    <3>2. IsFiniteSet(Holders(d)) /\ ref[d] = Cardinality(Holders(d))
      BY DEF Sound, Users
    <3>3. /\ IsFiniteSet(Holders(d) \ {p})
          /\ Cardinality(Holders(d) \ {p}) = Cardinality(Holders(d)) - 1
      BY <3>1, <3>2, FS_RemoveElement
    <3> QED
      BY <1>1, <1>3, <2>1, <3>1, <3>2, <3>3 DEF Sound, TypeOK
  <2>2. CASE d # e
    <3>1. Holders(d)' = Holders(d)
      BY <1>1, <2>2 DEF Holders, Sound, TypeOK
    <3> QED
      BY <1>1, <1>3, <2>2, <3>1 DEF Sound, Users, TypeOK
  <2> QED
    BY <2>1, <2>2
<1>7. ASSUME NEW d \in Ends
      PROVE  open'[d] <=> ref'[d] > 0 \/ \E q \in Procs : closing'[q] = d
  <2>1. CASE d = e
    BY <1>1, <1>2, <1>3, <2>1 DEF Sound, Users, TypeOK
  <2>2. CASE d # e
    <3>1. ref'[d] = ref[d]
      BY <1>1, <1>3, <2>2 DEF Sound, TypeOK
    <3>2. ASSUME NEW q \in Procs PROVE closing'[q] = d <=> closing[q] = d
      BY <1>1, <1>2, <1>3, <2>2 DEF Sound, TypeOK, Ends
    <3> QED
      BY <1>2, <3>1, <3>2 DEF Sound, Users
  <2> QED
    BY <2>1, <2>2
<1>8. ASSUME NEW q \in Procs, closing'[q] # "none"
      PROVE  ref'[closing'[q]] = 0 /\ pc'[q] = "run"
  BY <1>1, <1>2, <1>3, <1>8 DEF Sound, Users, TypeOK
<1>9. ASSUME NEW q \in Procs, NEW r \in Procs, closing'[q] # "none", closing'[r] = closing'[q]
      PROVE  q = r
  BY <1>1, <1>3, <1>9 DEF Sound, Users, TypeOK
<1>10. Users'
  BY <1>1, <1>2, <1>6, <1>7, <1>8, <1>9 DEF Sound, Users, Reading, Writing, TypeOK
<1>11. Locked'
  BY <1>2 DEF Sound, Locked, Writing
<1> QED
  BY <1>5, <1>10, <1>11 DEF Sound

\* pipeclose() closes an end that nobody has open any more.
LEMMA PipecloseSound ==
  ASSUME Sound, NEW p \in Procs, Pipeclose(p)
  PROVE  Sound'
<1> DEFINE e == closing[p]
<1>1. e \in Ends /\ ref[e] = 0 /\ pc[p] = "run"
  BY DEF Pipeclose, Sound, Users, TypeOK
<1>2. /\ open' = [open EXCEPT ![e] = FALSE]
      /\ pc' = Woken(pc, Other(e))
      /\ freed' = \A d \in Ends : ~open'[d]
      /\ closing' = [closing EXCEPT ![p] = "none"]
      /\ UNCHANGED <<data, nread, nwrite, plock, ref, fds, killed, out, want>>
  BY DEF Pipeclose, CloseWakes, ring
<1> HIDE DEF e
<1>3. Other(e) \in Ends
  BY <1>1 DEF Other, Ends
<1>4. ASSUME NEW q \in Procs
      PROVE  \/ pc'[q] = pc[q]
             \/ pc[q] = "r_sleep" /\ pc'[q] = "read"
             \/ pc[q] = "w_sleep" /\ pc'[q] = "write"
  BY <1>2, <1>3, WokenIs DEF Sound
<1>5. Count' = Count
  BY <1>2 DEF Count
<1>6. pc' \in [Procs -> PcSet]
  BY <1>2, WokenType DEF Sound, TypeOK, PcSet
<1>7. TypeOK'
  BY <1>1, <1>2, <1>5, <1>6 DEF Sound, TypeOK, PcSet
<1>8. \A d \in Ends : Holders(d)' = Holders(d)
  BY <1>2 DEF Holders
<1>9. ASSUME NEW d \in Ends
      PROVE  open'[d] <=> ref'[d] > 0 \/ \E q \in Procs : closing'[q] = d
  BY <1>1, <1>2 DEF Sound, Users, TypeOK, Ends, e
<1>10. ASSUME NEW q \in Procs
       PROVE  /\ Reading(q)' => "r" \in fds'[q]
              /\ Writing(q)' => "w" \in fds'[q]
              /\ pc'[q] = "none" => fds'[q] = {}
              /\ closing'[q] # "none" => ref'[closing'[q]] = 0 /\ pc'[q] = "run"
  BY <1>2, <1>4 DEF Sound, Users, Reading, Writing, TypeOK
<1>11. \A q, r \in Procs : closing'[q] # "none" /\ closing'[r] = closing'[q] => q = r
  BY <1>2 DEF Sound, Users, TypeOK
<1>12. Users'
  BY <1>2, <1>8, <1>9, <1>10, <1>11 DEF Sound, Users
<1>13. Locked'
  BY <1>2, <1>4 DEF Sound, Locked, Writing
<1> QED
  BY <1>7, <1>12, <1>13 DEF Sound

\* What pipewrite() does to the processes: it wakes readers or nobody, and the
\* writer returns or is about to sleep with the lock held.
LEMMA PipewriteIs ==
  ASSUME Sound, NEW p \in Procs, Pipewrite(p)
  PROVE  LET n    == Room(p)
             rest == SubSeq(out[p], n + 1, Len(out[p]))
         IN  /\ pc[p] = "write" /\ closing[p] = "none" /\ plock = Nobody
             /\ data' = Stored(out[p], n) /\ nwrite' = (nwrite + n) % CountMod
             /\ UNCHANGED <<nread, open, freed, ref, fds, closing, killed, want>>
             /\ \/ /\ rest = <<>> /\ pc' = [Woken(pc, "r") EXCEPT ![p] = "run"]
                   /\ out' = [out EXCEPT ![p] = <<>>] /\ plock' = Nobody
                \/ /\ rest # <<>> /\ (~open["r"] \/ killed[p])
                   /\ pc' = [pc EXCEPT ![p] = "run"]
                   /\ out' = [out EXCEPT ![p] = <<>>] /\ plock' = Nobody
                \/ /\ rest # <<>> /\ open["r"] /\ ~killed[p]
                   /\ pc' = [Woken(pc, "r") EXCEPT ![p] = "w_doze"]
                   /\ out' = [out EXCEPT ![p] = rest] /\ plock' = p
  BY DEF Pipewrite, At, files

\* pipewrite() stores what there is room for.
LEMMA PipewriteSound ==
  ASSUME Sound, NEW p \in Procs, Pipewrite(p)
  PROVE  Sound'
<1> DEFINE n    == Room(p)
           rest == SubSeq(out[p], n + 1, Len(out[p]))
<1>1. n \in 0..Len(out[p]) /\ Count + n <= PIPESIZE /\ n \in Nat
  <2>1. Len(out[p]) \in Nat
    BY DEF Sound, TypeOK
  <2> QED
    BY <2>1, RoomType DEF Sound
<1>2. out[p] \in Seq(Bytes) /\ rest \in Seq(Bytes) /\ <<>> \in Seq(Bytes)
  BY <1>1, RestType, EmptySeq DEF Sound, TypeOK
<1>3. /\ pc[p] = "write" /\ closing[p] = "none" /\ plock = Nobody
      /\ data' = Stored(out[p], n) /\ nwrite' = (nwrite + n) % CountMod
      /\ UNCHANGED <<nread, open, freed, ref, fds, closing, killed, want>>
  BY PipewriteIs
<1>4. /\ plock' \in {Nobody, p} /\ pc'[p] = IF plock' = p THEN "w_doze" ELSE "run"
      /\ out' = [out EXCEPT ![p] = IF plock' = p THEN rest ELSE <<>>]
      /\ pc' \in [Procs -> PcSet]
      /\ \A q \in Procs \ {p} :
            pc'[q] = pc[q] \/ (pc[q] = "r_sleep" /\ pc'[q] = "read")
  <2>1. Woken(pc, "r") \in [Procs -> PcSet] /\ pc \in [Procs -> PcSet] /\ p # Nobody
    BY WokenType, Names DEF Sound, TypeOK, PcSet
  <2>2. ASSUME NEW st \in {"run", "w_doze"}
        PROVE  /\ [Woken(pc, "r") EXCEPT ![p] = st] \in [Procs -> PcSet]
               /\ [Woken(pc, "r") EXCEPT ![p] = st][p] = st
               /\ \A q \in Procs \ {p} : [Woken(pc, "r") EXCEPT ![p] = st][q] = Woken(pc, "r")[q]
    BY <2>1 DEF PcSet
  <2>3. ASSUME NEW q \in Procs
        PROVE  \/ Woken(pc, "r")[q] = pc[q]
               \/ pc[q] = "r_sleep" /\ Woken(pc, "r")[q] = "read"
    BY WokenIs DEF Sound, Ends
  <2>4. CASE /\ pc' = [Woken(pc, "r") EXCEPT ![p] = "run"]
             /\ out' = [out EXCEPT ![p] = <<>>] /\ plock' = Nobody
    BY <2>1, <2>2, <2>3, <2>4
  <2>5. CASE /\ pc' = [pc EXCEPT ![p] = "run"]
             /\ out' = [out EXCEPT ![p] = <<>>] /\ plock' = Nobody
    <3> HIDE DEF rest
    <3> QED
      BY <2>1, <2>5 DEF PcSet
  <2>6. CASE /\ pc' = [Woken(pc, "r") EXCEPT ![p] = "w_doze"]
             /\ out' = [out EXCEPT ![p] = rest] /\ plock' = p
    BY <2>1, <2>2, <2>3, <2>6
  <2> QED
    BY <2>4, <2>5, <2>6, PipewriteIs
<1> HIDE DEF n, rest
<1>5. CountersOK' /\ Count' = Count + n
  BY <1>1, <1>3, CountWritten DEF Sound, TypeOK, CountersOK
<1>6. data' \in [0..(PIPESIZE - 1) -> Bytes \cup {Junk}]
  BY <1>1, <1>2, <1>3, StoredType DEF Sound
<1>7. TypeOK'
  BY <1>1, <1>2, <1>3, <1>4, <1>5, <1>6 DEF Sound, TypeOK, PcSet, CountersOK
<1>8. Users'
  <2>1. "w" \in fds[p]
    BY <1>3 DEF Sound, Users, Writing
  <2>2. ASSUME NEW q \in Procs, pc'[q] # pc[q]
        PROVE  /\ pc[q] # "none" /\ closing[q] = "none" /\ pc'[q] # "none"
               /\ Reading(q)' => "r" \in fds[q]
               /\ Writing(q)' => "w" \in fds[q]
    BY <1>3, <1>4, <2>1, <2>2 DEF Sound, Users, Reading, Writing
  <2> QED
    BY <1>3, <2>2, UsersKept DEF Sound
<1>9. Locked'
  <2>1. \A q \in Procs : q # Nobody /\ pc[q] \notin {"r_doze", "w_doze"}
    BY <1>3, Names DEF Sound, Locked
  <2>2. ASSUME NEW q \in Procs
        PROVE  pc'[q] \in {"r_doze", "w_doze"} <=> plock' = q
    BY <1>4, <2>1
  <2>3. ASSUME NEW q \in Procs, ~Writing(q)'
        PROVE  out'[q] = <<>>
    <3>1. CASE q = p
      BY <1>4, <2>3, <3>1 DEF Writing, Sound, TypeOK
    <3>2. CASE q # p
      BY <1>4, <2>3, <3>2 DEF Writing, Sound, TypeOK, Locked
    <3> QED
      BY <3>1, <3>2
  <2> QED
    BY <2>2, <2>3 DEF Locked
<1> QED
  BY <1>7, <1>8, <1>9 DEF Sound

\* piperead() of an empty pipe fails, or goes to sleep with the lock held.
LEMMA PipereadEmptySound ==
  ASSUME Sound, NEW p \in Procs, PipereadEmpty(p)
  PROVE  Sound'
<1>1. /\ pc[p] = "read" /\ closing[p] = "none" /\ plock = Nobody
      /\ UNCHANGED <<data, nread, nwrite, open, freed, ref, fds, closing, killed, out>>
      /\ \/ /\ pc' = [pc EXCEPT ![p] = "run"] /\ want' = [want EXCEPT ![p] = 0]
            /\ plock' = Nobody
         \/ /\ pc' = [pc EXCEPT ![p] = "r_doze"] /\ want' = want /\ plock' = p
  BY DEF PipereadEmpty, At, ring, files
<1>2. Count' = Count
  BY <1>1 DEF Count
<1>3. TypeOK'
  BY <1>1, <1>2 DEF Sound, TypeOK
<1>4. Users'
  <2>1. "r" \in fds[p]
    BY <1>1 DEF Sound, Users, Reading
  <2> QED
    BY <1>1, <2>1, UsersKept DEF Sound, TypeOK, Reading, Writing
<1>5. Locked'
  <2>1. \A q \in Procs : q # Nobody /\ pc[q] \notin {"r_doze", "w_doze"}
    BY <1>1, Names DEF Sound, Locked
  <2>2. ASSUME NEW q \in Procs
        PROVE  /\ pc'[q] \in {"r_doze", "w_doze"} <=> plock' = q
               /\ Writing(q)' <=> Writing(q)
    BY <1>1, <2>1 DEF Sound, TypeOK, Writing
  <2> QED
    BY <1>1, <2>2 DEF Sound, Locked
<1> QED
  BY <1>3, <1>4, <1>5 DEF Sound

\* piperead() takes no more than there is.
LEMMA PipereadSound ==
  ASSUME Sound, NEW p \in Procs, Piperead(p)
  PROVE  Sound'
<1> DEFINE n == Smaller(Count, want[p])
<1>1. Count \in Nat /\ want[p] \in Nat
  <2>1. Count \in Nat
    BY CountIs, Sizes DEF Sound, TypeOK, CountersOK
  <2>2. want[p] \in ReadSizes \/ want[p] = 0
    BY DEF Sound, TypeOK
  <2>3. \A k \in ReadSizes : k \in Nat
    BY Names
  <2>4. want[p] \in Nat
    BY <2>2, <2>3
  <2> QED
    BY <2>1, <2>4
<1>2. n \in Nat /\ n <= Count
  <2> HIDE DEF Count
  <2> QED
    BY <1>1 DEF Smaller
<1>3. /\ pc[p] = "read" /\ closing[p] = "none" /\ plock = Nobody
      /\ nread' = (nread + n) % CountMod
      /\ pc' = [Woken(pc, "w") EXCEPT ![p] = "run"]
      /\ want' = [want EXCEPT ![p] = 0]
      /\ UNCHANGED <<data, nwrite, open, freed, plock, ref, fds, closing, killed, out>>
  BY DEF Piperead, At, files, ReadWakes
<1>4. CountersOK' /\ Count' = Count - n
  <2> HIDE DEF n
  <2> QED
    BY <1>2, <1>3, CountRead DEF Sound, TypeOK, CountersOK
<1>5. Count' <= PIPESIZE
  <2> HIDE DEF n, Count
  <2> QED
    BY <1>1, <1>2, <1>4, Sizes DEF Sound, TypeOK
<1> HIDE DEF n
<1>6. /\ pc' \in [Procs -> PcSet] /\ pc'[p] = "run"
      /\ \A q \in Procs \ {p} :
            pc'[q] = pc[q] \/ (pc[q] = "w_sleep" /\ pc'[q] = "write")
  <2>1. Woken(pc, "w") \in [Procs -> PcSet]
    BY WokenType DEF Sound, TypeOK, PcSet
  <2>2. ASSUME NEW q \in Procs
        PROVE  \/ Woken(pc, "w")[q] = pc[q]
               \/ pc[q] = "w_sleep" /\ Woken(pc, "w")[q] = "write"
    BY WokenIs DEF Sound, Ends
  <2> QED
    BY <1>3, <2>1, <2>2 DEF PcSet
<1>7. TypeOK'
  BY <1>3, <1>4, <1>5, <1>6 DEF Sound, TypeOK, PcSet, CountersOK
<1>8. Users'
  <2>1. ASSUME NEW q \in Procs, pc'[q] # pc[q]
        PROVE  /\ pc[q] # "none" /\ closing[q] = "none" /\ pc'[q] # "none"
               /\ Reading(q)' => "r" \in fds[q]
               /\ Writing(q)' => "w" \in fds[q]
    BY <1>3, <1>6, <2>1 DEF Sound, Users, Reading, Writing
  <2> QED
    BY <1>3, <2>1, UsersKept DEF Sound
<1>9. Locked'
  BY <1>3, <1>6, Names DEF Sound, Locked, Writing
<1> QED
  BY <1>7, <1>8, <1>9 DEF Sound

\* sleep() gives the lock back.
LEMMA SleepSound ==
  ASSUME Sound, NEW p \in Procs, Sleep(p)
  PROVE  Sound'
<1>1. /\ plock = p /\ plock' = Nobody
      /\ pc' = [pc EXCEPT ![p] = IF pc[p] = "r_doze" THEN "r_sleep" ELSE "w_sleep"]
      /\ UNCHANGED <<data, nread, nwrite, open, freed, ref, fds, closing, killed, out, want>>
  BY DEF Sleep, ring, files
<1>2. pc[p] \in {"r_doze", "w_doze"} /\ \A q \in Procs \ {p} : pc[q] \notin {"r_doze", "w_doze"}
  BY <1>1 DEF Sound, Locked
<1>3. Count' = Count
  BY <1>1 DEF Count
<1>4. TypeOK'
  BY <1>1, <1>3 DEF Sound, TypeOK
<1>5. Users'
  <2>1. ASSUME NEW q \in Procs, pc'[q] # pc[q]
        PROVE  /\ pc[q] # "none" /\ closing[q] = "none" /\ pc'[q] # "none"
               /\ Reading(q)' => "r" \in fds[q]
               /\ Writing(q)' => "w" \in fds[q]
    BY <1>1, <1>2, <2>1 DEF Sound, Users, Reading, Writing, TypeOK
  <2> QED
    BY <1>1, <2>1, UsersKept DEF Sound
<1>6. Locked'
  BY <1>1, <1>2, Names DEF Sound, TypeOK, Locked, Writing
<1> QED
  BY <1>4, <1>5, <1>6 DEF Sound

\* Nothing happens.
LEMMA StutterSound ==
  ASSUME Sound, UNCHANGED vars
  PROVE  Sound'
<1>1. /\ UNCHANGED <<data, nread, nwrite, open, freed, plock, ref, fds, closing,
                     pc, killed, out, want>>
  BY DEF vars, ring, files
<1>2. Count' = Count
  BY <1>1 DEF Count
<1>3. TypeOK'
  BY <1>1, <1>2 DEF Sound, TypeOK
<1>4. Users'
  BY <1>1, UsersKept DEF Sound
<1>5. Locked'
  BY <1>1 DEF Sound, Locked, Writing
<1> QED
  BY <1>3, <1>4, <1>5 DEF Sound

\* Every step keeps the invariant.
LEMMA NextSound == Sound /\ [Next]_vars => Sound'
<1> SUFFICES ASSUME Sound, [Next]_vars PROVE Sound'
  OBVIOUS
<1>1. CASE UNCHANGED vars
  BY <1>1, StutterSound
<1>2. CASE Next
  <2>1. PICK p \in Procs :
          \/ Pipewrite(p) \/ PipereadEmpty(p) \/ Piperead(p) \/ Sleep(p) \/ Pipeclose(p)
          \/ CallWrite(p) \/ CallRead(p) \/ Fork(p) \/ Kill(p) \/ Fileclose(p)
    BY <1>2 DEF Next, Step
  <2> QED
    BY <2>1, PipewriteSound, PipereadEmptySound, PipereadSound, SleepSound, PipecloseSound,
       CallWriteSound, CallReadSound, ForkSound, KillSound, FilecloseSound
<1> QED
  BY <1>1, <1>2

----------------------------------------------------------------------------
(***************************************************************************)
(* No lost wakeup.                                                         *)
(***************************************************************************)

\* NoLostWakeup, and the same of the processes that still hold the lock on
\* their way to sleep.
Asleep ==
  (\A p \in Procs : ~killed[p]) =>
     \A p \in Procs :
        /\ pc[p] \in {"r_doze", "r_sleep"} => Count = 0 /\ open["w"]
        /\ pc[p] \in {"w_doze", "w_sleep"} => Count = PIPESIZE /\ open["r"]

\* A step in which nobody goes to sleep, and the pipe stays as it is.
LEMMA AsleepKept ==
  ASSUME Asleep, UNCHANGED <<nread, nwrite, open>>,
         \A q \in Procs :
            /\ killed[q] => killed'[q]
            /\ pc'[q] \in {"r_doze", "r_sleep"} => pc[q] \in {"r_doze", "r_sleep"}
            /\ pc'[q] \in {"w_doze", "w_sleep"} => pc[q] \in {"w_doze", "w_sleep"}
  PROVE  Asleep'
<1>1. Count' = Count
  BY DEF Count
<1> QED
  BY <1>1 DEF Asleep

\* The steps outside of pipe.c put nobody to sleep.
LEMMA CallsAsleep ==
  ASSUME Sound, Asleep, NEW p \in Procs,
         CallWrite(p) \/ CallRead(p) \/ Fork(p) \/ Kill(p) \/ Fileclose(p) \/ Sleep(p)
  PROVE  Asleep'
<1>1. UNCHANGED <<nread, nwrite, open>>
  BY DEF CallWrite, CallRead, Fork, Kill, Fileclose, Sleep, ring
<1>2. ASSUME NEW q \in Procs PROVE killed[q] => killed'[q]
  BY DEF CallWrite, CallRead, Fork, Kill, Fileclose, Sleep, Sound, TypeOK
<1>3. ASSUME NEW q \in Procs
      PROVE  /\ pc'[q] \in {"r_doze", "r_sleep"} => pc[q] \in {"r_doze", "r_sleep"}
             /\ pc'[q] \in {"w_doze", "w_sleep"} => pc[q] \in {"w_doze", "w_sleep"}
  <2>1. CASE CallWrite(p) \/ CallRead(p) \/ Fork(p) \/ Fileclose(p)
    BY <2>1 DEF CallWrite, CallRead, Fork, Fileclose, Sound, TypeOK
  <2>2. CASE Kill(p)
    BY <2>2 DEF Kill, Sound, TypeOK
  <2>3. CASE Sleep(p)
    BY <2>3 DEF Sleep, Sound, TypeOK, Locked
  <2> QED
    BY <2>1, <2>2, <2>3
<1> QED
  BY <1>1, <1>2, <1>3, AsleepKept

\* pipeclose() wakes whoever waits for the end it closes.
LEMMA PipecloseAsleep ==
  ASSUME Sound, Asleep, NEW p \in Procs, Pipeclose(p)
  PROVE  Asleep'
<1> DEFINE e == closing[p]
<1>1. e \in Ends /\ plock = Nobody
  BY DEF Pipeclose, Sound, TypeOK
<1>2. /\ open' = [open EXCEPT ![e] = FALSE] /\ pc' = Woken(pc, Other(e))
      /\ UNCHANGED <<nread, nwrite, killed>>
  BY DEF Pipeclose, CloseWakes, ring
<1>3. Count' = Count
  BY <1>2 DEF Count
<1>4. ASSUME NEW q \in Procs
      PROVE  /\ pc[q] \notin {"r_doze", "w_doze"}
             /\ e = "r" => ~Reading(q)
             /\ e = "w" => ~Writing(q)
  <2>1. q # Nobody
    BY Names
  <2>2. e \notin fds[q]
    BY <1>1, HolderRef DEF Sound, Ends
  <2> QED
    BY <1>1, <2>1, <2>2 DEF Sound, Locked, Users
<1> HIDE DEF e
<1>5. CASE e = "r"
  <2>1. ASSUME NEW q \in Procs PROVE pc'[q] \notin {"r_doze", "r_sleep", "w_doze", "w_sleep"}
    <3>1. pc[q] \notin {"r_doze", "r_sleep", "w_doze"}
      BY <1>4, <1>5 DEF Reading
    <3> QED
      BY <1>2, <1>5, <3>1 DEF Woken, Other
  <2> QED
    BY <2>1 DEF Asleep
<1>6. CASE e = "w"
  <2>1. ASSUME NEW q \in Procs PROVE pc'[q] \notin {"r_doze", "r_sleep", "w_doze", "w_sleep"}
    <3>1. pc[q] \notin {"w_doze", "w_sleep", "r_doze"}
      BY <1>4, <1>6 DEF Writing
    <3> QED
      BY <1>2, <1>6, <3>1 DEF Woken, Other
  <2> QED
    BY <2>1 DEF Asleep
<1> QED
  BY <1>1, <1>5, <1>6 DEF Ends

\* pipewrite() wakes the readers; it goes to sleep only when the pipe is full.
LEMMA PipewriteAsleep ==
  ASSUME Sound, Asleep, NEW p \in Procs, Pipewrite(p)
  PROVE  Asleep'
<1> DEFINE n    == Room(p)
           rest == SubSeq(out[p], n + 1, Len(out[p]))
<1>1. SUFFICES ASSUME \A q \in Procs : ~killed'[q],
                      NEW q \in Procs
               PROVE  /\ pc'[q] \in {"r_doze", "r_sleep"} => Count' = 0 /\ open'["w"]
                      /\ pc'[q] \in {"w_doze", "w_sleep"} => Count' = PIPESIZE /\ open'["r"]
  BY DEF Asleep
<1>2. /\ pc[p] = "write" /\ plock = Nobody
      /\ nwrite' = (nwrite + n) % CountMod /\ UNCHANGED <<nread, open, killed>>
  BY PipewriteIs
<1>3. /\ n \in 0..Len(out[p]) /\ n \in Nat /\ Count + n <= PIPESIZE /\ Count \in Nat
      /\ n < Len(out[p]) => Count + n = PIPESIZE
      /\ (rest = <<>>) <=> n = Len(out[p])
  <2>1. Len(out[p]) \in Nat /\ out[p] \in Seq(Bytes)
    BY DEF Sound, TypeOK
  <2>2. /\ n \in 0..Len(out[p]) /\ Count + n <= PIPESIZE /\ Count \in Nat
        /\ n < Len(out[p]) => Count + n = PIPESIZE
    BY RoomType DEF Sound
  <2>3. (rest = <<>>) <=> n = Len(out[p])
    <3> HIDE DEF n
    <3> QED
      BY <2>1, <2>2, RestType
  <2> HIDE DEF n, rest
  <2> QED
    BY <2>1, <2>2, <2>3
<1>4. Count' = Count + n
  <2> HIDE DEF n
  <2> QED
    BY <1>2, <1>3, CountWritten DEF Sound, TypeOK, CountersOK
<1>5. pc[q] \notin {"r_doze", "w_doze"}
  BY <1>2, Names DEF Sound, Locked
<1>6. CASE q = p
  <2>1. /\ pc'[q] \notin {"r_doze", "r_sleep", "w_sleep"}
        /\ pc'[q] = "w_doze" => rest # <<>> /\ open["r"]
    BY <1>6, PipewriteIs, WokenType DEF Sound, TypeOK, PcSet
  <2>2. pc'[q] = "w_doze" => n < Len(out[p])
    <3> HIDE DEF n, rest
    <3>1. Len(out[p]) \in Nat
      BY DEF Sound, TypeOK
    <3> QED
      BY <1>3, <2>1, <3>1
  <2> HIDE DEF n, rest
  <2> QED
    BY <1>2, <1>3, <1>4, <2>1, <2>2
<1>7. CASE q # p
  <2>1. CASE pc' = [pc EXCEPT ![p] = "run"] /\ ~open["r"] /\ rest # <<>>
    <3>1. pc'[q] = pc[q] /\ ~Reading(q)
      BY <1>7, <2>1, HolderRef DEF Sound, TypeOK, Users
    <3>2. pc'[q] # "w_sleep"
      BY <1>1, <1>2, <2>1, <3>1 DEF Asleep
    <3> QED
      BY <1>5, <3>1, <3>2 DEF Reading
  <2>2. CASE \E st \in {"run", "w_doze"} : pc' = [Woken(pc, "r") EXCEPT ![p] = st]
    <3>1. pc'[q] = Woken(pc, "r")[q]
      BY <1>7, <2>2, WokenType DEF Sound, TypeOK, PcSet
    <3>2. pc'[q] \notin {"r_doze", "r_sleep", "w_doze"} /\ (pc'[q] = "w_sleep" => pc[q] = "w_sleep")
      BY <1>5, <3>1 DEF Woken
    <3>3. pc'[q] = "w_sleep" => Count = PIPESIZE /\ open["r"]
      BY <1>1, <1>2, <3>2 DEF Asleep
    <3> HIDE DEF n
    <3> QED
      BY <1>2, <1>3, <1>4, <3>2, <3>3, Sizes
  <2> QED
    BY <1>1, <1>2, <2>1, <2>2, PipewriteIs
<1> QED
  BY <1>6, <1>7

\* piperead() goes to sleep only when the pipe is empty.
LEMMA PipereadEmptyAsleep ==
  ASSUME Sound, Asleep, NEW p \in Procs, PipereadEmpty(p)
  PROVE  Asleep'
<1>1. /\ Count = 0 /\ open["w"]
      /\ UNCHANGED <<nread, nwrite, open, killed>>
      /\ pc' = [pc EXCEPT ![p] = "run"] \/ pc' = [pc EXCEPT ![p] = "r_doze"]
  BY DEF PipereadEmpty, ring
<1>2. Count' = Count
  BY <1>1 DEF Count
<1> QED
  BY <1>1, <1>2 DEF Asleep, Sound, TypeOK

\* piperead() wakes all writers.
LEMMA PipereadAsleep ==
  ASSUME Sound, Asleep, NEW p \in Procs, Piperead(p)
  PROVE  Asleep'
<1>1. SUFFICES ASSUME \A q \in Procs : ~killed'[q],
                      NEW q \in Procs
               PROVE  pc'[q] \notin {"r_doze", "r_sleep", "w_doze", "w_sleep"}
  BY DEF Asleep
<1>2. /\ plock = Nobody /\ (Count # 0 \/ ~open["w"])
      /\ pc' = [Woken(pc, "w") EXCEPT ![p] = "run"] /\ killed' = killed
  BY DEF Piperead, ReadWakes
<1>3. pc[q] \notin {"r_doze", "w_doze"}
  BY <1>2, Names DEF Sound, Locked
<1>4. pc[q] # "r_sleep"
  BY <1>1, <1>2 DEF Asleep
<1>5. pc'[q] = IF q = p THEN "run" ELSE Woken(pc, "w")[q]
  BY <1>2, WokenType DEF Sound, TypeOK, PcSet
<1> QED
  BY <1>3, <1>4, <1>5 DEF Woken

\* Every step keeps Asleep.
LEMMA NextAsleep == Sound /\ Asleep /\ [Next]_vars => Asleep'
<1> SUFFICES ASSUME Sound, Asleep, [Next]_vars PROVE Asleep'
  OBVIOUS
<1>1. CASE UNCHANGED vars
  BY <1>1, AsleepKept DEF vars, ring
<1>2. CASE Next
  <2>1. PICK p \in Procs :
          \/ Pipewrite(p) \/ PipereadEmpty(p) \/ Piperead(p) \/ Sleep(p) \/ Pipeclose(p)
          \/ CallWrite(p) \/ CallRead(p) \/ Fork(p) \/ Kill(p) \/ Fileclose(p)
    BY <1>2 DEF Next, Step
  <2> QED
    BY <2>1, PipewriteAsleep, PipereadEmptyAsleep, PipereadAsleep, PipecloseAsleep, CallsAsleep
<1> QED
  BY <1>1, <1>2

----------------------------------------------------------------------------
(***************************************************************************)
(* The ring is a queue.                                                    *)
(***************************************************************************)

\* A function on 1..n is a sequence.
LEMMA FunctionIsSeq ==
  ASSUME NEW S, NEW n \in Nat, NEW f \in [1..n -> S]
  PROVE  f \in Seq(S) /\ Len(f) = n
  OBVIOUS

\* The width of the counters does not matter for a place in the ring.
LEMMA PlaceWraps ==
  ASSUME NEW a \in Int
  PROVE  (a - CountMod) % PIPESIZE = a % PIPESIZE
<1>1. CountMod % PIPESIZE = 0
  BY PipeAssumption
<1> QED
  BY <1>1, Sizes, ModWidth

\* The byte after the last one is Count places after the first.
LEMMA WritePlace ==
  ASSUME CountersOK, NEW j \in Int
  PROVE  (nwrite + j) % PIPESIZE = (nread + Count + j) % PIPESIZE
<1>1. /\ Count \in Int /\ nread \in Int /\ nwrite \in Int /\ CountMod \in Int
      /\ nwrite = nread + Count \/ nwrite = nread + Count - CountMod
  BY CountIs, Sizes DEF CountersOK
<1>2. CASE nwrite = nread + Count
  BY <1>2
<1>3. CASE nwrite = nread + Count - CountMod
  <2> DEFINE x == nread + Count + j
  <2>1. nwrite + j = x - CountMod /\ x \in Int
    <3> HIDE DEF Count
    <3> QED
      BY <1>1, <1>3
  <2> HIDE DEF x
  <2>2. (nwrite + j) % PIPESIZE = x % PIPESIZE
    BY <2>1, PlaceWraps
  <2> QED
    BY <2>2 DEF x
<1> QED
  BY <1>1, <1>2, <1>3

\* The queue is a sequence of Count bytes.
QueueShape ==
  /\ Queue \in Seq(Bytes \cup {Junk}) /\ Len(Queue) = Count /\ Count \in Nat
  /\ \A i \in 1..Count : Queue[i] = data[(nread + i - 1) % PIPESIZE]

\* Every well-typed pipe holds such a queue.
LEMMA QueueIs == TypeOK => QueueShape
<1> SUFFICES ASSUME TypeOK PROVE QueueShape
  OBVIOUS
<1>1. Count \in Nat /\ nread \in Nat
  BY CountIs, Sizes DEF TypeOK, CountersOK
<1>2. ASSUME NEW i \in 1..Count
      PROVE  data[(nread + i - 1) % PIPESIZE] \in Bytes \cup {Junk}
  <2> HIDE DEF Count
  <2>1. nread + i - 1 \in Int
    BY <1>1
  <2>2. (nread + i - 1) % PIPESIZE \in 0..(PIPESIZE - 1)
    BY <2>1, Sizes, ModRange
  <2> QED
    BY <2>2 DEF TypeOK
<1>3. Queue \in [1..Count -> Bytes \cup {Junk}]
  BY <1>2 DEF Queue
<1> QED
  BY <1>1, <1>3, FunctionIsSeq DEF Queue, QueueShape

\* So does the pipe after a step.
LEMMA QueueIsNext == TypeOK' => QueueShape'
  BY QueueIs, PTL

\* Two places less than the size of the ring apart differ.
LEMMA PlacesDiffer ==
  ASSUME NEW x \in Int, NEW i \in 1..PIPESIZE, NEW j \in 1..PIPESIZE,
         (x + i - 1) % PIPESIZE = (x + j - 1) % PIPESIZE
  PROVE  i = j
<1> DEFINE a == x + i - 1
           b == x + j - 1
<1>1. a \in Int /\ b \in Int /\ a % PIPESIZE = b % PIPESIZE
  BY Sizes
<1>2. b - a \in 0..(PIPESIZE - 1) \/ a - b \in 0..(PIPESIZE - 1)
  BY Sizes
<1>3. a = b
  <2> HIDE DEF a, b
  <2> QED
    BY <1>1, <1>2, Sizes, ModApart
<1> QED
  BY <1>3, Sizes

\* What the ring holds after a write: the bytes of s, each at its place, and
\* nothing else has changed.
LEMMA StoredIs ==
  ASSUME TypeOK, NEW s \in Seq(Bytes), NEW n \in 0..Len(s), n \in Nat, Count + n <= PIPESIZE,
         NEW i \in 1..(Count + n)
  PROVE  Stored(s, n)[(nread + i - 1) % PIPESIZE] =
            IF i <= Count THEN data[(nread + i - 1) % PIPESIZE] ELSE s[i - Count]
<1> DEFINE x == (nread + i - 1) % PIPESIZE
           P(k) == (nwrite + k - 1) % PIPESIZE = x
<1>1. Count \in Nat /\ nread \in Int /\ CountersOK /\ i \in Int /\ i \in 1..PIPESIZE
  <2>1. Count \in Nat /\ nread \in Nat /\ CountersOK
    BY CountIs, Sizes DEF TypeOK, CountersOK
  <2> HIDE DEF Count
  <2> QED
    BY <2>1, Sizes
<1>2. x \in 0..(PIPESIZE - 1)
  <2>1. nread + i - 1 \in Int
    BY <1>1
  <2> QED
    BY <2>1, Sizes, ModRange
<1>3. Stored(s, n)[x] = IF \E k \in 1..n : P(k) THEN s[CHOOSE k \in 1..n : P(k)] ELSE data[x]
  BY <1>2 DEF Stored
<1>4. ASSUME NEW k \in 1..n PROVE P(k) <=> i = Count + k
  <2> DEFINE j == Count + k
  <2>1. j \in 1..PIPESIZE /\ k - 1 \in Int /\ j - 1 = Count + (k - 1)
    <3> HIDE DEF Count
    <3> QED
      BY <1>1, Sizes
  <2>2. (nwrite + (k - 1)) % PIPESIZE = (nread + Count + (k - 1)) % PIPESIZE
    BY <1>1, <2>1, WritePlace
  <2>3. nwrite + (k - 1) = nwrite + k - 1 /\ nread + Count + (k - 1) = nread + j - 1
    <3>1. nwrite \in Int
      BY <1>1, Sizes DEF CountersOK
    <3> HIDE DEF Count
    <3> QED
      BY <1>1, <3>1
  <2>4. (nwrite + k - 1) % PIPESIZE = (nread + j - 1) % PIPESIZE
    BY <2>2, <2>3
  <2> HIDE DEF j
  <2>5. P(k) => i = j
    BY <1>1, <2>1, <2>4, PlacesDiffer
  <2>6. i = j => P(k)
    BY <2>4
  <2> QED
    BY <2>5, <2>6 DEF j
<1> HIDE DEF P, x, Count
<1>5. CASE i <= Count
  <2>1. ~\E k \in 1..n : P(k)
    BY <1>1, <1>4, <1>5
  <2> QED
    BY <1>3, <1>5, <2>1 DEF x
<1>6. CASE i > Count
  <2>1. i - Count \in 1..n /\ \A k \in 1..n : i = Count + k <=> k = i - Count
    BY <1>1, <1>6
  <2>2. (CHOOSE k \in 1..n : P(k)) = i - Count /\ P(i - Count)
    BY <1>4, <2>1
  <2>3. Stored(s, n)[x] = s[i - Count]
    BY <1>3, <2>1, <2>2
  <2> QED
    BY <1>1, <1>6, <2>3 DEF x
<1> QED
  BY <1>1, <1>5, <1>6

\* A write appends to the queue.
LEMMA QueueWritten ==
  ASSUME TypeOK, TypeOK', NEW s \in Seq(Bytes), NEW n \in 0..Len(s), n \in Nat,
         Count + n <= PIPESIZE,
         nread' = nread, nwrite' = (nwrite + n) % CountMod, data' = Stored(s, n)
  PROVE  Queue' = Queue \o SubSeq(s, 1, n)
<1> DEFINE D == Bytes \cup {Junk}
           t == SubSeq(s, 1, n)
<1>1. Count' = Count + n
  BY CountWritten DEF TypeOK, CountersOK
<1>2. /\ Queue \in Seq(D) /\ Len(Queue) = Count /\ Count \in Nat
      /\ \A i \in 1..Count : Queue[i] = data[(nread + i - 1) % PIPESIZE]
  BY QueueIs DEF QueueShape
<1>3. /\ Queue' \in Seq(D) /\ Len(Queue') = Count'
      /\ \A i \in 1..Count' : Queue'[i] = data'[(nread' + i - 1) % PIPESIZE]
  BY QueueIsNext DEF QueueShape
<1>4. t \in Seq(D) /\ Len(t) = n /\ \A i \in 1..n : t[i] = s[i]
  <2>1. Len(s) \in Nat /\ \A i \in 1..Len(s) : s[i] \in D
    OBVIOUS
  <2>2. n \in Int /\ 1 \in Int /\ \A i \in 1..n : s[i] \in D
    BY <2>1
  <2> HIDE DEF D
  <2> QED
    BY <2>2, SubSeqProperties
<1> HIDE DEF t, D
<1>5. /\ Queue \o t \in Seq(D) /\ Len(Queue \o t) = Len(Queue) + Len(t)
      /\ \A i \in 1..Len(Queue) + Len(t) :
            (Queue \o t)[i] = IF i <= Len(Queue) THEN Queue[i] ELSE t[i - Len(Queue)]
  BY <1>2, <1>4, ConcatProperties
<1>6. ASSUME NEW i \in 1..(Count + n)
      PROVE  Queue'[i] = (Queue \o t)[i]
  <2>1. Queue'[i] = Stored(s, n)[(nread + i - 1) % PIPESIZE]
    BY <1>1, <1>3
  <2>2. Queue'[i] = IF i <= Count THEN data[(nread + i - 1) % PIPESIZE] ELSE s[i - Count]
    BY <2>1, StoredIs
  <2> HIDE DEF Count
  <2>3. (Queue \o t)[i] = IF i <= Count THEN Queue[i] ELSE t[i - Count]
    BY <1>2, <1>4, <1>5
  <2>4. CASE i <= Count
    BY <1>2, <2>2, <2>3, <2>4
  <2>5. CASE i > Count
    <3>1. i - Count \in 1..n
      BY <1>2, <2>5
    <3> QED
      BY <1>2, <1>4, <2>2, <2>3, <2>5, <3>1
  <2>6. i <= Count \/ i > Count
    BY <1>2
  <2> QED
    BY <2>4, <2>5, <2>6
<1>7. Len(Queue') = Len(Queue \o t) /\ \A i \in 1..Len(Queue') : Queue'[i] = (Queue \o t)[i]
  BY <1>1, <1>2, <1>3, <1>4, <1>5, <1>6
<1> QED
  BY <1>3, <1>5, <1>7, SeqEqual DEF t

\* A read takes bytes from the front of the queue.
LEMMA QueueTaken ==
  ASSUME TypeOK, TypeOK', NEW n \in Nat, n <= Count,
         nwrite' = nwrite, nread' = (nread + n) % CountMod, data' = data
  PROVE  Queue' = SubSeq(Queue, n + 1, Len(Queue))
<1> DEFINE D == Bytes \cup {Junk}
           t == SubSeq(Queue, n + 1, Len(Queue))
<1>1. Count' = Count - n
  BY CountRead DEF TypeOK, CountersOK
<1>2. /\ Queue \in Seq(D) /\ Len(Queue) = Count /\ Count \in Nat
      /\ \A i \in 1..Count : Queue[i] = data[(nread + i - 1) % PIPESIZE]
  BY QueueIs DEF QueueShape
<1>3. /\ Queue' \in Seq(D) /\ Len(Queue') = Count'
      /\ \A i \in 1..Count' : Queue'[i] = data'[(nread' + i - 1) % PIPESIZE]
  BY QueueIsNext DEF QueueShape
<1> HIDE DEF D, Count, Queue
<1>4. t \in Seq(D) /\ Len(t) = Count - n /\ \A i \in 1..(Count - n) : t[i] = Queue[n + i]
  <2>1. \A i \in 1..Count : Queue[i] \in D
    BY <1>2
  <2>2. n + 1 \in Int /\ Count \in Int /\ \A i \in (n + 1)..Count : Queue[i] \in D
    BY <1>2, <2>1
  <2>3. /\ t \in Seq(D)
        /\ Len(t) = IF n + 1 <= Count THEN Count - (n + 1) + 1 ELSE 0
        /\ \A i \in 1..(Count - (n + 1) + 1) : t[i] = Queue[(n + 1) + i - 1]
    BY <1>2, <2>2, SubSeqProperties
  <2> HIDE DEF t
  <2> QED
    BY <1>2, <2>3
<1> HIDE DEF t
<1>5. ASSUME NEW i \in 1..(Count - n)
      PROVE  Queue'[i] = t[i]
  <2>1. Queue'[i] = data[(nread' + i - 1) % PIPESIZE]
    BY <1>1, <1>3
  <2>2. t[i] = data[(nread + (n + i) - 1) % PIPESIZE]
    <3>1. n + i \in 1..Count
      BY <1>2
    <3>2. t[i] = Queue[n + i]
      BY <1>4
    <3> QED
      BY <1>2, <3>1, <3>2
  <2>3. nread \in Int /\ (nread' = nread + n \/ nread' = nread + n - CountMod) /\ CountMod \in Int
    <3>1. nread \in 0..(CountMod - 1) /\ n \in 0..(CountMod - 1)
      BY <1>2, Sizes DEF TypeOK
    <3> QED
      BY <3>1, Advances, Sizes
  <2> DEFINE a == nread + (n + i) - 1
  <2>4. a \in Int /\ (nread' + i - 1 = a \/ nread' + i - 1 = a - CountMod)
    BY <1>2, <2>3
  <2> HIDE DEF a
  <2>5. (nread' + i - 1) % PIPESIZE = a % PIPESIZE
    BY <2>4, PlaceWraps
  <2> QED
    BY <2>1, <2>2, <2>5 DEF a
<1>6. Len(Queue') = Len(t) /\ \A i \in 1..Len(Queue') : Queue'[i] = t[i]
  BY <1>1, <1>2, <1>3, <1>4, <1>5
<1> QED
  BY <1>3, <1>4, <1>6, SeqEqual DEF t

----------------------------------------------------------------------------
(***************************************************************************)
(* Each step is one of the queue, or none.                                 *)
(***************************************************************************)

\* The processes that are in a read().
Readers == {p \in Procs : Reading(p)}

\* The queue depends on the ring only.
LEMMA QueueSame == UNCHANGED <<data, nread, nwrite>> => Queue' = Queue
  BY DEF Queue, Count

\* The readers are those inside piperead().
LEMMA ReadersSame ==
  ASSUME \A q \in Procs : Reading(q)' <=> Reading(q)
  PROVE  Readers' = Readers
  BY DEF Readers

\* Initially the queue is empty.
LEMMA InitQueue == Init => Fifo!QueueInit
<1> SUFFICES ASSUME Init PROVE Fifo!QueueInit
  OBVIOUS
<1>1. TypeOK
  BY InitTypeOK
<1>2. CountersOK /\ nwrite = nread
  BY Sizes DEF Init, CountersOK
<1>3. Count = 0
  BY <1>2, CountIs DEF CountersOK
<1>4. Queue = <<>>
  BY <1>1, <1>3, QueueIs, EmptySeq DEF QueueShape
<1>5. Readers = {} /\ out = [p \in Procs |-> <<>>]
  BY DEF Init, Readers, Reading
<1> QED
  BY <1>4, <1>5 DEF Fifo!QueueInit, Readers

\* write() and read() start a write and a read of the queue.
LEMMA CallWriteQueue ==
  ASSUME Sound, NEW p \in Procs, CallWrite(p)
  PROVE  Fifo!QueueWrite(p)
<1>1. /\ pc[p] = "run" /\ pc' = [pc EXCEPT ![p] = "write"]
      /\ UNCHANGED <<data, nread, nwrite>>
      /\ \E s \in Payloads : out' = [out EXCEPT ![p] = s]
  BY DEF CallWrite, At, ring
<1>2. out[p] = <<>>
  BY <1>1 DEF Sound, Locked, Writing
<1>3. Readers' = Readers
  BY <1>1, ReadersSame DEF Sound, TypeOK, Reading
<1> QED
  BY <1>1, <1>2, <1>3, QueueSame DEF Fifo!QueueWrite, Readers

\* read() adds a reader.
LEMMA CallReadQueue ==
  ASSUME Sound, NEW p \in Procs, CallRead(p)
  PROVE  Fifo!QueueRead(p)
<1>1. /\ pc[p] = "run" /\ pc' = [pc EXCEPT ![p] = "read"]
      /\ UNCHANGED <<data, nread, nwrite, out>>
  BY DEF CallRead, At, ring
<1>2. p \notin Readers /\ Readers' = Readers \cup {p}
  BY <1>1 DEF Sound, TypeOK, Readers, Reading
<1> QED
  BY <1>1, <1>2, QueueSame DEF Fifo!QueueRead, Readers

\* fork(), kill(), close() and sleep() do not touch the queue.
LEMMA OtherQueue ==
  ASSUME Sound, NEW p \in Procs,
         Fork(p) \/ Kill(p) \/ Fileclose(p) \/ Pipeclose(p) \/ Sleep(p)
  PROVE  UNCHANGED Fifo!queueVars
<1>1. UNCHANGED <<data, nread, nwrite, out>>
  BY DEF Fork, Kill, Fileclose, Pipeclose, Sleep, ring
<1>2. ASSUME NEW q \in Procs PROVE Reading(q)' <=> Reading(q)
  <2>1. CASE Fork(p) \/ Fileclose(p)
    BY <2>1 DEF Fork, Fileclose, Sound, TypeOK, Reading
  <2>2. CASE Kill(p)
    BY <2>2 DEF Kill, Sound, TypeOK, Reading
  <2>3. CASE Sleep(p)
    <3>1. pc[p] \in {"r_doze", "w_doze"}
      BY <2>3 DEF Sleep, Sound, Locked
    <3> QED
      BY <2>3, <3>1 DEF Sleep, Sound, TypeOK, Reading
  <2>4. CASE Pipeclose(p)
    <3>1. Other(closing[p]) \in Ends /\ pc' = Woken(pc, Other(closing[p]))
      BY <2>4 DEF Pipeclose, CloseWakes, Other, Ends
    <3> QED
      BY <3>1, WokenIs DEF Sound, Reading
  <2> QED
    BY <2>1, <2>2, <2>3, <2>4
<1>3. Readers' = Readers
  BY <1>2, ReadersSame
<1> QED
  BY <1>1, <1>3, QueueSame DEF Fifo!queueVars, Readers

\* pipewrite() puts as many bytes into the queue as there is room for, and
\* keeps the rest or gives up.
LEMMA PipewriteQueue ==
  ASSUME Sound, Sound', NEW p \in Procs, Pipewrite(p)
  PROVE  Fifo!QueuePut(p)
<1> DEFINE n    == Room(p)
           rest == SubSeq(out[p], n + 1, Len(out[p]))
<1>1. /\ pc[p] = "write"
      /\ data' = Stored(out[p], n) /\ nwrite' = (nwrite + n) % CountMod /\ nread' = nread
      /\ \E t \in {<<>>, rest} : out' = [out EXCEPT ![p] = t]
  BY PipewriteIs
<1>2. n \in 0..Len(out[p]) /\ n \in Nat /\ Count + n <= PIPESIZE /\ out[p] \in Seq(Bytes)
  <2>1. Len(out[p]) \in Nat /\ out[p] \in Seq(Bytes)
    BY DEF Sound, TypeOK
  <2> QED
    BY <2>1, RoomType DEF Sound
<1>3. ASSUME NEW q \in Procs PROVE Reading(q)' <=> Reading(q)
  <2>0. PICK m \in {pc, Woken(pc, "r")}, st \in {"run", "w_doze"} : pc' = [m EXCEPT ![p] = st]
    BY PipewriteIs
  <2>3. m \in [Procs -> PcSet]
    BY WokenType DEF Sound, TypeOK, PcSet
  <2>1. CASE q = p
    BY <1>1, <2>0, <2>1, <2>3 DEF Reading
  <2>2. CASE q # p
    <3>1. pc'[q] = pc[q] \/ pc'[q] = Woken(pc, "r")[q]
      BY <2>0, <2>2, <2>3
    <3> QED
      BY <3>1, WokenIs DEF Sound, Reading, Ends
  <2> QED
    BY <2>1, <2>2
<1>4. Readers' = Readers
  BY <1>3, ReadersSame
<1> HIDE DEF n
<1>5. Queue' = Queue \o SubSeq(out[p], 1, n)
  BY <1>1, <1>2, QueueWritten DEF Sound
<1>6. Len(Queue) + n <= PIPESIZE
  BY <1>2, QueueIs DEF QueueShape, Sound
<1> QED
  BY <1>1, <1>2, <1>4, <1>5, <1>6 DEF Fifo!QueuePut, Readers

\* piperead() returns with the first bytes of the queue.
LEMMA PipereadQueue ==
  ASSUME Sound, Sound', NEW p \in Procs, Piperead(p)
  PROVE  Fifo!QueueGet(p)
<1> DEFINE n == Smaller(Count, want[p])
<1>1. /\ pc[p] = "read" /\ nread' = (nread + n) % CountMod
      /\ pc' = [Woken(pc, "w") EXCEPT ![p] = "run"]
      /\ UNCHANGED <<data, nwrite, out>>
  BY DEF Piperead, At, ReadWakes
<1>2. /\ n \in Nat /\ n <= Count /\ Count \in Nat
  <2>1. Count \in Nat
    BY CountIs, Sizes DEF Sound, TypeOK, CountersOK
  <2>2. want[p] \in ReadSizes \/ want[p] = 0
    BY DEF Sound, TypeOK
  <2>3. \A k \in ReadSizes : k \in Nat
    BY Names
  <2>4. want[p] \in Nat
    BY <2>2, <2>3
  <2> HIDE DEF Count
  <2> QED
    BY <2>1, <2>4 DEF Smaller
<1> HIDE DEF n
<1>3. Queue' = SubSeq(Queue, n + 1, Len(Queue))
  BY <1>1, <1>2, QueueTaken DEF Sound
<1>4. n \in 0..Len(Queue)
  BY <1>2, QueueIs DEF QueueShape, Sound
<1>5. ASSUME NEW q \in Procs PROVE Reading(q)' <=> Reading(q) /\ q # p
  <2>1. pc'[q] = IF q = p THEN "run" ELSE Woken(pc, "w")[q]
    BY <1>1, WokenType DEF Sound, TypeOK, PcSet
  <2> QED
    BY <2>1, WokenIs DEF Sound, Reading, Ends
<1>6. p \in Readers /\ Readers' = Readers \ {p}
  BY <1>1, <1>5 DEF Readers, Reading
<1> QED
  BY <1>1, <1>3, <1>4, <1>6 DEF Fifo!QueueGet, Readers

\* A reader of an empty pipe returns with nothing, or waits.
LEMMA PipereadEmptyQueue ==
  ASSUME Sound, NEW p \in Procs, PipereadEmpty(p)
  PROVE  Fifo!QueueGet(p) \/ UNCHANGED Fifo!queueVars
<1>1. /\ pc[p] = "read" /\ UNCHANGED <<data, nread, nwrite, out>>
      /\ pc' = [pc EXCEPT ![p] = "run"] \/ pc' = [pc EXCEPT ![p] = "r_doze"]
  BY DEF PipereadEmpty, At, ring
<1>2. Queue' = Queue
  BY <1>1, QueueSame
<1>3. CASE pc' = [pc EXCEPT ![p] = "run"]
  <2>1. p \in Readers /\ Readers' = Readers \ {p}
    BY <1>1, <1>3 DEF Sound, TypeOK, Readers, Reading
  <2>2. Queue \in Seq(Bytes \cup {Junk}) /\ Len(Queue) \in Nat
    BY QueueIs DEF Sound, QueueShape
  <2>3. Queue = SubSeq(Queue, 0 + 1, Len(Queue)) /\ 0 \in 0..Len(Queue)
    BY <2>2, SubSeqFull
  <2> QED
    BY <1>1, <1>2, <2>1, <2>3 DEF Fifo!QueueGet, Readers
<1>4. CASE pc' = [pc EXCEPT ![p] = "r_doze"]
  <2>1. Readers' = Readers
    BY <1>1, <1>4 DEF Sound, TypeOK, Readers, Reading
  <2> QED
    BY <1>1, <1>2, <2>1 DEF Fifo!queueVars, Readers
<1> QED
  BY <1>1, <1>3, <1>4

\* Every step.
LEMMA NextQueue == Sound /\ Sound' /\ [Next]_vars => [Fifo!QueueNext]_Fifo!queueVars
<1> SUFFICES ASSUME Sound, Sound', [Next]_vars
             PROVE  Fifo!QueueNext \/ UNCHANGED Fifo!queueVars
  BY DEF Fifo!queueVars
<1>1. CASE UNCHANGED vars
  <2>1. Readers' = Readers /\ Queue' = Queue /\ out' = out
    BY <1>1, QueueSame DEF vars, ring, Readers, Reading
  <2> QED
    BY <2>1 DEF Fifo!queueVars, Readers
<1>2. CASE Next
  <2>1. PICK p \in Procs :
          \/ Pipewrite(p) \/ PipereadEmpty(p) \/ Piperead(p) \/ Sleep(p) \/ Pipeclose(p)
          \/ CallWrite(p) \/ CallRead(p) \/ Fork(p) \/ Kill(p) \/ Fileclose(p)
    BY <1>2 DEF Next, Step
  <2>2. \/ Fifo!QueueWrite(p) \/ Fifo!QueueRead(p) \/ Fifo!QueuePut(p) \/ Fifo!QueueGet(p)
        \/ UNCHANGED Fifo!queueVars
    BY <2>1, PipewriteQueue, PipereadEmptyQueue, PipereadQueue, CallWriteQueue,
       CallReadQueue, OtherQueue
  <2> QED
    BY <2>2 DEF Fifo!QueueNext
<1> QED
  BY <1>1, <1>2

----------------------------------------------------------------------------
(***************************************************************************)
(* Theorems.                                                               *)
(***************************************************************************)

\* The invariant holds.
THEOREM PipeSound == Spec => []Sound
<1>1. Init => Sound
  BY InitTypeOK, InitUsers DEF Sound
<1>2. Sound /\ [Next]_vars => Sound'
  BY NextSound
<1> QED
  BY <1>1, <1>2, PTL DEF Spec

\* The counters wrap without the ring being overrun, and nobody reaches the
\* pipe after its page is freed.
THEOREM PipeOutlivesUsers == Spec => []EndsOK
<1>1. Sound => EndsOK
  BY UsersSafe DEF Sound
<1> QED
  BY <1>1, PipeSound, PTL

\* While nobody has been killed, a process sleeps in the pipe only for a
\* reason that still holds.
THEOREM WakeupsArrive == Spec => []NoLostWakeup
<1>1. Init => Asleep
  BY DEF Init, Asleep
<1>2. Sound /\ Asleep /\ [Next]_vars => Asleep'
  BY NextAsleep
<1>3. Asleep => NoLostWakeup
  BY DEF Asleep, NoLostWakeup
<1> QED
  BY <1>1, <1>2, <1>3, PipeSound, PTL DEF Spec

\* The ring with its wrapping counters is a bounded queue of bytes.
THEOREM RingIsQueue == Spec => ImplementsQueue
<1>1. Init => Fifo!QueueInit
  BY InitQueue
<1>2. Sound /\ Sound' /\ [Next]_vars => [Fifo!QueueNext]_Fifo!queueVars
  BY NextQueue
<1> QED
  BY <1>1, <1>2, PipeSound, PTL DEF Spec, ImplementsQueue, Fifo!QueueSpec
=============================================================================
