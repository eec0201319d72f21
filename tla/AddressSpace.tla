---------------------------- MODULE AddressSpace ----------------------------
(***************************************************************************)
(* What the memory of a process promises: each process has pages of its    *)
(* own, numbered from 0, that start out zero and change only when that     *)
(* process stores into them, gives them back or runs another program; a    *)
(* child starts with a copy.  Nothing one process does is ever seen in the *)
(* memory of another.                                                      *)
(***************************************************************************)
EXTENDS Integers

CONSTANTS Procs, MaxPages, Values, Images

VARIABLE view       \* view[p]: from the numbers of p's pages to their values

NoPages == [i \in {} |-> 0]

Init == \E p \in Procs : \E image \in Images :
          view = [q \in Procs |-> IF q = p THEN image ELSE NoPages]

Pages(p) == DOMAIN view[p]
Set(p, m) == view' = [view EXCEPT ![p] = m]

Store(p, i, v) == i \in Pages(p) /\ Set(p, [view[p] EXCEPT ![i] = v])

\* One page more, or one less.
Add(p, i) ==
  /\ i \in (0..(MaxPages - 1)) \ Pages(p)
  /\ Set(p, [j \in Pages(p) \cup {i} |-> IF j = i THEN "zero" ELSE view[p][j]])
Drop(p, i) ==
  /\ i \in Pages(p)
  /\ Set(p, [j \in Pages(p) \ {i} |-> view[p][j]])

Fork(p, q) == Pages(q) = {} /\ Set(q, view[p])
Gone(p) == Set(p, NoPages)
Exec(p, image) == Pages(p) # {} /\ Set(p, image)

Next == \E p \in Procs :
  \/ \E i \in 0..(MaxPages - 1) :
       \/ Add(p, i) \/ Drop(p, i)
       \/ \E v \in Values : Store(p, i, v)
  \/ \E q \in Procs : Fork(p, q)
  \/ Gone(p)
  \/ \E image \in Images : Exec(p, image)

Spec == Init /\ [][Next]_view
=============================================================================
