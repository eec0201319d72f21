------------------------------ MODULE Umalloc ------------------------------
(***************************************************************************)
(* The C library's allocator (user/umalloc.c), as functions on the heap of *)
(* one process.  Addresses count headers.  hdr holds the headers that have *)
(* been written, free blocks and allocated ones; the free blocks form a    *)
(* circle that starts and ends at base, a block of no size below the heap. *)
(***************************************************************************)
EXTENDS Integers, FiniteSetsExt

CONSTANT MinCore     \* headers that morecore() asks for at least (4096)

base == 0
Null == -1
NoHeap == [freep |-> Null, hdr |-> [a \in {} |-> 0]]

\* malloc(): the list of the first call.
Started(h) ==
    IF h.freep # Null THEN h
    ELSE [freep |-> base, hdr |-> [a \in {base} |-> [ptr |-> base, size |-> 0]]]

Next(h, a) == h.hdr[a].ptr
SetHdr(hdr, a, ptr, size) ==
    [x \in DOMAIN hdr \cup {a} |-> IF x = a THEN [ptr |-> ptr, size |-> size] ELSE hdr[x]]

\* malloc(): the first block after prevp that is large enough, by the block
\* before it; Null when the search is back at freep.
RECURSIVE Search(_, _, _)
Search(h, nunits, prevp) ==
    LET p == Next(h, prevp)
    IN  IF h.hdr[p].size >= nunits THEN prevp
        ELSE IF p = h.freep THEN Null ELSE Search(h, nunits, p)

Fits(h, nunits) == Search(h, nunits, h.freep) # Null

\* malloc(): all of the block, or its tail; the link of an allocated block has
\* no meaning.  The result is the address of the
\* header of what was taken.
Taken(h, nunits) ==
    LET p == Next(h, Search(h, nunits, h.freep))
    IN  p + h.hdr[p].size - nunits

Take(h, nunits) ==
    LET prevp == Search(h, nunits, h.freep)
        p     == Next(h, prevp)
        rest  == h.hdr[p].size - nunits
    IN  [freep |-> prevp,
         hdr |-> IF rest = 0
                 THEN [h.hdr EXCEPT ![prevp].ptr = Next(h, p), ![p].ptr = Null]
                 ELSE SetHdr([h.hdr EXCEPT ![p].size = rest], p + rest, Null, nunits)]

\* free(): the free block after which bp belongs.
RECURSIVE Place(_, _, _)
Place(h, bp, p) ==
    LET next == Next(h, p)
    IN  IF \/ p < bp /\ bp < next
           \/ p >= next /\ (bp > p \/ bp < next)
        THEN p ELSE Place(h, bp, next)

\* The header is no longer one: another block has swallowed it.
Swallow(hdr, a) == [x \in DOMAIN hdr \ {a} |-> hdr[x]]

\* free(): merged with the block above, if that is where bp ends.
JoinUp(h, bp, next) ==
    IF bp + h.hdr[bp].size = next
    THEN Swallow(SetHdr(h.hdr, bp, Next(h, next), h.hdr[bp].size + h.hdr[next].size), next)
    ELSE [h.hdr EXCEPT ![bp].ptr = next]

\* free(): merged with the block below, if that ends at bp.  Mutant: never.
JoinDownNever(hdr, p, bp) == [hdr EXCEPT ![p].ptr = bp]
JoinDown(hdr, p, bp) ==
    IF p + hdr[p].size = bp
    THEN Swallow(SetHdr(hdr, p, hdr[bp].ptr, hdr[p].size + hdr[bp].size), bp)
    ELSE [hdr EXCEPT ![p].ptr = bp]

Release(h, bp) ==
    LET p == Place(h, bp, h.freep)
    IN  [freep |-> p, hdr |-> JoinDown(JoinUp(h, bp, Next(h, p)), p, bp)]

\* morecore(): what it asks sbrk() for, and the heap when it got it at a.
CoreSize(nunits) == Max({nunits, MinCore})
WithCore(h, a, nu) == Release([h EXCEPT !.hdr = SetHdr(@, a, Null, nu)], a)

----------------------------------------------------------------------------
\* The free blocks, by following the list once around.
RECURSIVE From(_, _)
From(h, p) == {p} \cup (IF Next(h, p) = base THEN {} ELSE From(h, Next(h, p)))
FreeBlocks(h) == From(h, base)

Extent(h, a) == a..(a + h.hdr[a].size - 1)

\* The heap is sound, `held` being the blocks the program has and `core` what
\* it got from sbrk(): the free list goes up once and comes back, no two free
\* blocks touch, and every header of the core is in exactly one block.
Sound(h, held, core) ==
    h.freep # Null =>
        LET blocks == FreeBlocks(h) \cup held
        IN  /\ DOMAIN h.hdr = blocks /\ h.freep \in FreeBlocks(h)
            /\ \A a \in FreeBlocks(h) :
                  Next(h, a) = base \/ Next(h, a) > a + h.hdr[a].size \/ a = base
            /\ \A a, b \in blocks : a # b => Extent(h, a) \cap Extent(h, b) = {}
            /\ UNION {Extent(h, a) : a \in blocks} = core
=============================================================================
