------------------------------ MODULE MCMemory ------------------------------
\* Instances of the memory of processes for TLC.
EXTENDS MemTests

Seg(memsz, filesz) == [va |-> 0, memsz |-> memsz, filesz |-> filesz, short |-> FALSE]
File(segs) == [elf |-> TRUE, segs |-> segs, args |-> 3, fewargs |-> TRUE]

EchoFile == File(<<Seg(3, 3)>>)
UsertestsFile == File(<<Seg(12, 6)>>)
ManyArgsFile == [EchoFile EXCEPT !.fewargs = FALSE]

\* A second segment whose end wraps to an address in the first: what the file has
\* of it is on no page, or on one of the first segment's.
Wrapped == [Seg(60, 3) EXCEPT !.va = 6]
WrappedFiles == {File(<<Seg(3, 3), Wrapped>>), File(<<Seg(9, 6), Wrapped>>)}

\* A page of text and one of data; an image that leaves no room for the stack;
\* a header that makes no sense; a file cut short; no program at all; arguments
\* larger than the page of the stack; a segment that is not aligned; and ends
\* that wrap.
Files == {File(<<Seg(9, 6)>>), File(<<Seg(15, 6)>>), File(<<Seg(3, 6)>>),
          File(<<[Seg(6, 6) EXCEPT !.short = TRUE]>>),
          [File(<<>>) EXCEPT !.elf = FALSE], [EchoFile EXCEPT !.args = 9],
          File(<<[Seg(3, 3) EXCEPT !.va = 1]>>)} \cup WrappedFiles
\* A page and a half more, a page less.
Amounts == {9, -6}
\* The first address of a page, the last of one, the last of all; a block, one
\* of the largest size, one of a negative size.
Addresses == {6, 17, 63}
Lengths == {2, 31, -1}
Blocks == {2, 3, 6}
=============================================================================
