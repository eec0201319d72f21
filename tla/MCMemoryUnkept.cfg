\* What the code does not keep.  TLC stops at the first of the properties that
\* is violated: leave one in to see it.
CONSTANTS
  Procs = {p1, p2, p3}
  First = p1
  NPAGES = 16
  LittleMemory = 12
  Echo <- EchoFile
  Usertests <- UsertestsFile
  ManyArgs <- ManyArgsFile
  PGSIZE = 6
  ADDRESSES = 64
  INTSIZE = 2
  PSTAT = 8
  MAXFILE = 7
  Pointers <- Addresses
  Sizes <- Lengths
  MinCore = 5
  BlockSizes <- Blocks
  UPAGES = 3
  KTABLES = 2
  Programs <- Files
  Grows <- Amounts
  Values = {"a"}
SPECIFICATION TestSpec
INVARIANTS
  CountsInside
  PstatInside
  SegmentsMapped
  FailureKeeps
  NoLeak
