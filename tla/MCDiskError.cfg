\* The disk may fail reads.  Two processes, two buffers, three blocks of which one is an indirect block.
CONSTANTS
  Procs = {p1, p2}
  NBUF = 2
  Sectors = {1, 2, 3}
  Outer = {3}
  Vals = {0, 1}
  Fresh = 0
  Nobody = Nobody
  ReadErrors = TRUE
SPECIFICATION Spec
INVARIANTS
  ValidSynced
