\* The two counters of CPU time.
CONSTANTS
  NPROC = 3
  CPUS = {c0}
  IntMax = 100
  TicketArgs = {0, 3}
  MaxCount = 2
SPECIFICATION Spec
INVARIANTS
  TicksAreSchedules
