\* One CPU, two processes, the real generator from its seed.
CONSTANTS
  NPROC = 2
  CPUS = {c0}
  IntMax = 100
  TicketArgs = {2}
  MaxCount = 0
SPECIFICATION FairSpec
PROPERTIES
  NoStarvation
