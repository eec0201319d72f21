\* Two CPUs, three slots, tickets 1 and 3; settickets(0) is tried too.
CONSTANTS
  NPROC = 3
  CPUS = {c0, c1}
  IntMax = 100
  TicketArgs = {0, 3}
  MaxCount = 2
SYMMETRY CpuSymmetry
SPECIFICATION Spec
INVARIANTS
  LotteryExact
