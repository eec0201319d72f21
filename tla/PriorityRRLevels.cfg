\* Two levels share one round-robin pointer.
CONSTANTS
  NPROC = 3
  CPUS = {c0}
  Default = 1
  MaxPrio = 2
  PrioArgs = {0, 1}
SPECIFICATION HistSpec
PROPERTIES
  RoundRobin
