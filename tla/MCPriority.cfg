\* Two CPUs, three slots, all valid priorities and invalid ones.
CONSTANTS
  NPROC = 3
  CPUS = {c0, c1}
  Default = 1
  MaxPrio = 2
  PrioArgs <- PrioArgsTried
SPECIFICATION FairSpec
INVARIANTS
  PickOK
PROPERTIES
  HighestFirst
  TopNotStarved
