\* What the code does not keep.  TLC stops at the first of the properties that
\* is violated: leave one in to see it.
CONSTANTS
  NPROC = 4
  CPUS = {c1, c2}
  BootCpu = c0
  NoCpu = NoCpu
  Tree = "B"
  MaxPid = 4
  TickMod = 3
  SleepArgs = {2}
  KillArgs = {2, 3}
  Events = {"fork", "exit", "wait", "kill", "sleep"}
  Never = {}
  Watcher = 2
SYMMETRY CpuSymmetry
SPECIFICATION PinfoSpec
INVARIANTS
  KilledAwake
  InuseTrue
PROPERTIES
  BornAlive
