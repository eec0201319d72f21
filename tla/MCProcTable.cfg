\* Tree A: two CPUs without the clock, two forks, kill and preemption.
CONSTANTS
  NPROC = 3
  CPUS = {c1, c2}
  BootCpu = c0
  NoCpu = NoCpu
  Tree = "A"
  MaxPid = 3
  TickMod = 3
  SleepArgs = {2}
  KillArgs = {2, 3}
  Events = {"fork", "exit", "wait", "kill", "timer"}
  Never = {}
SYMMETRY CpuSymmetry
SPECIFICATION Spec
INVARIANTS
  LockDiscipline
  StackExclusive
  StateMatchesCode
  EmbryoOwned
  ParentAlive
