\* Tree B: two CPUs, four slots, three forks, no preemption; process 3 kills
\* process 2, which calls getpinfo() as well.
CONSTANTS
  NPROC = 4
  CPUS = {c1, c2}
  BootCpu = c0
  NoCpu = NoCpu
  Tree = "B"
  MaxPid = 4
  TickMod = 3
  SleepArgs = {2}
  KillArgs = {0, 2}
  Events = {"fork", "exit", "wait", "kill"}
  Never <- OneKiller
  Watcher = 2
SYMMETRY CpuSymmetry
SPECIFICATION PinfoSpec
INVARIANTS
  WaitNotMissed
  SnapshotExact
PROPERTIES
  ImplementsTree
