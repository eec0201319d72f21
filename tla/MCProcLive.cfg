\* The boot CPU counts ticks modulo 3 while a process sleeps on them, under
\* the fairness of FairSpec.
CONSTANTS
  NPROC = 2
  CPUS = {c0, c1}
  BootCpu = c0
  NoCpu = NoCpu
  Tree = "A"
  MaxPid = 2
  TickMod = 3
  SleepArgs = {2}
  KillArgs = {2}
  Events = {"fork", "wait", "kill", "sleep", "fault", "timer"}
  Never = {}
SPECIFICATION FairSpec
INVARIANTS
  SchedChecks
  TickNotMissed
PROPERTIES
  Lifecycle
  Preemption
  SleeperWoken
