CONSTANTS
  Procs = {"parent", "child"}
  NINODE = 5
  NInodes = 13
  NBlocks = 14
  NDIRECT = 2
  BSIZE = 4
  NFILE = 3
  NOFILE = 3
  Tests <- AllTests
  Races <- AllRaces
  HostFiles <- Image
SPECIFICATION TestSpec
INVARIANTS
  TestsPass
  FsConsistent
  NobodyStuck
