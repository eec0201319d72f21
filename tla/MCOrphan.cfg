\* A file is made in a directory while the directory is removed.
CONSTANTS
  Procs = {"parent", "child"}
  NINODE = 5
  NInodes = 13
  NBlocks = 14
  NDIRECT = 2
  BSIZE = 4
  NFILE = 3
  NOFILE = 3
  Tests = {}
  Races <- DirRaces
  HostFiles <- Image
SPECIFICATION TestSpec
INVARIANT
  LinksExact
