\* Three processes, a ring of two bytes whose counters wrap at four.
CONSTANTS
  Procs = {p1, p2, p3}
  Creator = p1
  Nobody = Nobody
  PIPESIZE = 2
  CountMod = 4
  Bytes = {0, 1}
  Junk = 9
  Victims = {p2}
  Payloads <- ShortAndLong
  ReadSizes = {1}
SPECIFICATION FairSpec
INVARIANTS
  EndsOK
  NoLostWakeup
PROPERTIES
  CloseNoticed
  ImplementsQueue
CHECK_DEADLOCK FALSE
