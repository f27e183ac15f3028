SPECIFICATION FairSpec
CONSTANTS
  Procs = {p1, p2, p3}
  Byte = {b0}
  PIPESIZE = 1
  WRAP = 2
  MaxN = 1
  Killable = {}
  Free = Free
  Junk = Junk
INVARIANTS
  ReaderNotStranded
PROPERTIES
  CloseReachesPeers
CHECK_DEADLOCK FALSE
