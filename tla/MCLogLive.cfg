CONSTANTS
  Procs = {p1, p2}
  Readers = {}
  Blocks = {1, 2, 3, 4}
  Data = {0}
  Nobody = Nobody
  NoBuf = NoBuf
  LOGBLOCKS = 4
  MAXOPBLOCKS = 2
  OPBLOCKS = 1
  MaxCrashes = 1
SPECIFICATION FairSpec
INVARIANT
  LogNeverFull
PROPERTIES
  SleeperWakes
  GroupBecomesDurable
