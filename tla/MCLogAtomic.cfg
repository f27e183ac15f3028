CONSTANTS
  Procs = {p1, p2}
  Readers = {p1, p2}
  Blocks = {1, 2}
  Data = {0, 1}
  Nobody = Nobody
  NoBuf = NoBuf
  LOGBLOCKS = 4
  MAXOPBLOCKS = 2
  OPBLOCKS = 2
  MaxCrashes = 2
SPECIFICATION Spec
INVARIANTS
  PinnedExactly
  
PROPERTY AtomicGroups
