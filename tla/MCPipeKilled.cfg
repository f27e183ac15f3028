SPECIFICATION Spec
CONSTANTS
  Procs = {p1, p2, p3}
  Byte = {b0}
  PIPESIZE = 2
  WRAP = 4
  MaxN = 2
  Killable = {p1, p2, p3}
  Free = Free
  Junk = Junk
INVARIANTS
  ReaderNotStranded
SYMMETRY Symmetry
CHECK_DEADLOCK FALSE
