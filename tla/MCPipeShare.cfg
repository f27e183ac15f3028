SPECIFICATION Spec
CONSTANTS
  Procs = {p1, p2, p3}
  Byte = {b0, b1}
  PIPESIZE = 2
  WRAP = 4
  MaxN = 1
  Killable = {p1, p2, p3}
  Free = Free
  Junk = Junk
INVARIANTS
  FreedPageUnused
  WriterNotStranded
PROPERTIES
  StreamsBytes
SYMMETRY Symmetry
CHECK_DEADLOCK FALSE
