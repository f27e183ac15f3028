SPECIFICATION Spec
CONSTANTS
  Procs = {p1, p2, p3}
  Sector = {s1, s2, s3}
  Value = {0}
  NUM = 7
  WRAP = 7
  None = None
  INTR = INTR
INVARIANTS
  PublishedIsComplete
  UsedEntryIsMine
  DoneIsDone
  DescriptorsAccounted
  
SYMMETRY Symmetry
