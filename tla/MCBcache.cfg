SPECIFICATION Spec
CONSTANTS
  Procs = {p1, p2}
  Block = {k1, k2, k3, k4}
  Value = {0, 1}
  NBUF = 3
  MaxPins = 1
  Zero = Zero
INVARIANTS
  ListIsLru
  
  RefcntExact
  SleeperHasHolder
PROPERTIES
  StoresBlocks
SYMMETRY Symmetry
