SPECIFICATION Spec
CONSTANTS
  CPUs = {c1, c2}
  NPROC = 3
  MaxPid = 4
  KillPids = {0, 2}
INVARIANTS
  KilledWasAsked
SYMMETRY Symmetry
