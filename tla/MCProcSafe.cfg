SPECIFICATION Spec
CONSTANTS
  CPUs = {c1, c2}
  NPROC = 3
  MaxPid = 4
  KillPids = {2, 3}
INVARIANTS
  StackExclusive
  SchedPreconditions
  ReleasedByHolder
  NoLostWakeup
  ParentIsAlive
  KilledWasAsked
SYMMETRY Symmetry
