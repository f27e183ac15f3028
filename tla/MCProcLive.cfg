SPECIFICATION FairSpec
CONSTANTS
  CPUs = {c1}
  NPROC = 3
  MaxPid = 3
  KillPids = {2}
PROPERTIES
  OrphanReaped
  KilledExits
