SPECIFICATION FairSpec
CONSTANTS
  Nodes <- MCNodes
  LeasesOf <- MCLeasesOf
  Gone = Gone
  None = None
  Bad = Bad
  NoNode = NoNode
  MaxChanges = 5
  Disturb = {"add_fails", "reboot", "relist"}
  MaxFaults = 2
INVARIANTS
  TypeOK
  KernelMirrorsInstalled
PROPERTIES
  NoCollateral
  Converges
