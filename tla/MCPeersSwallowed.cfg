SPECIFICATION FairSpec
CONSTANTS
  Nodes <- MCNodes
  LeasesOf <- MCLeasesOf
  Gone = Gone
  None = None
  Bad = Bad
  NoNode = NoNode
  MaxChanges = 4
  Disturb = {"op_fails"}
  MaxFaults = 1
INVARIANTS
  FailedAddNotInstalled
