SPECIFICATION FairSpec
CONSTANTS
  Nodes <- MCNodes
  LeasesOf <- MCLeasesOf
  Gone = Gone
  None = None
  Bad = Bad
  NoNode = NoNode
  MaxChanges = 4
  Disturb = {"crash"}
  MaxFaults = 1
PROPERTIES
  Converges
