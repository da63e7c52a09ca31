SPECIFICATION Spec
CONSTANTS
  c1 = c1
  c2 = c2
  Pods = {c1, c2, c3}
  HostName <- MCHostName
  TempName <- MCTempName
  Addrs = {a1, a2}
  Unowned = Unowned
  NoAddr = NoAddr
  Disturb = {"op_fails", "ipam_fails", "undo_fails", "netns_goes", "killed"}
  MaxFaults = 2
SYMMETRY Symmetry
INVARIANTS
  TypeOK
  ReadyIsWired
  LeaseOnlyWhileInUse
  VethOnlyWhileInUse
  FreedAddressIsDown
