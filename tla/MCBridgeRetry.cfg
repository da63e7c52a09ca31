SPECIFICATION Spec
CONSTANTS
  c1 = c1
  c2 = c2
  Pods = {c1, c2}
  HostName <- MCHostName
  TempName <- MCTempName
  Addrs = {a1, a2}
  Unowned = Unowned
  NoAddr = NoAddr
  Disturb = {"op_fails"}
  MaxFaults = 1
SYMMETRY Symmetry
INVARIANTS
  RetryNotBlocked
