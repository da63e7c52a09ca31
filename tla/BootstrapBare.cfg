SPECIFICATION Spec
CONSTANTS
  Cidrs = {c1}
  Macs = {m1}
  UnderlayMtus = {1400}
  Pods = {p1}
  None = None
  Blank = Blank
  Anew = Anew
  Disturb = {"net_fails"}
  MaxFaults = 1
INVARIANTS
  DeviceHasAddress
