SPECIFICATION FairSpec
CONSTANTS
  Cidrs = {c1, c2}
  Macs = {m1, m2}
  UnderlayMtus = {40, 1400, 9000}
  Pods = {p1}
  None = None
  Blank = Blank
  Anew = Anew
  Disturb = {"net_fails", "api_fails", "fs_fails", "conf", "underlay", "link_gone", "reregister",
             "killed", "reboot"}
  MaxFaults = 3
INVARIANTS
  TypeOK
  PublishedIsDevice
  DeviceAgrees
  PodsInSubnet
PROPERTIES
  ComesUp
