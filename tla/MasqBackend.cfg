SPECIFICATION SpecBackend
CONSTANTS
  Disturb = {"append_fails", "check_fails", "abort", "flush"}
  Upsets = {"save_fails", "restart", "others_append", "proxy_moves"}
  MaxFaults = 3
  MaxOthers = 1
INVARIANTS
  TypeOKBackend
  SameTable
  OneTable
  ExemptInBoth
  NoGrowth
PROPERTIES
  Heals
