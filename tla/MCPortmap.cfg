SPECIFICATION Spec
CONSTANTS
  c1 = c1
  c2 = c2
  c3 = c3
  p1 = p1
  p2 = p2
  Containers = {c1, c2, c3}
  Ports = {p1, p2}
  Mappings <- MCMappings
  Ips = {i1, i2}
  None = None
  Absent = Absent
  Disturb = {"add_fails", "check_fails", "undo_fails", "no_args", "bad_args", "flush", "killed"}
  MaxFaults = 1
SYMMETRY Symmetry
INVARIANTS
  TypeOK
  ServesPod
  LoopbackMasqueraded
  DelLeavesNothing
  SharedRulesBounded
