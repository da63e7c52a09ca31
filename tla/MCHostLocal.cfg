SPECIFICATION FairSpec
CONSTANTS
  Procs = {p1, p2}
  Containers = {c1, c2, c3}
  Hosts <- MCHosts
  Former <- MCFormer
  Absent = Absent
  Blank = Blank
  NoAddr = NoAddr
  NoProc = NoProc
  NoContainer = NoContainer
  Faulty = TRUE
INVARIANTS
  TypeOK
  NoSharedAddress
  LeakOnlyByFault
  DelComplete
  CheckExact
PROPERTIES
  NoOverwrite
  ImplementsPool
  LockFreed
  RoundRobin
