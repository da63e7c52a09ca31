SPECIFICATION FairSpec
CONSTANTS
  ConfLen = 2
  ResultLen = 2
  ErrorLen = 1
  Cap = 1
  Hasty = {"ipam_add", "ipam_undo"}
  Disturb = {"spawn_fails", "ipam_fails", "killed"}
  MaxFaults = 2
INVARIANTS
  TypeOK
  ConfigWhole
  AnswerMatchesLease
  Serial
  DelFrees
PROPERTIES
  Completes
