SPECIFICATION FairSpec
CONSTANTS
  Disturb = {"flush_within"}
  MaxFaults = 1
PROPERTIES
  Heals
