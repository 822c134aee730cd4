SPECIFICATION FairSpec
CONSTANTS
  MaxId = 3
  Muted <- MCMuted
  MaxFaults = 2
INVARIANTS
  TypeOK
  ArrivalOrder
  NothingSkipped
PROPERTIES
  ToldMailWakes
