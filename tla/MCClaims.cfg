SPECIFICATION FairSpec
CONSTANTS
  a = a
  b = b
  c = c
  k1 = k1
  k2 = k2
  Names <- MCNames
  Keys <- MCKeys
  Durations <- MCDurations
  NoRow = NoRow
INVARIANTS
  TypeOK
  Exclusive
  BeliefBacked
  HoldersRegistered
  NameKeepsClaims
PROPERTIES
  LeaseSpec
  CrashedClaimLapses
