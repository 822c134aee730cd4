SPECIFICATION FairSpec
CONSTANTS
  p1 = p1
  p2 = p2
  a = a
  b = b
  Nobody = Nobody
  Procs <- MCProcs
  Names <- MCNames
  Starts <- MCStarts
  MaxToken = 4
  MaxFaults = 2
  OtherBuilds = TRUE
INVARIANTS
  TypeOK
  OperationsFit
  CredentialsKept
PROPERTIES
  NoDowngrade
  NoLockout
  Settles
