SPECIFICATION FairSpec
CONSTANTS
  p1 = p1
  p2 = p2
  s1 = s1
  NoSession = NoSession
  NoRow = NoRow
  Procs <- MCProcs
  SessionOf <- MCOneSession
  Window = 2
  MaxMinted = 3
  Crashing <- MCProcs
  DiskFails = TRUE
  CallsArePrompt = FALSE
INVARIANTS
  TypeOK
  AtMostOneHolder
  SecretSingleUse
PROPERTIES
  EvictionGated
  OrphanLapses
