SPECIFICATION Spec
CONSTANTS
  p1 = p1
  p2 = p2
  s1 = s1
  NoSession = NoSession
  NoRow = NoRow
  Procs <- MCProcs
  SessionOf <- MCOneSession
  Window = 1
  MaxMinted = 3
  Crashing = {}
  DiskFails = FALSE
  CallsArePrompt = TRUE
INVARIANTS
  SidecarCurrent
