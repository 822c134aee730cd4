SPECIFICATION Spec
CONSTANTS
  a = a
  b = b
  c1 = c1
  c2 = c2
  Names <- MCNames
  Clients <- MCTwoClients
  Routes <- MCTokenSends
  SentTypes <- MCTask
  Deadlines <- MCNoDeadline
  ReadCalls <- MCDefaultRead
  Settings = {}
  TTL = 1
  Cap = 2
  MaxId = 3
  MaxClock = 1
SYMMETRY ClientSymmetry
INVARIANTS
  InboxBounded
  StopNotice
  SupersedeLink
PROPERTIES
  NoEarlyLoss
  WithdrawnIsFinal
