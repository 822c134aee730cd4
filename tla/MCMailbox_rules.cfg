SPECIFICATION Spec
CONSTANTS
  a = a
  b = b
  c1 = c1
  c2 = c2
  Names <- MCNames
  Clients <- MCOneClient
  Routes <- MCSpoofedToo
  SentTypes <- MCTask
  Deadlines <- MCOneMs
  ReadCalls <- MCReceiptReads
  Settings = {TRUE, FALSE}
  TTL = 2
  Cap = 2
  MaxId = 2
  MaxClock = 2
INVARIANTS
  TypeOK
  ReceiptTruthful
  StatusInTime
  UnreadCountsAgree
PROPERTIES
  ReadOnce
