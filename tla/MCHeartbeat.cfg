SPECIFICATION FairSpec
CONSTANTS
  m1 = m1
  m2 = m2
  NoBeat = NoBeat
  Monitors <- MCTwoMonitors
  Window = 3
  Interval = 2
  Delay = 1
  MaxOwner = 2
INVARIANTS
  TypeOK
  HealthyWakeable
  ExitClears
PROPERTIES
  UnwatchedLapses
