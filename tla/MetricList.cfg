SPECIFICATION MLSpec
CONSTANTS
  b1 = b1
  b2 = b2
  b3 = b3
  Blocks = {b1, b2, b3}
  Interval <- MixedIntervals
  SyncLevel = 1
  MaxClients = 2
  MaxTime = 4
INVARIANTS BlocksAccountedFor NeverLeftLocked
PROPERTIES OneSamplePerInterval
