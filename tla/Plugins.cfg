CONSTANTS
  Base = 5
  MaxSamples = 3
  Amounts <- MCAmounts
  Wait = 2
  Domains = {"d1", "d2"}
  MaxWork = 1
  MaxStarts = 2
  MaxTime = 4
  Keep = 4
  Files = 3
  MaxUpdates = 3
SPECIFICATION MCSpec
INVARIANTS    SnapshotIsOfOneMoment
PROPERTIES ListIsWhole DiskIsOfOneMoment
CHECK_DEADLOCK FALSE
