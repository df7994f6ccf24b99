SPECIFICATION IndicationsSpec
CONSTANTS
  f1 = f1
  f2 = f2
  f3 = f3
  Main = "main"
  Threads = {"main", "remote"}
  NoThread = "nobody"
  Filters = {f1, f2}
  MetricOf <- TwoMetrics
  QueueLength = 1
  MaxCalls = 4
  MaxFaults = 1
INVARIANTS SubscribedHasCallback NoLostWakeup
PROPERTIES IsReadersWriterLock OldestIsServed StoringEnds
CHECK_DEADLOCK FALSE
