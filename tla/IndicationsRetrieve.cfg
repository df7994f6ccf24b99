SPECIFICATION IndicationsSpec
CONSTANTS
  f1 = f1
  f2 = f2
  f3 = f3
  Main = "main"
  Threads = {"main", "remote"}
  NoThread = "nobody"
  Filters = {f1}
  MetricOf <- OneMetric
  QueueLength = 1
  MaxCalls = 2
  MaxFaults = 0
PROPERTIES EntriesShowUp
CHECK_DEADLOCK FALSE
