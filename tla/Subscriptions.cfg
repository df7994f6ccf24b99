SPECIFICATION Spec
CONSTANTS
  Metrics <- ThreeMetrics
  BaseOf <- BasesOfThree
  Listeners = {"l1"}
  Correlators = {1}
  Garbage = {0, 1}
  MaxCalls = 4
  MaxReloads = 1
  IntWidth = 2
  LongWidth = 4
INVARIANTS   SubscribedIsCalledBack ComparesValues
