SPECIFICATION Spec
CONSTANTS
  t1 = t1 t2 = t2 t3 = t3
  Threads = {t1, t2, t3}
  NoThread = NoThread
  process <- Two
  Foreign = {t3}
  Uses <- Using
  MaxCalls <- Calls
  MaxTotal = 3
  MaxConns = 3
  MaxCrashes = 1
PROPERTIES  EveryCallReturns
CHECK_DEADLOCK FALSE
