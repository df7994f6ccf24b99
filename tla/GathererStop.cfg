SPECIFICATION FairSpec
CONSTANTS
  b1 = b1
  b2 = b2
  b3 = b3
  p1 = p1
  p2 = p2
  r1 = r1
  Blocks = {b1, b2}
  Interval <- EqualIntervals
  SyncLevel = 1
  MaxClients = 1
  MaxTime = 1
  Retrievers = {r1}
  NoBlock = NoBlock
  Plugins = {p1}
  PluginBlocks <- OnePluginTwoMetrics
  HotPlug = FALSE
PROPERTIES StopReturns
