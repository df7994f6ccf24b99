SPECIFICATION Spec
CONSTANTS
  b1 = b1
  b2 = b2
  b3 = b3
  p1 = p1
  p2 = p2
  r1 = r1
  Blocks = {b1, b2}
  Interval <- MixedIntervals
  SyncLevel = 1
  MaxClients = 1
  MaxTime = 2
  Retrievers = {r1}
  NoBlock = NoBlock
  Plugins = {p1, p2}
  PluginBlocks <- TwoPlugins
  HotPlug = TRUE
CHECK_DEADLOCK FALSE
INVARIANTS StoppedMeansQuiet ScheduleMatchesRegistry
PROPERTIES UsesListProperly
