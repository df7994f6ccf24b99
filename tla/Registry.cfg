SPECIFICATION Spec
CONSTANTS
  n1 = n1
  n2 = n2
  t1 = t1
  Names = {n1, n2}
  NoName = NoName
  Control = Control
  Others = {t1}
  Daemons = {"gatherd", "reposd"}
  IncreaseBy = 2
  MaxSlots = 4
  MaxRestarts = 1
INVARIANTS UniqueIdsInGatherd NoDanglingDefinition DefinitionIsReachable StoredUnderItsName
CHECK_DEADLOCK FALSE
