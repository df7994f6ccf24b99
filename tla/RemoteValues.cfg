SPECIFICATION Spec
CONSTANTS
  c1 = c1
  c2 = c2
  NoClient = NoClient
  Clients = {c1, c2}
  Mortal = {c2}
  Wide = {c1}
  rmaxconn = 1
  MaxConns = 3
  MaxValues <- TwoAndOne
  MaxFailures = 1
INVARIANTS ConnectsCounted
PROPERTIES IsLossyChannel EveryValueSettles WaitEnds
CHECK_DEADLOCK FALSE
