SPECIFICATION Spec
CONSTANTS
  NoStamp = NoStamp
  Smokes = {c1, c2}
  Clients <- MCClients
  LocalWindow = 1
  MaxAhead = 1
  Environments <- MCEnvironments
  Limit = 4
  LimitWindow = 1
  MaxTime = 1
  MaxDisturbances = 1
SYMMETRY SmokeSymmetry
INVARIANTS
  PassIsFaithful
  FailureHasCause
CHECK_DEADLOCK FALSE
