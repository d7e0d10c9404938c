SPECIFICATION Spec
CONSTANTS
  Requests = {r1, r2}
  Starts <- MCStarts
  FilesReady = TRUE
  MigrationsOk = TRUE
  MaxEdits = 2
  MaxFaults = 1
INVARIANTS
  TypeOK
  ProductionStaysBlocked
  ContractKeepsGatesShut
  RemoteNeedsToken
  ServedWasAudited
CHECK_DEADLOCK FALSE
