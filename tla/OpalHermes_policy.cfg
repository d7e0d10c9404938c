SPECIFICATION Spec
CONSTANTS
  None = None
  Bills <- MCBills
INVARIANTS
  TypeOK
  PolicyFollowed
  TierMonotone
  FirmNeedsContext
  CalculatorAnswered
CHECK_DEADLOCK FALSE
