SPECIFICATION Spec
CONSTANTS
  None = None
  Bills <- MCBills
INVARIANTS
  AcceptedBillDrafted
CHECK_DEADLOCK FALSE
