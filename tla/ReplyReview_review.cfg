SPECIFICATION Spec
CONSTANTS
  None = None
  Drafts = {d1, d2}
  Requests = {r1, r2, r3, r4, r5}
  MaxFaults = 1
SYMMETRY RequestSymmetry
INVARIANTS
  TypeOK
  OneRowPerDraft
  QueuedWasApproved
  AnsweredMeansAudited
  StateAudited
  AnswerExplained
PROPERTIES
  NeverRestaged
CHECK_DEADLOCK FALSE
