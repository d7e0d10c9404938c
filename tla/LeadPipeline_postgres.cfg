SPECIFICATION Spec
CONSTANTS
  s1 = s1
  s2 = s2
  m1 = m1
  m2 = m2
  m3 = m3
  r1 = r1
  r2 = r2
  None = None
  Submissions = {s1, m1, m2}
  Solar = {s1}
  Replayers = {r1}
  Key <- MCKey
  EventId <- MCEventId
  LeadId <- MCLeadId
  Invalid = {}
  Unprocessable = {m2}
  Adapter = "postgres"
  MaxRetries = 3
  MaxFaults = 2
  MaxDeaths = 1
INVARIANTS
  NothingVanishes
  RememberedIsAccounted
  LeadEventUnique
  OneLeadPerKey
  AllOrNothing
  DeadLetterBacked
PROPERTIES
  ImplementsLedger
CHECK_DEADLOCK FALSE
