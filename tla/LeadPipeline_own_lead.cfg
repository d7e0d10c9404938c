SPECIFICATION Spec
CONSTANTS
  s1 = s1
  s2 = s2
  m1 = m1
  m2 = m2
  m3 = m3
  r1 = r1
  r2 = r2
  None = None
  Submissions = {s1, s2, m1, m2}
  Solar = {s1, s2}
  Replayers = {}
  Key <- MCKey
  EventId <- MCEventId
  LeadId <- MCLeadId
  Invalid = {}
  Unprocessable = {}
  Adapter = "memory"
  MaxRetries = 3
  MaxFaults = 0
  MaxDeaths = 0
INVARIANTS
  OwnLeadReported
CHECK_DEADLOCK FALSE
