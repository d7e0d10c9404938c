SPECIFICATION Spec
CONSTANTS
  s1 = s1
  s2 = s2
  m1 = m1
  m2 = m2
  m3 = m3
  r1 = r1
  r2 = r2
  None = None
  Submissions = {s1, m1}
  Solar = {s1}
  Replayers = {r1}
  Key <- MCKey
  EventId <- MCEventId
  LeadId <- MCLeadId
  Invalid = {}
  Unprocessable = {m1}
  Adapter = "postgres"
  MaxRetries = 3
  MaxFaults = 1
  MaxDeaths = 0
INVARIANTS
  FailedNotDropped
CHECK_DEADLOCK FALSE
