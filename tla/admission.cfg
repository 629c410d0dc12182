\* A delivery, its redelivery, a manual fire and a payload of a poll, one fault.
CONSTANTS
  w1 = w1
  d1 = d1
  d2 = d2
  m1 = m1
  p1 = p1
  k1 = k1
  Req = {d1, d2, m1, p1}
  Workflow = {w1}
  Key = {k1}
  WorkflowOf <- MCWorkflowOf
  SourceOf <- MCSourceOf
  KeyOf <- MCKeyOf
  Valid = {d1, d2}
  MaxInFlight = 1
  MaxPerHour = 1
  LastHour = 1
  MaxFaults = 1
SPECIFICATION Spec
SYMMETRY Deliveries
INVARIANTS
  OneRunPerKey
  LogMatchesRuns
  AcceptedIsDecided
  HourlyLimit
  CountersExpire
PROPERTIES
  CeilingUnlessRaced
CHECK_DEADLOCK FALSE
