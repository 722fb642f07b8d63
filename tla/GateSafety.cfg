\* One mode and one request; leases longer than a request takes; the operator acts once.
CONSTANTS
  m1 = m1
  m2 = m2
  r1 = r1
  r2 = r2
  None = None
  Mode = {m1}
  Brokered = {m1}
  Request = {r1}
  Timeout = 2
  MaxTTL = 3
  Assignable = {{m1}}
  MaxVersion = 2
  MaxRevision = 1
SPECIFICATION ResumedSpec
VIEW SafetyView
INVARIANTS StaleContextNeverAdmitted OpenGateSound ReconciledMeansNoneInFlight BoundedStop
PROPERTIES ResumeFollowsClosure GateOpensSettled
CHECK_DEADLOCK FALSE
