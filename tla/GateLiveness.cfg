\* The gate closes although the dashboard is gone.
CONSTANTS
  m1 = m1
  m2 = m2
  r1 = r1
  r2 = r2
  None = None
  Mode = {m1}
  Brokered = {m1}
  Request = {r1}
  Timeout = 1
  MaxTTL = 2
  Assignable = {{m1}}
  MaxVersion = 2
  MaxRevision = 1
SPECIFICATION RunningFairSpec
VIEW CoreView
PROPERTIES GateNeedsSyncs StopTakesEffect
CHECK_DEADLOCK FALSE
