\* Two requests at once, a second mode without a broker and a configuration that disables both, from the operator's Resume on.
CONSTANTS
  m1 = m1
  m2 = m2
  r1 = r1
  r2 = r2
  None = None
  Mode = {m1, m2}
  Brokered = {m1}
  Request = {r1, r2}
  Timeout = 1
  MaxTTL = 2
  Assignable = {{}}
  MaxVersion = 1
  MaxRevision = 2
SPECIFICATION ResumedSpec
VIEW PermitView
PROPERTIES PermitsRefined ConfigChangesOnlyAtRest
CHECK_DEADLOCK FALSE
