\* One mode that is stopped and resumed.
CONSTANTS
  m1 = m1
  m2 = m2
  None = None
  Mode = {m1}
  Strategies = 1
  Lookback = 0
  Overs = {FALSE}
  MaxVersion = 2
  MaxRevision = 0
  MaxLoads = 1
  MaxBar = 1
SPECIFICATION Spec
INVARIANTS ResumeStartsFresh
CHECK_DEADLOCK FALSE
