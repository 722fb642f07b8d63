\* Two modes; one loads the new configuration while the other evaluates.
CONSTANTS
  m1 = m1
  m2 = m2
  None = None
  Mode = {m1, m2}
  Strategies = 1
  Lookback = 0
  Overs = {FALSE}
  MaxVersion = 3
  MaxRevision = 1
  MaxLoads = 2
  MaxBar = 1
SPECIFICATION Spec
INVARIANTS ConfigurationNotMixed
CHECK_DEADLOCK FALSE
