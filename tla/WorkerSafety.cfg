\* Two modes of two strategies, one of which may load another configuration.
CONSTANTS
  m1 = m1
  m2 = m2
  None = None
  Mode = {m1, m2}
  Strategies = 2
  Lookback = 1
  Overs = {FALSE}
  MaxVersion = 3
  MaxRevision = 1
  MaxLoads = 2
  MaxBar = 2
SPECIFICATION Spec
SYMMETRY Symmetry
VIEW SafetyView
INVARIANTS TargetsComplete BarOnce
PROPERTIES FailureClosesOwnPermit
CHECK_DEADLOCK FALSE
