\* One mode of two strategies over two bars; more loads than the versions can ask for.
CONSTANTS
  m1 = m1
  m2 = m2
  None = None
  Mode = {m1}
  Strategies = 2
  Lookback = 1
  Overs = {TRUE, FALSE}
  MaxVersion = 2
  MaxRevision = 1
  MaxLoads = 3
  MaxBar = 3
SPECIFICATION FairSpec
PROPERTIES SoundPendingSettles ClosedModesRelease
CHECK_DEADLOCK FALSE
