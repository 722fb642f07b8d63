\* Three portfolio ids for two modes, with up to two portfolios of before, over two days.
CONSTANTS
  u1 = u1
  u2 = u2
  u3 = u3
  None = None
  Uuid = {u1, u2, u3}
  MaxRow = 3
  MaxDay = 2
  Equity = {1, 2}
  Newest = 1
SPECIFICATION Spec
SYMMETRY Symmetry
INVARIANTS HistoryKeepsMode MappingMatchesState ReportOfOneMode BaselineWithoutProfit RefusedOnHandover
CHECK_DEADLOCK FALSE
