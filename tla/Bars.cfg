\* Three calls for two symbols, two at a time, over periods of two days on all calendars of three days.
CONSTANTS
  c1 = c1
  c2 = c2
  x = x
  y = y
  None = None
  Call = {c1, c2}
  Symbol = {x, y}
  Size = {2}
  Execution = {"close_to_close", "close_to_next_open"}
  Days = 3
  MaxCalls = 3
SPECIFICATION Spec
VIEW View
SYMMETRY Symmetry
INVARIANTS SlicesAligned NoLookAhead NextOpenHonoured
PROPERTIES PeriodsAdvance
CHECK_DEADLOCK FALSE
