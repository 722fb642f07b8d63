\* Two overlapping calls of one operation, whose order fills in up to two parts, over two permissions.
CONSTANTS
  r1 = r1
  r2 = r2
  a = a
  b = b
  x = x
  y = y
  None = None
  Request = {r1, r2}
  Operation = {a}
  Symbol = {x}
  Quantity = 2
  MaxVersion = 2
SPECIFICATION Spec
SYMMETRY Symmetry
INVARIANTS AtMostOnePost RecordsCoverOrders SettledBeforeOpen RebalanceFromRest DuplicateFindsResult BookedOnce ReconciledMeansSettled CycleOfCompleted
PROPERTIES OrdersUnderPermit OrdersOpenSettled
CHECK_DEADLOCK FALSE
