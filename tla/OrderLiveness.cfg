\* One call after the other, over two permissions and so two orders.
CONSTANTS
  r1 = r1
  r2 = r2
  a = a
  b = b
  x = x
  y = y
  None = None
  Request = {r1}
  Operation = {a}
  Symbol = {x}
  Quantity = 1
  MaxVersion = 2
SPECIFICATION FairSpec
PROPERTIES RebalancesEnd OrdersSettle ModeReconciles
CHECK_DEADLOCK FALSE
