SPECIFICATION Spec
CONSTANTS
  a = a
  b = b
  Ops <- Operations
  Calls = {c1, c2}
  Requests <- SinglesAndBatches
  MaxPlan = 1
INVARIANT IncompleteFailsClosed
CHECK_DEADLOCK FALSE
