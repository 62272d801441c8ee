SPECIFICATION Spec
CONSTANTS
  Callers = {c1, c2}
  Txs = {t1}
  Autocommit = Autocommit
  Floors = {2}
  MaxAttempts = 2
  MaxLevel = 3
INVARIANT NeverReused
CHECK_DEADLOCK FALSE
