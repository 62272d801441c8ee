SPECIFICATION FairSpec
CONSTANTS
  Callers = {c1, c2}
  Txs = {t1, t2}
  Autocommit = Autocommit
  Floors = {0, 1, 3}
  MaxAttempts = 2
  MaxLevel = 3
INVARIANTS
  TypeOK
  UniqueIds
  FloorRespected
  ContentionBound
PROPERTIES
  ImplementsLedger
  EveryCallReturns
CHECK_DEADLOCK FALSE
