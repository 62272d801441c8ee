SPECIFICATION FairSpec
CONSTANTS
  Records = {r1, r2, r3}
  Capacity = 2
  BatchSize = 2
  Flushers = {f}
  Closers = {c}
  Nobody = Nobody
  MaxOffers = 3
INVARIANTS
  EveryRecordCounted
  LossesReported
  RetiredNeverSent
  FlushHonest
  ShutdownSettles
CHECK_DEADLOCK FALSE
PROPERTIES
  LifecyclesEnd
  ShutdownDrains
