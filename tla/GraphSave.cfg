SPECIFICATION FairSpec
CONSTANTS
  Saves = {s1, s2}
  Ops = {a, b}
  NoSave = NoSave
INVARIANTS
  TypeOK
  AuditOnlyDurable
  ReturnedWritesAudited
  VerdictTruthful
PROPERTIES
  EveryCallEnds
  ImplementsAtomicSave
CHECK_DEADLOCK FALSE
