SPECIFICATION Spec
CONSTANTS
  Saves = {s1}
  Ops = {a}
  NoSave = NoSave
INVARIANT CommittedWritesAnnounced
CHECK_DEADLOCK FALSE
