SPECIFICATION AnySpec
CONSTANTS
  a = a
  b = b
  Ops <- Operations
  Calls = {u1, u2, u3}
  Requests <- SinglesAndBatches
  MaxPlan = 2
  TxCalls = {u1, u2, u3}
  Owners = {k1, k2}
  MaxItems = 2
  Contexts = {u1, u2, u3}
  Timeouts = {0, 2}
  Leases = {0, 1, 2}
  MaxClock = 4
  Threads = {t1, t2}
  Builds = {1, 2, 3}
  Tasks = {k1, k2}
  Totals = {0, 1, 3, 5}
  ChunkSize = 2
  Sizes = {0, 1, 2, 3}
  Reads = {1, 2, 9}
  AllOf = 9
  MaxReads = 5
SYMMETRY Interchangeable
INVARIANTS
  WritesReviewed
  WholePlanCommitted
  JournalTruthful
  LeasesHonored
  NoStrayPipeline
  StreamSettles
  ReceiptHonest
CHECK_DEADLOCK FALSE
