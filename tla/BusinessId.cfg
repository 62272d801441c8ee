SPECIFICATION Spec
CONSTANTS
  Calls = {c1, c2, c3}
  Slots = {s1, s2}
  New = {s1}
  Damaged = {s2}
  MaxDay = 2
  Keys = {1, 2}
  NoKey = 0
  MaxAttempts = 2
  MaxCrashes = 1
  Starts <- MCStarts
  Half = 4
  Domain = 9
  Mix <- MCMix
  Digest <- MCDigest
  Blank = Blank
  Malformed = Malformed
INVARIANTS TypeOK UniqueIds RangeHonest RetrySafe WalkMovesOn
SYMMETRY Interchangeable
CHECK_DEADLOCK FALSE
