SPECIFICATION AnySpec
CONSTANTS
  Parts = {"lists"}
  Callers = {c1}
  k1 = k1
  k2 = k2
  l1 = l1
  l2 = l2
  Keys = {k1, k2}
  Loops = {l1, l2}
  Queries <- TwoLoops
  Rows = {1, 2}
  Limit = 1
  MaxIds = 1
  MaxEntries = 2
  MaxSize = 1
  MaxChanges = 0
  None = None
  red = red
  blue = blue
  u1 = u1
  u2 = u2
  Lists = {t1}
  Contexts = {u1, u2}
  Requests <- FirstPage
  Tables <- TwoRows
  MemberIds = {1, 2}
  ChildIds = {1, 2, 3}
  Kinds = {red, blue}
  Rank <- SecondFirst
  Ceiling = 2
  Policies = {"window"}
INVARIANT FacetsOfWholeMembership
CHECK_DEADLOCK FALSE
