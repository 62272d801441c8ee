SPECIFICATION Spec
CONSTANTS
  order = order
  item = item
  other = other
  Objects = {order, item, other}
  Savers = {s1, s2}
  Ids = {1, 2, 3}
  Shapes <- MCShapes
  Stamps = {"update_time"}
  Unfit = {2}
  MaxEdits = 2
  MaxVersion = 4
INVARIANT DeletionDeletes
CHECK_DEADLOCK FALSE
