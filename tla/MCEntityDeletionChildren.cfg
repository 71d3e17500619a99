SPECIFICATION Spec
CONSTANTS
  a = a
  b = b
  c = c
  Slots = {a, b, c}
  ChildOf = ChildOf
  None = none
  Tags = {}
  Links <- MCChild
  FormAgain = FALSE
  Recycled = {}
  Held = {}
  MaxIds = 2
  MaxArchs = 4
  MaxSafe = 0
PROPERTY ChildrenDieWithParent
CHECK_DEADLOCK FALSE
