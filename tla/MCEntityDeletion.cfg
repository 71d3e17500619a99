SPECIFICATION Spec
CONSTANTS
  a = a
  b = b
  c = c
  Slots = {a, b, c}
  ChildOf = ChildOf
  None = none
  Tags = {b}
  Links <- MCTree
  FormAgain = FALSE
  Recycled = {b}
  Held = {b}
  MaxIds = 2
  MaxArchs = 3
  MaxSafe = 1
INVARIANTS TypeOK ArchetypeIdsAlive DeletedIsGone
PROPERTIES HeldSurvives
CHECK_DEADLOCK FALSE
