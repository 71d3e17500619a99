SPECIFICATION Spec
CONSTANTS
  N = 2
  Modulus = 8
  Start = 6
  Producers = {p1, p2}
  Consumers = {c1, c2}
  Items = {i1, i2, i3}
  NoItem = NoItem
INVARIANTS TypeOK ExclusiveCell
PROPERTIES ImplementsFifo EveryItemServed
CHECK_DEADLOCK FALSE
