SPECIFICATION Spec
CONSTANTS
  e1 = e1
  e2 = e2
  e3 = e3
  wide = wide
  narrow = narrow
  Entities = {e1, e2, e3}
  Archetypes = {wide, narrow}
  None = none
  Capacity <- MCCapacity
  ChunkLife = 2
  Lifespans <- MCLifespans
  Dropped = {wide}
  Moves = 1
  CountMax = 3
  DropImmortal = FALSE
  SortDrifted = FALSE
  Chunks <- MCChunks
INVARIANTS FlagsAgree
SYMMETRY MCSymmetry
