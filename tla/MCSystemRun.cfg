SPECIFICATION Spec
CONSTANTS
  Systems = {1, 2, 3, 4}
  Phases = {5, 6}
  Comps = {"P", "Q"}
  Chunks = {1, 2}
  Programs <- MCPrograms
  MaxUpdates = 2
  MaxCalls = 2
INVARIANTS
  TypeOK
  NoChangeLost
PROPERTIES
  ImplementsUpdate
  UpdateReturns
CHECK_DEADLOCK FALSE
