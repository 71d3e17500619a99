SPECIFICATION Spec
CONSTANTS
  Comps <- MCComps
  Default = 0
  Undefined = Undefined
  FirstTemp = 4
  EntityBad = 9
  InitWorld <- MCInitWorld
  MaxOps = 4
  MaxTemps = 2
INVARIANT TypeOK
PROPERTIES CommitIsInOrder
CHECK_DEADLOCK FALSE
