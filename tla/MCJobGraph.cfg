SPECIFICATION Spec
CONSTANTS
  Slots = {s1, s2, s3}
  Workers = {w1, w2}
  Main = main
  None = none
  MaxDeps = 2
  ManualFanout = 1
  EagerDelete = FALSE
  MaxAdds = 4
  MaxSubmits = 2
SYMMETRY Symmetry
INVARIANTS TypeOK DependencyOrder ReadyIsClaimed SignalHitsDependent EdgesLive
CHECK_DEADLOCK FALSE
