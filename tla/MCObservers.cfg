SPECIFICATION Spec
CONSTANTS
  e = e
  f = f
  t = t
  toT = toT
  toOther = toOther
  single = single
  both = both
  wild = wild
  twin = twin
  sourced = sourced
  mixed = mixed
  Entities = {e, f, t}
  Spare = {f}
  Data = data
  Pairs = {toT, toOther}
  TargetOf <- MCTargetOf
  Wild = wild_term
  None = none
  Listeners = {single, both, wild, twin, sourced, mixed}
  QueryOf <- MCQueryOf
  Programs <- MCPrograms
  MaxReactions = 1
  CarefulReactions = TRUE
  LoopReactions = FALSE
  DropDiff = FALSE
INVARIANTS TypeOK KeptIsCurrent
PROPERTIES ToldOfMatches
