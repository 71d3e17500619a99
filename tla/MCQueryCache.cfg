SPECIFICATION Spec
CONSTANTS
  A = A
  B = B
  RT = RT
  RAny = RAny
  Ids <- MCIds
  Wildcards <- MCWildcards
  Covers <- MCCovers
  Kind <- MCKind
  Builds <- MCBuilds
  Queries <- MCQueries
  Users = {1, 2}
  Programs <- MCPrograms
  SlotsOfCache = {1, 2}
  MatchAnyTime = FALSE
  MaxArchetypes = 3
  MaxCommits = 2
  MaxMoves = 2
INVARIANTS
  TypeOK
  NoDeadArchetype
  IndexesAgree
  MatchIsFresh
CHECK_DEADLOCK FALSE
