\* Two runs with a month each: one loads its month and is given up.
SPECIFICATION Spec
CONSTANTS
  Runs = {old, new}
  Workers = {worker1, worker2}
  RunOf <- MCRunOf
  Scope <- MCDisjoint
  End <- MCSameEnd
  FullRefresh <- MCNoFullRefresh
  Nothing = Nothing
  Exclusive = TRUE
  MaxRevision = 1
  MaxStarts = 6
  old = old
  new = new
  worker1 = worker1
  worker2 = worker2
INVARIANTS
  ReleasesLatestFacts
CHECK_DEADLOCK FALSE
