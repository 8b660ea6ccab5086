\* Two runs: one transforms, the other fails its build, the first publishes.
SPECIFICATION Spec
CONSTANTS
  Runs = {old, new}
  Workers = {worker1, worker2}
  RunOf <- MCRunOf
  Scope <- MCOverlapping
  End <- MCSameEnd
  FullRefresh <- MCNoFullRefresh
  Nothing = Nothing
  Exclusive = TRUE
  MaxRevision = 1
  MaxStarts = 6
  old = old
  new = new
  worker1 = worker1
  worker2 = worker2
INVARIANTS
  FailedBuildNotReleased
CHECK_DEADLOCK FALSE
