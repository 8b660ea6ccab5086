\* Two runs whose stages execute one at a time and are repeated in any order.
SPECIFICATION Spec
CONSTANTS
  Runs = {old, new}
  Workers = {worker1, worker2}
  RunOf <- MCRunOf
  Scope <- MCOverlapping
  End <- MCEnds
  FullRefresh <- MCFullRefreshNew
  Nothing = Nothing
  Exclusive = TRUE
  MaxRevision = 2
  MaxStarts = 7
  old = old
  new = new
  worker1 = worker1
  worker2 = worker2
INVARIANTS
  TypeOK
  OwnMonthsConsistent
  ReleasedAsOfWatermark
  OwnFailedBuildNotReleased
PROPERTIES
  ReleasesAdvance
  FactsNeverRegress
CHECK_DEADLOCK FALSE
