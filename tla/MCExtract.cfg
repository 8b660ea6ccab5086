\* Two runs, one stage at a time: interrupted executions, budget stops, resumed
\* runs and an API whose answers change in between.
SPECIFICATION Spec
CONSTANTS
  Runs = {old, new}
  Refresh <- MCRefreshOne
  Jobs = {1}
  Reporters = {us, jp}
  QueryTypes = {"partner_detail"}
  Content = {"a", "c"}
  Edition <- MCEdition
  Nothing = Nothing
  Exclusive = TRUE
  MaxRevision = 2
  MaxChanges = 1
  MaxExecutions = 2
  old = old
  new = new
  us = us
  jp = jp
SYMMETRY MCSymmetry
INVARIANTS
  TypeOK
  Unambiguous
  HandoffComplete
  RefreshIsFresh
PROPERTIES
  ImplementsStore
CHECK_DEADLOCK FALSE
