\* One refreshing run, resumed after it was interrupted between the two S3 objects
\* of a source, while the API has changed its answer.
SPECIFICATION Spec
CONSTANTS
  Runs = {new}
  Refresh <- MCRefreshNew
  Jobs = {1}
  Reporters = {us}
  QueryTypes = {"partner_detail"}
  Content = {"a", "b"}
  Edition <- MCEdition
  Nothing = Nothing
  Exclusive = TRUE
  MaxRevision = 2
  MaxChanges = 1
  MaxExecutions = 2
  old = old
  new = new
  us = us
  jp = jp
INVARIANTS
  ResumeNeverConflicts
CHECK_DEADLOCK FALSE
