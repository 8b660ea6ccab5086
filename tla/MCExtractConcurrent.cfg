\* Two refreshing runs at once, on other workers, interleaved between the S3 reads
\* and puts of one identity whose content and HS edition change.
SPECIFICATION Spec
CONSTANTS
  Runs = {old, new}
  Refresh <- MCRefreshBoth
  Jobs = {1}
  Reporters = {us}
  QueryTypes = {"partner_detail"}
  Content <- MCContent
  Edition <- MCEdition
  Nothing = Nothing
  Exclusive = FALSE
  MaxRevision = 3
  MaxChanges = 2
  MaxExecutions = 2
  old = old
  new = new
  us = us
  jp = jp
INVARIANTS
  ManifestAttestsData
  SourcesCommitted
PROPERTIES
  CommittedForEver
CHECK_DEADLOCK FALSE
