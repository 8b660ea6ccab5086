\* A root that a filling and a refreshing execution share, each started once, and a
\* sync run, started twice, next to another writer of S3 that commits once.
SPECIFICATION Spec
CONSTANTS
  fill = fill
  refresh = refresh
  run = run
  elsewhere = elsewhere
  Reporters <- MCReporters
  Editions <- MCEditions
  Unit = 10
  Limit = 100
  Missing = Missing
  Order <- MCOrder
  Answers <- MCAnswers
  Extractors = {fill, refresh}
  Refreshing = {refresh}
  Runs = {run}
  Elsewhere = elsewhere
  MaxRevision = 2
  MaxStarts <- MCStarts
INVARIANTS
  TypeOK
  AcceptedIsReadable
  CompleteCovers
  HandoffInBoth
PROPERTIES
  InstalledWhole
CHECK_DEADLOCK FALSE
