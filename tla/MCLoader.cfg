\* Two load stages over two months, one of them run twice, with handoffs that agree,
\* overtake each other or conflict, under weak fairness of their own steps.
SPECIFICATION FairSpec
CONSTANTS
  a = a
  b = b
  Loaders = {a, b}
  Months <- MCMonths
  Places <- MCPlaces
  Checksum = {c1, c2, c3}
  Content <- MCContent
  Handoffs <- MCHandoffs
  NoSource = none
  MaxRevision = 2
  MaxAttempts <- MCAttempts
  c1 = c1
  c2 = c2
  c3 = c3
  none = none
  us = us
INVARIANTS
  TypeOK
  CommittedOnce
  ServesNewestAudited
  LoadedMeansCommitted
PROPERTIES
  NeverRegress
  ImplementsRawTable
  StageSettles
CHECK_DEADLOCK FALSE
