\* The command --extract-only without a fault, over one job more than its budget allows
\* in one execution.
SPECIFICATION Spec
CONSTANTS
  NumJobs = 3
  Markets <- MCMarkets
  Volumes <- MCGaps
  RecordLimit = 5
  Wanted <- MCEverything
  MaxRequests = 2
  MaxAttempts = 1
  Retries = 0
  ExtractOnly = TRUE
  MaxFaults = 0
PROPERTIES
  ContinuesWhenRepeated
CHECK_DEADLOCK FALSE
