\* A task that resumes, retries and splits, with room for one split group per execution,
\* and reporters that fit or one that is too large alone.
SPECIFICATION Spec
CONSTANTS
  NumJobs = 2
  Markets <- MCMarkets
  Volumes <- MCVolumes
  RecordLimit = 4
  Wanted <- MCWanted
  MaxRequests = 3
  MaxAttempts = 3
  Retries = 2
  ExtractOnly = FALSE
  MaxFaults = 9
INVARIANTS
  TypeOK
  NothingSkipped
  RequestsBounded
PROPERTIES
  AskedOnce
  Completes
CHECK_DEADLOCK FALSE
