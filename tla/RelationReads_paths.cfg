\* Every kind of relation, its policies and filters; a to-one inherits no where.
SPECIFICATION MCSpec
CONSTANTS
  Null = Null
  NotGiven = NotGiven
  ReversedToOne = FALSE
  Builds <- BuildsOffered
  Databases <- MCDatabases
  Requests <- MCRequests
CHECK_DEADLOCK FALSE
INVARIANTS
  FilterMeans
  PathsAgree
  TotalsMean
  GroupsMean
