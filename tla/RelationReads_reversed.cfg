\* A to-one relation that inherits the `where' of its reverse, read by its resolver.
SPECIFICATION MCSpec
CONSTANTS
  Null = Null
  NotGiven = NotGiven
  ReversedToOne = TRUE
  Builds <- BuildsOffered
  Databases <- MCDatabases
  Requests <- MCRequests
CHECK_DEADLOCK FALSE
INVARIANTS
  PathsAgree
