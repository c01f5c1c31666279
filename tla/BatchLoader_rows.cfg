\* Five relation fields of two executions that share a document, keys read one per query.
SPECIFICATION FairSpec
CONSTANTS
  e1 = e1
  e2 = e2
  n1 = n1
  n2 = n2
  c1 = c1
  c2 = c2
  c3 = c3
  c4 = c4
  c5 = c5
  lower = lower
  upper = upper
  other = other
  none = none
  r1 = r1
  r2 = r2
  a1 = a1
  a2 = a2
  Execution = {e1, e2}
  Call = {c1, c2, c3, c4, c5}
  ExecutionOf <- CallExecution
  NodesOf <- CallNodes
  Nodes = {n1, n2}
  KeyOf <- CallKey
  Key = {lower, upper, other}
  NoKey = none
  Args = {a1, a2}
  NoArgs = none
  ArgsOf <- ByVariables
  Row = {r1, r2}
  RowKey <- Spelling
  Fold <- FoldCase
  Shown <- ShownRows
  ChunkSize = 1
INVARIANTS TypeOK OwnAnswer LoadsAccounted
PROPERTIES EveryLoadSettles
