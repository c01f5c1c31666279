\* A to-one connect by a filter on the foreign key.
SPECIFICATION Spec
CONSTANTS
  p1 = p1
  p2 = p2
  p3 = p3
  r1 = r1
  r2 = r2
  hidden = hidden
  Parent = {p1, p2, p3}
  NoHolder = null
  Nowhere = nowhere
  AnyHolder = any
  Row = {r1, r2, hidden}
  Hidden = {hidden}
  Batches <- OneOrTwo
  Lists <- KeyFilters
  NotGiven = notgiven
  MaxCreate = 1
INVARIANTS ConnectAttaches
