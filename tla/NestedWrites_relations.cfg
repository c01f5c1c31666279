\* A batch over a key on the parent, every plan and input of one on the target, and two writes of a junction, keyed or not.
SPECIFICATION NestedSpec
CONSTANTS
  x = x
  y = y
  shown = shown
  hides = hides
  scoped = scoped
  Batch = 2
  Stored = {x, y}
  Target = {shown, hides, scoped}
  OwnHidden = {hides}
  ScopeHidden = {scoped}
  NoKey = null
  Absent = absent
  Filters <- Selections
  p1 = p1
  p2 = p2
  p3 = p3
  r1 = r1
  r2 = r2
  q1 = q1
  q2 = q2
  s1 = s1
  s2 = s2
  a = a
  b = b
  hidden = hidden
  Parent = {p1, p2, p3}
  NoHolder = null
  Nowhere = nowhere
  AnyHolder = any
  Row = {r1, r2, hidden}
  HiddenRow = {hidden}
  Batches <- UpToTwo
  Lists <- RowFilters
  NotGiven = notgiven
  MaxCreate = 1
  Request = {q1, q2}
  Source = {s1, s2}
  LinkTarget = {a, b, hidden}
  HiddenTarget = {hidden}
  Inputs <- SomeInputs
  Splits <- TwoSources
  Copy = {1, 2}
  Tables <- SomeTables
SYMMETRY Requests
INVARIANTS TypeOK NoOrphan RowsHoldWhatWasAsked HiddenStays ChildrenAsAsked OneIsOne PairsSerializable HooksMirror
PROPERTIES LinksAsAsked
