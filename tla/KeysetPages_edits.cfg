\* A client pages through a table while two writes are made.
SPECIFICATION Spec
CONSTANTS
  rowA = rowA
  rowB = rowB
  rowC = rowC
  Null = Null
  Omitted = Omitted
  Unlimited = Unlimited
  NoCursor = NoCursor
  Row <- MCRow
  Column <- MCColumn
  Values = {1, 2, 3}
  PrimaryKey <- MCPrimaryKey
  NotNull = {"shelf", "place"}
  Rounded = {"score"}
  Enums = {"shelf"}
  Elsewhere <- AllTied
  Orderings <- MCOrderings
  DefaultOrder <- ByPlace
  Requests <- MCRequests
  Distincts <- MCDistincts
  Contents <- MCContents
  MaxEdits = 2
SYMMETRY MCSymmetry
INVARIANTS TypeOK NoRepeat NoSkip OffsetPagesTile
