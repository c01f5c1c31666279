\* Two builds over one dialect's tables, with other scalar overrides.
SPECIFICATION Spec
CONSTANTS
  TableKeys <- MCTableKeys
  Column <- MCColumn
  PrimaryKey <- MCPrimaryKey
  UniqueSets <- MCUniqueSets
  PartialSets <- MCPartialSets
  Relation <- MCRelation
  Direct = Direct
  Noun <- MCNoun
  Unbounded = Unbounded
  Dialect <- MCDialect
  First <- MCFirst
  Later <- MCLater
  Calls <- MCCalls
  MaxBuilds = 2
  None = None
INVARIANTS GroupsAsConfigured
\* The calls of buildSchema are bounded.
CHECK_DEADLOCK FALSE
