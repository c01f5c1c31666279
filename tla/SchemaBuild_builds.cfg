\* Two builds over four databases, and the helpers in between.
SPECIFICATION Spec
CONSTANTS
  TableKeys <- MCTableKeys
  Column <- MCColumn
  PrimaryKey <- MCPrimaryKey
  UniqueSets <- MCUniqueSets
  PartialSets <- MCPartialSets
  Relation <- MCRelation
  Direct = Direct
  Noun <- MCNoun
  Unbounded = Unbounded
  Dialect <- MCDialect
  First <- MCFirst
  Later <- MCLater
  Calls <- MCCalls
  MaxBuilds = 2
  None = None
INVARIANTS NestedInputsSound EveryFieldKept ConfigInForce HelperPolicies
\* The calls of buildSchema are bounded.
CHECK_DEADLOCK FALSE
