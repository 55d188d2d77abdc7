CONSTANTS
  Primitives <- MCPrimitives
  Names = {"S", "T"}
  Lists <- MCLists
  Parameters <- MCParameters
  MaxConstructs = 4
  MaxNesting = 3
SPECIFICATION Spec
INVARIANTS TypeOK ScopesNest DoneMeansResolved OneNameOneType FieldsApart FieldsInside StackHoldsLocals
CHECK_DEADLOCK FALSE
