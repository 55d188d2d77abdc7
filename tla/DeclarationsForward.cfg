CONSTANTS
  Primitives <- MCPrimitives
  Names = {"S"}
  Lists <- MCLists
  Parameters <- MCParameters
  MaxConstructs = 3
  MaxNesting = 2
SPECIFICATION Spec
INVARIANT ForwardReferencesWait
CHECK_DEADLOCK FALSE
