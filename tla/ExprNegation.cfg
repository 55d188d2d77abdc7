CONSTANTS
    Inputs <- Negation
    Stacks <- OnFunction
    ReorderExpression <- Reorder
SPECIFICATION Spec
PROPERTIES
    Terminates
CHECK_DEADLOCK FALSE
