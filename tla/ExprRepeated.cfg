CONSTANTS
    Inputs <- Repeated
    Stacks <- OnFunction
    ReorderExpression <- Reorder
SPECIFICATION Spec
INVARIANTS
    CorrectGrouping
CHECK_DEADLOCK FALSE
