CONSTANTS
    Programs <- IfInCase
    MaxTrace = 9
    MaxIdle = 40
    Bits <- MCBits
    GenExpression <- MCGenExpression
    InitialOf <- global_init
SPECIFICATION Spec
INVARIANTS
    NoOpenBlockAbandoned
CHECK_DEADLOCK FALSE
