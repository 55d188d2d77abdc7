CONSTANTS
    Programs <- ContinueInSwitch
    MaxTrace = 9
    MaxIdle = 40
    Bits <- MCBits
    GenExpression <- MCGenExpression
    InitialOf <- global_init
SPECIFICATION Spec
INVARIANTS
    SameBehaviour
CHECK_DEADLOCK FALSE
