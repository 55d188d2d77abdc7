CONSTANTS
    Programs <- WorkingAndNestedDefault
    MaxTrace = 9
    MaxIdle = 40
    Bits <- MCBits
    GenExpression <- MCGenExpression
    InitialOf <- global_init
SPECIFICATION Spec
INVARIANTS
    TypeOK
    ContextMatchesNesting
    Verified
    NoOpenBlockAbandoned
    SameBehaviour
    GoesOn
PROPERTIES
    WorkShrinks
