CONSTANTS
    Value = {p, q}
    Null = Null
    Junk = Junk
    Increment = 2
    MaxCount = 4
SPECIFICATION PSpec
INVARIANTS
    TypeOK
    NoOverrun
    ForwardPass
    BackwardPass
PROPERTIES
    ImplementsContract
CHECK_DEADLOCK FALSE
