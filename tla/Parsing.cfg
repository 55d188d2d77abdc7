CONSTANTS
    Inputs <- AllInputs
    Stacks <- AnyStack
    ReorderExpression <- Reorder
    Texts <- AllTexts
    Numbers <- MCNumbers
SPECIFICATION ParserSpec
INVARIANTS
    ParserTypeOK
    RegularGrouped
    OperandsInPlace
    TokensKept
    AllAccepted
    UnmatchedReported
    ParsedAsWritten
    CasesOfOwnSwitch
    StackInStep
PROPERTIES
    Terminates
CHECK_DEADLOCK FALSE
