CONSTANTS
    Inputs <- MCInputs
    Keywords <- MCKeywords
    Include <- MCInclude
SPECIFICATION Spec
INVARIANTS
    TypeOK
    FileInOrder
    LineKept
    TokensAreLexemes
PROPERTIES
    Terminates
CHECK_DEADLOCK FALSE
