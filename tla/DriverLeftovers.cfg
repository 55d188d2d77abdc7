CONSTANTS
    Proc = {p, q}
    Commands <- MCCommands
    Text <- MCText
    Lexable <- MCLexable
    Parsable <- MCParsable
    Valid <- MCValid
    Linkable <- MCLinkable
    Disks <- AnyDisk
    Absent = Absent
    Empty = Empty
    MaxRuns = 1
    good = good
    other = other
    unlexable = unlexable
    unparsable = unparsable
    badIR = badIR
SPECIFICATION Spec
INVARIANTS
    TempFilesDeleted
CHECK_DEADLOCK FALSE
