SPECIFICATION FairSpec
CONSTANTS
    a = a
    b = b
    base = base
    Absent = Absent
    Broken = Broken
    None = None
    NotAString = NotAString
    Names <- MCNames
    FileSystems <- MCFileSystems
    Directories = 2
    MaxDepth = 2
    MaxBlocks = 2
    MaxEvents = 6
INVARIANT NearestWins
INVARIANT RefusesJustBadChains
INVARIANT ToolCallsWhole
INVARIANT RetriesExhausted
PROPERTY ImplementsModelStream
PROPERTY ConnectionsClosed
PROPERTY ModelCallEnds
CHECK_DEADLOCK FALSE
