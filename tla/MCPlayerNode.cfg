SPECIFICATION FairSpec
CONSTANTS
    NodeCount = 2
    MaxEvents = 5
    MaxTime = 2
    MaxFrame = 3
    StackDepth = 3
    Unknown = 99
    Dangling = Dangling
    None = None
    Sessions <- MCSessions
CHECK_DEADLOCK FALSE
INVARIANTS
    StateMatchesPosition
    FailuresAreKnown
PROPERTIES
    SeekShowsItsFrame
    SeekEnds
