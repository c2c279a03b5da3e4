SPECIFICATION FairSpec
CONSTANTS
    u1 = u1
    u2 = u2
    depth = depth
    color = color
    Manual = Manual
    Normal = Normal
    Fastest = Fastest
    None = None
    Users <- TwoUsers
    Sources <- OneSource
    MaxCalls = 3
CHECK_DEADLOCK FALSE
INVARIANTS
    SeekIsAnswered
    FramesNeedTriggers
PROPERTIES
    CallsReturn
    CloseEndsThread
