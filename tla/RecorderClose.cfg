SPECIFICATION FairSpec
CONSTANTS
    s1 = s1
    s2 = s2
    None = None
    Streams <- OneStream
    TableRoom = 2
    MaxNodes = 1
    MaxFrames = 1
    MaxProperties = 0
    MaxStarts = 1
CHECK_DEADLOCK FALSE
PROPERTY CloseCompletes
