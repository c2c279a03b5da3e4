SPECIFICATION FairSpec
CONSTANTS
    PacketIds = 5
    MaxUnits = 2
    MaxLoss = 3
    MaxFails = 1
    MaxNulls = 1
    MaxCalls = 3
    None = None
CHECK_DEADLOCK FALSE
INVARIANTS
    FramesAreExact
    StartedStreamReads
    BuffersAreReturned
PROPERTIES
    CallsReturn
