SPECIFICATION Spec
CONSTANTS
    s1 = s1
    s2 = s2
    None = None
    Streams <- TwoStreams
    TableRoom = 2
    MaxNodes = 2
    MaxFrames = 2
    MaxProperties = 1
    MaxStarts = 1
SYMMETRY Symmetry
CHECK_DEADLOCK FALSE
INVARIANTS
    RecordsInsideNode
    NoFrameLeaks
    UndoLeadsBack
    SeekTableIsExact
    ConfigurationCoversProperties
