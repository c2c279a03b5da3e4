SPECIFICATION Spec
CONSTANTS
    depth = depth
    color = color
    r1 = r1
    r2 = r2
    None = None
    Streams <- TwoStreams
    First = depth
    Indexes <- TwoIndexes
    Readers <- TwoReaders
SYMMETRY Symmetry
INVARIANTS
    SyncedFramesMatch
    HeldExact
    WaitingReaderIsSignalled
