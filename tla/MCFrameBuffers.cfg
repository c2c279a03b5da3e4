SPECIFICATION Spec
CONSTANTS
    f1 = f1
    f2 = f2
    b1 = b1
    b2 = b2
    b3 = b3
    driver = driver
    app = app
    recorder = recorder
    s1 = s1
    s2 = s2
    custom = custom
    Frames <- MCFrames
    Buffers <- MCBuffers
    Sizes <- MCSizes
    Threads <- MCThreads
    Driver = driver
    Streams <- MCStreams
    Custom <- MCCustom
    Pool = Pool
    Memory = Memory
    None = None
SYMMETRY MCSymmetry
CHECK_DEADLOCK FALSE
INVARIANTS
    RefCountExact
    BufferReturnsToItsMaker
    PoolHasRequiredSize
    DeadSensorIsForgotten
PROPERTIES
    OwnedDataStays
