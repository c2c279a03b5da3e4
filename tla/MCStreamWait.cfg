SPECIFICATION FairSpec
CONSTANTS
    s1 = s1
    s2 = s2
    sensor = sensor
    r1 = r1
    r2 = r2
    None = None
    Sensors <- OneSensor
    Streams <- TwoStreams
    SensorOf <- SensorOfTwo
    Readers <- OneReader
    MaxFrame = 1
PROPERTIES
    BlockedReaderWakes
    ListenerHearsOfFrames
