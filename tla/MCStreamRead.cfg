SPECIFICATION Spec
CONSTANTS
    s1 = s1
    s2 = s2
    sensor = sensor
    r1 = r1
    r2 = r2
    None = None
    Sensors <- OneSensor
    Streams <- OneStream
    SensorOf <- SensorOfOne
    Readers <- TwoReaders
    MaxFrame = 3
SYMMETRY Symmetry
INVARIANTS
    NoLostWakeup
    EmptyReadWasOvertaken
PROPERTIES
    ImplementsFrameFeed
