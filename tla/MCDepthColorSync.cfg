SPECIFICATION SyncSpec
CONSTANTS
    d1 = d1
    d2 = d2
    color = color
    ir = ir
    depthSensor = depthSensor
    colorSensor = colorSensor
    irSensor = irSensor
    g1 = g1
    g2 = g2
    g3 = g3
    MaxRefusals = 1
    Own = Own
    NoGroup = NoGroup
    VideoStreams <- MCStreams
    Sensors <- MCSensors
    SensorOf <- MCSensorOf
    DepthColor <- MCDepthColor
    Groups <- MCGroups
INVARIANTS
    HoldersAreLive
    GroupIsStarted
SYMMETRY MCSymmetry
