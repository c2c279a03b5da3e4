SPECIFICATION Spec
CONSTANTS
    PacketIds = 4
    FullSize = 3
    CroppedSize = 1
    MaxFrames = 2
    MaxLink = 1
    MaxLoss = 3
    MaxCalls = 3
    Full = Full
    Cropped = Cropped
    Start = Start
    Stop = Stop
    Crop = Crop
    Destroy = Destroy
    None = None
CHECK_DEADLOCK FALSE
INVARIANTS
    AnswerIsForItsCommand
    HostAndDeviceAgree
    HandlerIsSafe
PROPERTIES
    ImplementsFrameFeed
