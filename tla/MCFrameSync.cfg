SPECIFICATION Spec
CONSTANTS
    depth = depth
    color = color
    a1 = a1
    a2 = a2
    None = None
    Streams <- TwoStreams
    Apps <- TwoApps
    Groups <- AllGroups
    MaxDiff = 1
    Period = 2
    MaxFrames = 3
    MaxTime = 6
    MaxCalls = 4
SYMMETRY Symmetry
CHECK_DEADLOCK FALSE
INVARIANTS
    SetIsOfOneMoment
    ReferencesExact
    NoCompleteSetWaits
    EnabledIsCurrent
