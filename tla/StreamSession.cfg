SPECIFICATION Spec
CONSTANTS
    Capacity = 2
    Gop = 600
    EncoderDepth = 1
    MaxFrames = 4
    MaxIdrRequests = 1
    MaxTelemetry = 1
    MaxTimeSync = 0
INVARIANTS
    QueueIsNewestWindow
    PacketsAccounted
    WireInOrder
    StreamStartsWithKeyframe
    IdrNotLost
    EngineReaped
