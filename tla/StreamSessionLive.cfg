SPECIFICATION Spec
CONSTANTS
    Capacity = 1
    Gop = 600
    EncoderDepth = 0
    MaxFrames = 2
    MaxIdrRequests = 0
    MaxTelemetry = 0
    MaxTimeSync = 1
PROPERTIES
    PauseEndsSession
    SessionWrapsUp
    InputStopsWithSession
