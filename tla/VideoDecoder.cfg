SPECIFICATION Spec
CONSTANTS
    Indices = {b1, b2}
    Stream <- MCStream
    MaxAgeNs = 1000000000
INVARIANTS
    OneFeeder
    FedInOrder
    KeyFlagFollowsFrame
    SampleIsOwn
PROPERTIES
    FrameReachesCodec
