SPECIFICATION Spec
CONSTANTS
    Profiles <- MCProfiles
    TouchIds = {1, 2}
    MaxFailures = 1
INVARIANTS
    NoStrayKey
    KeysFollowButtons
    PenAgrees
    FramesFit
    TouchAgrees
PROPERTY
    EraserFlipsOutOfRange
