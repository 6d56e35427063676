SPECIFICATION Spec
CONSTANTS
    MaxLoops = 2
    MaxBinds = 3
    MaxLate = 1
INVARIANTS
    OneLoop
    ListeningIsReachable
    StoppedIsClosed
PROPERTIES
    CancelledLoopEnds
    ErrorIsRetried
