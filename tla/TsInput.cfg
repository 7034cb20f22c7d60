CONSTANTS
    MaxFrames = 4
    AudioFactor = 1
    StopTimeout = 2
    NumStreams = 3
    InputStreams = {0, 1, 2, 3}
    Kind <- KindOAV
    Fd <- FdOAV
    NumPkts = 3
    RevInTime = TRUE
    NoPkt = NoPkt
SPECIFICATION Spec
CHECK_DEADLOCK FALSE
INVARIANTS
    TypeOK
    HalfFull
    PacketsAreSafe
    StopAfterReadTask
    StopAfterReceiver
    EventReadReturns
PROPERTIES
    ImplementsFrameQueues
