CONSTANTS
    MaxFrames = 2
    AudioFactor = 1
    StopTimeout = 2
    NumStreams = 2
    InputStreams = {0, 1}
    Kind <- KindVA
    Fd <- FdVA
    NumPkts = 1
    RevInTime = TRUE
    NoPkt = NoPkt
SPECIFICATION Spec
CHECK_DEADLOCK FALSE
PROPERTIES
    FramesAreReceived
