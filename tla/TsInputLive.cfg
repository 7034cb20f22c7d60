CONSTANTS
    MaxFrames = 4
    AudioFactor = 1
    StopTimeout = 2
    NumStreams = 2
    InputStreams = {0, 1}
    Kind <- KindVA
    Fd <- FdVASpread
    NumPkts = 3
    RevInTime = TRUE
    NoPkt = NoPkt
SPECIFICATION Spec
CHECK_DEADLOCK FALSE
PROPERTIES
    FramesAreReceived
    StopCompletes
