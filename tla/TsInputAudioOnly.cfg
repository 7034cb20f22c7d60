CONSTANTS
    MaxFrames = 2
    AudioFactor = 1
    StopTimeout = 2
    NumStreams = 1
    InputStreams = {0}
    Kind <- KindA
    Fd <- FdA
    NumPkts = 1
    RevInTime = TRUE
    NoPkt = NoPkt
SPECIFICATION Spec
CHECK_DEADLOCK FALSE
PROPERTIES
    StopCompletes
