CONSTANTS
    numBuf = 3
    Sink = {sink}
    SwitchProducers = {w1}
    Consumers = {c1}
    SwitchConsumers = {r1}
    NumFrames = 4
SPECIFICATION Spec
CHECK_DEADLOCK FALSE
INVARIANTS
    IdsAreConserved
PROPERTIES
    ReadersSeeStableFrames
    ImplementsFrameQueues
    KeptFramesAreReceived
