CONSTANTS
    Frames = {f1, f2, f3}
    MaxPtr = 3
    QueLen = 3
    MaxInbox = 3
    NumSerials = 4
SPECIFICATION Spec
CHECK_DEADLOCK FALSE
INVARIANTS
    FramesAreConserved
PROPERTIES
    FramesComeGrayInOrder
    FramesReachNextLink
