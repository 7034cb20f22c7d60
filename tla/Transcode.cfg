CONSTANTS
    ch_num = 1
    Sizes <- ThreeFrames
    DataLens = {4, 5}
    BitsBufs = 2
    SavedChannels <- OneChannel
    EncBufs = 2
    MaxList = 2
    MaxEncoded = 2
SPECIFICATION Spec
CHECK_DEADLOCK FALSE
INVARIANTS
    FilesHaveNoGap
    FeederMeetsDecoder
    AlarmsAreHandled
    CodecsHaveTheirChain
PROPERTIES
    FeedIsCyclic
    QuitEndsProgram
    EncodedIsSaved
