CONSTANTS
    Clients = {c1, c2}
    MaxSubs = 2
SPECIFICATION Spec
CHECK_DEADLOCK FALSE
INVARIANTS
    CountIsLiveStreams
    NoHandlerForFreedClient
    NoAbandonedSession
    PlayingReceives
PROPERTIES
    TimedStreamsEnd
