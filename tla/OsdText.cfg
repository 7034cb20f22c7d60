CONSTANTS
    ALIGN = 8
    ch_num = 1
    Fonts <- OnlyAscii422
    Title <- ChinaTV
    Midnight <- ZeroOClock
    Times <- OneTime
    OSD_BUF_SIZE = 4608
SPECIFICATION Spec
CHECK_DEADLOCK FALSE
INVARIANTS
    MemoryIsEnough
