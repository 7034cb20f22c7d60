CONSTANTS
    ALIGN = 8
    ch_num = 3
    Fonts <- BothFormats
    Title <- ShortTitle
    Midnight <- ShortMidnight
    Times <- ShortTimes
    OSD_BUF_SIZE = 200
SPECIFICATION Spec
INVARIANTS
    TitleIsShown
PROPERTIES
    ClockHeals
