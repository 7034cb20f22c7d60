CONSTANTS
    Putters = {p1, p2}
    Getters = {g1, g2}
    Values = {v1, v2}
    len = 2
    WaitModes = {TRUE, FALSE}
    NoVal = NoVal
SYMMETRY Symmetry
SPECIFICATION QueSpec
INVARIANTS
    RingIsConsistent
    NobodyForgotten
PROPERTIES
    ImplementsFifo
