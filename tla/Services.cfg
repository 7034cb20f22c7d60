CONSTANTS
    Adders = {a1}
    Removers = {r1}
    Values = {v1, v2}
    Nodes = {n1, n2, n3, n4}
    NULL = NULL
    NoValue = NoValue
    maxsize = 3
    Printers = {"main", "task"}
    Main = "main"
    Levels = {"ERROR"}
    Modules = {"INIT", "SYS"}
    TextLen <- Lengths
    LineMax = 3
    MaxSwitches = 1
    Polls = 2
    MaxOverruns = 1
    PowerOn <- OneState
    Chunks <- FiveChunks
    MaxCalls = 4
SPECIFICATION Spec
CHECK_DEADLOCK FALSE
INVARIANTS
    LinksAgree
    LinesAreOwn
    SwitchesDecide
    SettingsAreMade
    CrcIsRemainder
PROPERTIES
    ImplementsDeque
    SetEthEnds
