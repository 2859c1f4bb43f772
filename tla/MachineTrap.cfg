\* Programs behind a trap handler of six instructions.
CONSTANTS
    AddressBits = 6
    IterationBits = 4
    AreaBits = 12
    DataBits = 16
    QueueSize = 6
    Programs <- TrapPrograms
    Files <- MCFiles
    RandomPeriods <- FreshNumbers
    StackWords = {0}
    Descriptors = {0, 1, 8, 9}
    Crashing = {}
    NoToken = NoToken
    TrapMode = TRUE
    TrapCodeLimit = 6
SPECIFICATION RunningSpec
INVARIANTS OutputComplete AskedOnce
PROPERTY Completes
\* The machine stops when the parent has killed its children.
CHECK_DEADLOCK FALSE
