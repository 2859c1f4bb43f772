\* Programs with a handler that denies everything, and loads a file.
CONSTANTS
    AddressBits = 6
    IterationBits = 4
    AreaBits = 12
    DataBits = 16
    QueueSize = 6
    Programs <- LoadingPrograms
    Files <- MCFiles
    RandomPeriods <- FreshNumbers
    StackWords = {0}
    Descriptors = {0, 1, 8, 9}
    Crashing = {}
    NoToken = NoToken
    TrapMode = TRUE
    TrapCodeLimit = 9
SPECIFICATION Spec
INVARIANT DeniedPrintsNothing
\* The machine stops when the parent has killed its children.
CHECK_DEADLOCK FALSE
