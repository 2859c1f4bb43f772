\* Programs with known output, on a ring of queues with two slots.
CONSTANTS
    AddressBits = 6
    IterationBits = 4
    AreaBits = 12
    DataBits = 16
    QueueSize = 2
    Programs <- OutputPrograms
    Files <- MCFiles
    RandomPeriods <- TwoAreas
    StackWords = {0}
    Descriptors = {0, 1, 8, 9}
    Crashing = {}
    NoToken = NoToken
    TrapMode = FALSE
    TrapCodeLimit = 6
SPECIFICATION RunningSpec
INVARIANTS OutputPrefix OutputComplete OperandsBelongTogether
PROPERTY Completes
\* The machine stops when the parent has killed its children.
CHECK_DEADLOCK FALSE
