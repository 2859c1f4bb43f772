\* How the machine ends: a ring that fills up, a program that halts, one that
\* finishes, one that cannot be loaded, stages that die.
CONSTANTS
    AddressBits = 5
    IterationBits = 4
    AreaBits = 12
    DataBits = 16
    QueueSize = 1
    Programs <- TeardownPrograms
    Files <- MCFiles
    RandomPeriods <- TwoAreas
    StackWords = {0}
    Descriptors = {0, 1, 8, 9}
    Crashing = {"io_switch", "input_module"}
    NoToken = NoToken
    TrapMode = FALSE
    TrapCodeLimit = 6
SPECIFICATION FairSpec
INVARIANTS TypeOK StuckShape NoOrphans
PROPERTY Teardown
\* The machine stops when the parent has killed its children.
CHECK_DEADLOCK FALSE
