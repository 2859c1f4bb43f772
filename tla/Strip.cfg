\* Nine files, stripped up to two times, and then up to four loads of them in
\* every order.
CONSTANTS
    AddressBits = 5
    IterationBits = 4
    AreaBits = 5
    DataBits = 9
    Originals <- MCOriginals
    NumberName <- MCNumberName
    StartsWith <- MCStartsWith
    MaxRuns = 2
    MaxLoads = 4
SPECIFICATION Spec
INVARIANTS LiveCodeLinked ExportsAreLive LoadsAlike
PROPERTY CodeStays
\* All loads are made.
CHECK_DEADLOCK FALSE
