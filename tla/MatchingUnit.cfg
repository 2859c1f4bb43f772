\* Six keys collide in two buckets.
CONSTANTS
    AddressBits = 3
    IterationBits = 4
    AreaBits = 4
    DataBits = 8
    TableSize = 2
    Incoming <- MCIncoming
    NoToken = NoToken
SPECIFICATION Spec
INVARIANTS TypeOK TableSearchable PairIsOfTable
PROPERTY ImplementsMatchingStore
