\* Two writers and two readers of a queue of two slots: every wrap-around,
\* contention for the mutex, for the last slot and for the last element.
CONSTANTS
    N = 2
    Producers = {p1, p2}
    Consumers = {c1, c2}
    Elements = {e1, e2}
    NoElem = NoElem
    Free = Free
SPECIFICATION FairSpec
INVARIANTS TypeOK MutualExclusion PermitAccounting RingShape
PROPERTIES ImplementsFifo CallsReturn
