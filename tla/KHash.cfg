\* Keys that collide in four buckets, two of them in eight, at the last bucket:
\* probing wraps around, and a resize finds elements in the way.
CONSTANTS
    Keys = {0, 3, 7, 11}
    Tokens = {t1, t2}
    Hash <- MCHash
    NoToken = NoToken
    NoKey = NoKey
SPECIFICATION FairSpec
INVARIANTS Accounting NothingLost
PROPERTIES ImplementsMap PutReturns
