SPECIFICATION FairSpec
CONSTANTS
    a = a
    b = b
    c = c
    w1 = w1
    w2 = w2
    Products = {a, b, c}
    Workers = {w1, w2}
INVARIANTS
    TypeOK
    NoBundleContainsItself
PROPERTIES
    WalksEnd
CONSTRAINT OneInactive
