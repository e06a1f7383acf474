SPECIFICATION Spec
CONSTANTS
    o1 = o1
    p1 = p1
    w1 = w1
    w2 = w2
    r1 = r1
    r2 = r2
    r3 = r3
    Orders = {o1}
    Products = {p1}
    Workers = {w1, w2}
    Returns = {r1, r2, r3}
    Quantity <- OneEach
    MaxUnits = 2
    Opening <- OneInStock
    PatchStatuses = {"refunded"}
    MaxCreated = 3
SYMMETRY Symmetry
INVARIANTS
    TypeOK
    StockAccountsForReturns
    OpenReturnsBounded
    NumbersWithoutGaps
CONSTRAINTS
    LittleAfterOvertaking
    TwiceIsEnough
