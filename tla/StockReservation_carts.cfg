SPECIFICATION Spec
CONSTANTS
    s1 = s1
    s2 = s2
    p1 = p1
    p2 = p2
    w1 = w1
    w2 = w2
    Sessions = {s1, s2}
    NoSession = NoSession
    Products = {p1, p2}
    Catalog = {p1, p2}
    PrintToOrder = {p2}
    Workers = {w1, w2}
    Carts <- CrossingCarts
    MaxQty = 1
    MaxStock = 1
    TTL = 3
    Extras = {}
    SerialSessions = TRUE
SYMMETRY Interchangeable
INVARIANTS
    SuccessHoldsAll
    RefusalHoldsNothing
    LiveHoldsAreCounted
