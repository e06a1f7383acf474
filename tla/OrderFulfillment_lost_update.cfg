SPECIFICATION Spec
CONSTANTS
    o1 = o1
    o2 = o2
    p1 = p1
    p2 = p2
    w1 = w1
    w2 = w2
    Orders = {o1, o2}
    Products = {p1}
    Workers = {w1, w2}
    Quantity <- Overlapping
    MaxStock = 2
    SquarePaid = {o1, o2}
    Ops = {"fulfill"}
    PatchStatuses = {}
INVARIANTS
    NoRaceConditions
