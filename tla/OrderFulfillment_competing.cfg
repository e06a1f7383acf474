SPECIFICATION Spec
CONSTANTS
    o1 = o1
    o2 = o2
    p1 = p1
    p2 = p2
    w1 = w1
    w2 = w2
    Orders = {o1, o2}
    Products = {p1}
    Workers = {w1, w2}
    Quantity <- Competing
    MaxStock = 1
    SquarePaid = {o1}
    Ops = {"fulfill", "ship", "cancel", "refund"}
    PatchStatuses = {}
SYMMETRY WorkerSymmetry
INVARIANTS
    TypeOK
    Conservation
CONSTRAINT NoMoreThanEver
