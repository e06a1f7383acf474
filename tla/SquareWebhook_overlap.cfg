SPECIFICATION Spec
CONSTANTS
    pay = pay
    refund = refund
    o1 = o1
    w1 = w1
    w2 = w2
    Events = {pay, refund}
    Orders = {o1}
    NoOrder = NoOrder
    Workers = {w1, w2}
    Kind <- PaymentAndRefund
    Payload <- AllCompleted
    OrderOf <- OneOrder
    Hosted = {}
    MaxAttempts = 2
    MaxDeliveries = 3
CHECK_DEADLOCK FALSE
SYMMETRY WorkerSymmetry
INVARIANTS
    TypeOK
    DuplicatesBounded
    NothingLost
    RefundsReachOrders
