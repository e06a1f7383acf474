SPECIFICATION Spec
CONSTANTS
    card = card
    guest = guest
    hosted = hosted
    manual = manual
    w1 = w1
    w2 = w2
    Purchases = {card, guest, hosted, manual}
    Kind <- EveryKind
    Keyed = {card, hosted}
    Workers = {w1, w2}
    MaxSubmissions <- TwiceKeyed
    MAX_RETRIES = 2
CHECK_DEADLOCK FALSE
SYMMETRY WorkerSymmetry
INVARIANTS
    TypeOK
    ChargedOnce
    PaidOrdersArePaid
    NumbersWithoutGaps
    HostedPaymentsFindTheirOrder
