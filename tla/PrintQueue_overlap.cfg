SPECIFICATION Spec
CONSTANTS
    j1 = j1
    j2 = j2
    p1 = p1
    p2 = p2
    w1 = w1
    w2 = w2
    Jobs = {j1, j2}
    Printers = {p1, p2}
    Workers = {w1, w2}
    Matches <- Anywhere
SYMMETRY Symmetry
INVARIANTS
    TypeOK
    PrintersShowTheirJob
PROPERTIES
    FinishedStays
CONSTRAINT Bounded
