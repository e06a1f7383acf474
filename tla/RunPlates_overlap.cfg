SPECIFICATION PlatesSpec
CONSTANTS
    q1 = q1
    q2 = q2
    w1 = w1
    w2 = w2
    Plates = {q1, q2}
    PlateWorkers = {w1, w2}
    Created = {"pending", "complete"}
SYMMETRY Symmetry
INVARIANTS
    PlatesTypeOK
    CountsSettle
PROPERTIES
    CompleteStays
