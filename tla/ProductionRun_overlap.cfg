SPECIFICATION Spec
CONSTANTS
    r1 = r1
    r2 = r2
    s1 = s1
    s2 = s2
    m1 = m1
    m2 = m2
    w1 = w1
    w2 = w2
    Runs = {r1, r2}
    Spools = {s1}
    Workers = {w1, w2}
    Materials = {m1, m2}
    Opening <- TwoEach
    Usages <- OneEitherWay
    NoUsage = NoUsage
    Amounts = {1}
    Readings = {1}
    Statuses = {"in_progress", "completed"}
SYMMETRY Symmetry
INVARIANTS
    TypeOK
    TrailAddsUp
    SpoolsMatchRuns
    NeverNegative
CONSTRAINTS
    NothingLoose
    GivesBackAsCreated
    WorthPairing
