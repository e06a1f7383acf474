---------------------------- MODULE MCProductionRun ----------------------------
\* Instances of ProductionRun for TLC.
EXTENDS ProductionRun, FiniteSetsExt, TLC

CONSTANTS r1, r2, s1, s2, m1, m2, w1, w2

TwoEach == [s \in Spools |-> 2]
OneEitherWay == {1, -1}

\* Explores no further once something is loose.
NothingLoose == loose = {}

\* Nor once a spool has more than at the beginning, or rows are edited while one
\* that gives back is stored.
GivesBackAsCreated ==
    /\ \A s \in Spools : weight[s] <= Opening[s]
    /\ \A w \in Workers : req[w].op \in {"add", "edit", "remove"} =>
           req[w].row.usage # -1 /\ \A m \in Materials : material[m].usage # -1

\* Of two requests at once one takes filament or deletes the run: the others only
\* prepare a run or close it by PATCH.  Failing, which differs from cancelling in
\* the status it sets, is followed by itself.
Prepares(w) == req[w].op \in {"add", "edit", "remove", "patch"}
WorthPairing ==
    \A v, w \in Workers : v # w /\ ~At(v, "idle") =>
        /\ Prepares(v) => ~Prepares(w)
        /\ req[v].op = "fail" => At(w, "idle")

\* The units used, less those given back, are the sum of what the rows say.
ASSUME UnitsAreTheSum ==
    \A rows \in [Materials -> [usage : {NoUsage, -2, -1, 0, 1, 2}]], S \in SUBSET Materials :
        Net(rows, S) = MapThenSumSet(LAMBDA m : rows[m].usage, Recorded(rows, S))

Symmetry == Permutations(Workers) \cup Permutations(Runs) \cup Permutations(Materials)
=============================================================================
