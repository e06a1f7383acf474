----------------------------- MODULE MCPrintQueue -----------------------------
\* Instances of PrintQueue for TLC.
EXTENDS PrintQueue, TLC

CONSTANTS j1, j2, p1, p2, w1, w2

Anywhere == [j \in Jobs |-> Printers]

\* Explores no further once a printer is loose; and while a printer is inactive,
\* it is the only one and one request runs.
Bounded ==
    /\ loose = {}
    /\ \/ \A p \in Printers : printer[p].active
       \/ /\ Cardinality({p \in Printers : ~printer[p].active}) = 1
          /\ Cardinality({w \in Workers : req[w] # Idle}) <= 1

Symmetry == Permutations(Jobs) \cup Permutations(Printers) \cup Permutations(Workers)
=============================================================================
