---------------------------- MODULE MCOrderReturns ----------------------------
\* Instances of OrderReturns for TLC.
EXTENDS OrderReturns, TLC

CONSTANTS o1, p1, w1, w2, r1, r2, r3

OneEach == [o \in Orders |-> [p \in Products |-> 1]]
OneInStock == [p \in Products |-> 1]

\* Once a request has overtaken another one, two returns are enough to see a
\* closed one open again beside a new one: nothing more is created, deleted or
\* put into stock.
LittleAfterOvertaking ==
    stale # {} => /\ ~deleted
                  /\ created <= 2
                  /\ \A p \in Products : stock[p] <= Opening[p]

\* A line that was listed twice is looked at alone.
TwiceIsEnough ==
    (\E r \in Stored, p \in Products : returns[r].units[p] > 1) => created <= 1

Symmetry == Permutations(Workers) \cup Permutations(Returns)
=============================================================================
