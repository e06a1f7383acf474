------------------------ MODULE MCOrderFulfillment ------------------------
\* Instances of OrderFulfillment for TLC.
EXTENDS OrderFulfillment, TLC

CONSTANTS o1, o2, p1, p2, w1, w2

\* Units of (order, product) pairs; an order asks for no other product.
Lines(units) == [o \in Orders |-> [p \in Products |->
                   IF <<o, p>> \in DOMAIN units THEN units[<<o, p>>] ELSE 0]]

\* Both orders ask for p1, and the first for p2 as well.
Overlapping == Lines(<<o1, p1>> :> 1 @@ <<o1, p2>> :> 1 @@ <<o2, p1>> :> 2)
\* Both orders ask for one unit of p1.
Competing == Lines(<<o1, p1>> :> 1 @@ <<o2, p1>> :> 1)
\* The orders have no product in common.
Apart == Lines(<<o1, p1>> :> 1 @@ <<o2, p2>> :> 1)

\* Overtaken requests can put units back again and again: explores no further
\* once that brought more into stock than there ever was.
NoMoreThanEver == \A p \in Products : stock[p] <= MaxStock

WorkerSymmetry == Permutations(Workers)
===========================================================================
