------------------------ MODULE MCStockReservation ------------------------
\* Instances of StockReservation for TLC.
EXTENDS StockReservation, Folds, TLC

CONSTANTS s1, s2, p1, p2, w1, w2

CartOf(p, q) == [product |-> p, qty |-> q]

\* Carts that meet on both products in both orders.
CrossingCarts == {<<CartOf(p1, 1), CartOf(p2, 1)>>, <<CartOf(p2, 1), CartOf(p1, 1)>>}
\* Carts on one product each; p2 is the one that may be gone.
OneLineCarts == {<<CartOf(p1, 1)>>, <<CartOf(p2, 1)>>}

\* Workers and sessions are interchangeable.
Interchangeable == Permutations(Workers) \cup Permutations(Sessions)

\* The number of units is the sum that the Lua script computes.
ASSUME ReservedQuantityIsSum ==
    \A h \in [Sessions -> 0..MaxQty] :
        ReservedQuantity(h) = MapThenFoldSet(+, 0, LAMBDA s : h[s],
                                             LAMBDA S : CHOOSE s \in S : TRUE, Sessions)
===========================================================================
