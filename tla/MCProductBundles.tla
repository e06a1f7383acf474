--------------------------- MODULE MCProductBundles ---------------------------
\* Instances of ProductBundles for TLC.
EXTENDS ProductBundles, TLC

CONSTANTS a, b, c, w1, w2

\* One product is inactive at a time.
OneInactive == Cardinality({p \in Products : product[p] = "inactive"}) <= 1
=============================================================================
