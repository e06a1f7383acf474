---------------------------- MODULE MCPayments ----------------------------
\* Instances of Payments for TLC.
EXTENDS Payments, TLC

CONSTANTS card, guest, hosted, manual, w1, w2

\* card and hosted are submitted again under their client's key.
EveryKind == [c \in Purchases |->
    IF c = hosted THEN "hosted" ELSE IF c = manual THEN "manual" ELSE "card"]
TwiceKeyed == [c \in Purchases |-> IF c \in Keyed THEN 2 ELSE 1]

WorkerSymmetry == Permutations(Workers)
===========================================================================
