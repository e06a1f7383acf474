------------------------- MODULE MCSquareWebhook -------------------------
\* Instances of SquareWebhook for TLC.
EXTENDS SquareWebhook, TLC

CONSTANTS pay, refund, o1, w1, w2

\* One order: its payment is updated, and a refund of it completed.
PaymentAndRefund == [e \in Events |-> IF e = pay THEN "payment.updated" ELSE "refund.updated"]
AllCompleted == [e \in Events |-> "COMPLETED"]
OneOrder == [e \in Events |-> o1]

WorkerSymmetry == Permutations(Workers)
===========================================================================
