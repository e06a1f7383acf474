--------------------------- MODULE OrderLifecycle ---------------------------
(***************************************************************************)
(* What the order endpoints promise when each request is one atomic step:  *)
(* an order moves between statuses, and its items are taken out of stock   *)
(* by fulfilment and put back by cancellation or refund, as a whole.       *)
(* OrderFulfillment implements it with several database round trips per    *)
(* request.                                                                *)
(***************************************************************************)
EXTENDS Integers

CONSTANTS
    Orders, Products,
    Quantity,       \* Quantity[o][p]: units of product p that order o asks for
    Open, Closed,   \* the statuses an order starts in, and those it ends in
    PatchStatuses   \* the statuses PATCH is called with

VARIABLES status, fulfilled, stock
book == <<status, fulfilled, stock>>

InStock(o) == \A p \in Products : Quantity[o][p] <= stock[p]

Take(o) ==
    /\ ~fulfilled[o]
    /\ InStock(o)
    /\ fulfilled' = [fulfilled EXCEPT ![o] = TRUE]
    /\ stock' = [p \in Products |-> stock[p] - Quantity[o][p]]

PutBack(o) ==
    IF fulfilled[o]
    THEN /\ fulfilled' = [fulfilled EXCEPT ![o] = FALSE]
         /\ stock' = [p \in Products |-> stock[p] + Quantity[o][p]]
    ELSE UNCHANGED <<fulfilled, stock>>

Moves(o, s) == status' = [status EXCEPT ![o] = s]

Init ==
    /\ status \in [Orders -> Open]
    /\ fulfilled = [o \in Orders |-> FALSE]
    /\ stock \in [Products -> Nat]

Fulfill(o) == status[o] \in Open /\ Take(o) /\ UNCHANGED status

Ship(o) ==
    /\ status[o] \in Open
    /\ Take(o) \/ (fulfilled[o] /\ UNCHANGED <<fulfilled, stock>>)
    /\ Moves(o, "shipped")

Deliver(o) == status[o] = "shipped" /\ Moves(o, "delivered") /\ UNCHANGED <<fulfilled, stock>>

Cancel(o) == status[o] \in Open /\ PutBack(o) /\ Moves(o, "cancelled")

\* Square's event may have marked the order refunded before.
Refund(o) == status[o] # "cancelled" /\ PutBack(o) /\ Moves(o, "refunded")

\* Square tells of a refund.
RefundEvent(o) == Moves(o, "refunded") /\ UNCHANGED <<fulfilled, stock>>

Patch(o, s) == Moves(o, s) /\ UNCHANGED <<fulfilled, stock>>

Next ==
    \E o \in Orders :
        \/ Fulfill(o) \/ Ship(o) \/ Deliver(o) \/ Cancel(o) \/ Refund(o) \/ RefundEvent(o)
        \/ \E s \in PatchStatuses : Patch(o, s)

Spec == Init /\ [][Next]_book
=============================================================================
