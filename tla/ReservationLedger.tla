-------------------------- MODULE ReservationLedger --------------------------
(***************************************************************************)
(* What the stock reservation service promises, in one step per operation: *)
(* a ledger of the units each session holds of each product.  A hold is    *)
(* granted only while the units held stay within what the product ever had *)
(* to sell; a hold is dropped by a release, a rollback or an expiry.       *)
(* StockReservation implements it with Redis hashes and several round      *)
(* trips per request.                                                      *)
(***************************************************************************)
EXTENDS Integers

CONSTANTS
    Sessions, Products, MaxQty,
    ReservedQuantity(_)   \* the units that the holds of one product add up to

VARIABLES
    held,   \* held[p][s]: units of product p held for session s
    cap     \* cap[p]: the most units of p that were ever for sale

Init ==
    /\ held = [p \in Products |-> [s \in Sessions |-> 0]]
    /\ cap \in [Products -> Nat]

\* A session takes q units of p, in place of what it held of it.
Grant(p, s, q) ==
    /\ ReservedQuantity(held[p]) + q <= cap[p]
    /\ held' = [held EXCEPT ![p][s] = q]
    /\ UNCHANGED cap

\* Any set of holds is dropped, each one whole.
Drop ==
    /\ held' \in [Products -> [Sessions -> 0..MaxQty]]
    /\ \A p \in Products, s \in Sessions : held'[p][s] \in {0, held[p][s]}
    /\ UNCHANGED cap

\* More units than ever before come on sale.
Raise ==
    /\ cap' \in [Products -> Nat]
    /\ \A p \in Products : cap'[p] >= cap[p]
    /\ UNCHANGED held

Next ==
    \/ \E p \in Products, s \in Sessions, q \in 1..MaxQty : Grant(p, s, q)
    \/ Drop
    \/ Raise

Spec == Init /\ [][Next]_<<held, cap>>

\* The promise: no more units are held than were ever for sale.
WithinCap == \A p \in Products : ReservedQuantity(held[p]) <= cap[p]
=============================================================================
