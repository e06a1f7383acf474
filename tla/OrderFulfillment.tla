-------------------------- MODULE OrderFulfillment --------------------------
(***************************************************************************)
(* The order endpoints of backend/app/api/v1/orders.py with the service    *)
(* backend/app/services/order_fulfillment.py, on PostgreSQL at READ        *)
(* COMMITTED.  A request reads the order, then the order's items and their *)
(* products (OrderItem.product is loaded with the items), decides on what  *)
(* it read, locks the products' rows with SELECT ... FOR UPDATE, and       *)
(* commits.  The rows that the locking query returns do not refresh the    *)
(* Product objects that the session already holds, so the request computes *)
(* the new stock from the values it read before the lock.                  *)
(***************************************************************************)
EXTENDS Integers, FiniteSets

CONSTANTS
    Orders, Products, Workers,
    Quantity,        \* Quantity[o][p]: units of product p in the lines of order o
    MaxStock,        \* largest opening stock
    SquarePaid,      \* the orders with a payment_id of Square
    Ops,             \* the endpoints that are called
    PatchStatuses    \* the statuses PATCH is called with

Statuses == {"pending", "processing", "shipped", "delivered", "cancelled", "refunded"}
Open == {"pending", "processing"}
Closed == {"cancelled", "refunded"}
Endpoints == {"fulfill", "ship", "deliver", "cancel", "refund", "patch"}
Amounts == {"full", "part"}

ASSUME OrdersAssumption ==
    /\ IsFiniteSet(Orders)
    /\ Quantity \in [Orders -> [Products -> Nat]]
    /\ MaxStock \in Nat
    /\ SquarePaid \subseteq Orders
    /\ Ops \subseteq Endpoints
    /\ PatchStatuses \subseteq Statuses

VARIABLES
    opening,    \* the stock of each product before any order took from it
    stock,      \* products.units_in_stock
    status,     \* orders.status
    fulfilled,  \* orders.fulfilled_at is set
    lock,       \* the workers whose transaction holds each product's row lock
    refunds,    \* the refunds Square made, each under the key it was asked with
    req,        \* the request each worker runs
    drifted,    \* history: the products whose stock a request wrote although it
                \* was no longer what the request had read, or whose order was not
    loose       \* history: the orders that were closed without a look at what they
                \* hold, or fulfilled when closed, and not put back since

history == <<drifted, loose>>
vars == <<opening, stock, status, fulfilled, lock, refunds, req, history>>
db == <<stock, status, fulfilled>>

Idle == [pc |-> "idle", op |-> "none", order |-> "none", arg |-> "none",
         status |-> "none", fulfilled |-> FALSE, stock |-> [p \in Products |-> 0]]

Active(w) == req[w].pc # "idle"
Becomes(w, r) == req' = [req EXCEPT ![w] = r]
Goes(w, pc) == Becomes(w, [req[w] EXCEPT !.pc = pc])

Init ==
    /\ opening \in [Products -> 0..MaxStock]
    /\ stock = opening
    /\ status \in [Orders -> Open]
    /\ fulfilled = [o \in Orders |-> FALSE]
    /\ lock = [p \in Products |-> {}]
    /\ refunds = {}
    /\ req = [w \in Workers |-> Idle]
    /\ drifted = {}
    /\ loose = {}

-----------------------------------------------------------------------------
Named(o) == {p \in Products : Quantity[o][p] > 0}

\* A call of an endpoint; arg is PATCH's new status or the amount to refund.
Call(w, op, o, arg) ==
    /\ ~Active(w)
    /\ Becomes(w, [Idle EXCEPT !.pc = "read_order", !.op = op, !.order = o, !.arg = arg])
    /\ UNCHANGED <<opening, db, lock, refunds, history>>

\* select(Order): the row as last committed.
ReadOrder(w) ==
    LET o == req[w].order
    IN  /\ req[w].pc = "read_order"
        /\ Becomes(w, [req[w] EXCEPT
                 !.status = status[o], !.fulfilled = fulfilled[o],
                 !.pc = IF req[w].op \in {"deliver", "patch"} THEN "decide"
                        ELSE "read_products"])
        /\ UNCHANGED <<opening, db, lock, refunds, history>>

\* The items' products, by a later query of the same call.
ReadProducts(w) ==
    /\ req[w].pc = "read_products"
    /\ Becomes(w, [req[w] EXCEPT !.stock = stock, !.pc = "decide"])
    /\ UNCHANGED <<opening, db, lock, refunds, history>>

\* validate_inventory queries the products again, and sees the objects that
\* the session holds.
ValidatedButOne(w) ==
    \A p \in Named(req[w].order) : Quantity[req[w].order][p] <= req[w].stock[p] + 1
Validated(w) ==
    \A p \in Named(req[w].order) : Quantity[req[w].order][p] <= req[w].stock[p]

\* Whether the call deducts the order's items, or puts them back.
PutsBackAnyway(w) == req[w].op \in {"cancel", "refund"}
Takes(w) == req[w].op \in {"fulfill", "ship"} /\ ~req[w].fulfilled
PutsBack(w) == req[w].op \in {"cancel", "refund"} /\ req[w].fulfilled

\* The conditions under which each endpoint goes on, on what it read; PATCH
\* has none.
AnyStatus(w) == TRUE
StillOpen(w) == req[w].status \in Open
MayFulfill(w) == StillOpen(w) /\ ~req[w].fulfilled /\ Validated(w)
MayShip(w) == StillOpen(w) /\ (Takes(w) => Validated(w))
MayDeliver(w) == req[w].status = "shipped"
MayCancel(w) == StillOpen(w)
MayRefund(w) == req[w].status \notin Closed /\ req[w].order \in SquarePaid

Allowed(w) ==
    CASE req[w].op = "fulfill" -> MayFulfill(w)
      [] req[w].op = "ship"    -> MayShip(w)
      [] req[w].op = "deliver" -> MayDeliver(w)
      [] req[w].op = "cancel"  -> MayCancel(w)
      [] req[w].op = "refund"  -> MayRefund(w)
      [] req[w].op = "patch"   -> TRUE

Locking(w) == IF Takes(w) \/ PutsBack(w) THEN "lock" ELSE "commit"

Decide(w) ==
    /\ req[w].pc = "decide"
    /\ IF Allowed(w)
       THEN Goes(w, IF req[w].op = "refund" THEN "pay" ELSE Locking(w))
       ELSE Becomes(w, Idle)
    /\ UNCHANGED <<opening, db, lock, refunds, history>>

\* The idempotency key is refund-{order_number}, whatever the amount.
KeyOfAmount(w) == <<req[w].order, req[w].arg>>
RefundKey(w) == <<req[w].order>>

\* refund_payment at Square: a key makes one refund and no more.
Asked(w) == [key |-> RefundKey(w), order |-> req[w].order, amount |-> req[w].arg]
Square(refund) ==
    IF \E r \in refunds : r.key = refund.key THEN refunds ELSE refunds \cup {refund}

\* Square repeats its answer to a key for the same amount and refuses another;
\* without success the call ends in an error.
Ignored(w) == Goes(w, Locking(w))
RefundError(w) == Becomes(w, Idle)

Pay(w) ==
    /\ req[w].pc = "pay"
    /\ refunds' = Square(Asked(w))
    /\ IF Asked(w) \in refunds' THEN Goes(w, Locking(w)) ELSE RefundError(w)
    /\ UNCHANGED <<opening, db, lock, history>>

\* Square refuses, or its answer is lost after the refund was made.
PayFails(w) ==
    /\ req[w].pc = "pay"
    /\ refunds' \in {refunds, Square(Asked(w))}
    /\ RefundError(w)
    /\ UNCHANGED <<opening, db, lock, history>>

\* SELECT ... FOR UPDATE on all the order's products: waits for their locks.
Lock(w) ==
    /\ req[w].pc = "lock"
    /\ \A p \in Named(req[w].order) : lock[p] = {}
    /\ lock' = [p \in Products |-> IF p \in Named(req[w].order) THEN {w} ELSE lock[p]]
    /\ Goes(w, "commit")
    /\ UNCHANGED <<opening, db, refunds, history>>

Unlocked(w) == [p \in Products |-> lock[p] \ {w}]

\* The stock that deduct_inventory and revert_inventory write: absolute
\* values, from what the request read.
NewStock(w, p) ==
    IF p \in Named(req[w].order)
    THEN CASE Takes(w)    -> req[w].stock[p] - Quantity[req[w].order][p]
           [] PutsBack(w) -> req[w].stock[p] + Quantity[req[w].order][p]
           [] OTHER       -> stock[p]
    ELSE stock[p]

NewStatus(w) ==
    CASE req[w].op = "ship"    -> "shipped"
      [] req[w].op = "deliver" -> "delivered"
      [] req[w].op = "cancel"  -> "cancelled"
      [] req[w].op = "refund"  -> "refunded"
      [] req[w].op = "patch"   -> req[w].arg
      [] OTHER                 -> req[w].status

\* What a commit writes over: the products whose stock it computed from values
\* that are not so any more, and all it writes if its order was fulfilled or
\* put back meanwhile.
Drifts(w) ==
    IF Takes(w) \/ PutsBack(w)
    THEN {p \in Named(req[w].order) : stock[p] # req[w].stock[p]
                                      \/ fulfilled[req[w].order] # req[w].fulfilled}
    ELSE {}

\* Whether an order can be closed and hold units: a cancellation or refund puts
\* back unless it did not see the order fulfilled, a fulfilment may take for an
\* order that was closed meanwhile, and PATCH does not put back.
Loosened(w) ==
    LET o == req[w].order
        closes == status[o] \notin Closed /\ NewStatus(w) \in Closed
        takesForClosed == status[o] \in Closed /\ req[w].op = "fulfill"
    IN  IF req[w].op \in {"cancel", "refund"}
        THEN IF fulfilled[o] = req[w].fulfilled THEN loose \ {o} ELSE loose \cup {o}
        ELSE IF closes \/ takesForClosed THEN loose \cup {o} ELSE loose

\* Flush and commit.  Only the columns that differ from what was read are in
\* the UPDATE; revert_inventory clears fulfilled_at, deduct_inventory sets it.
NeverCleared(w) == TRUE
FulfilledAfter(w) == ~PutsBack(w)
Commit(w) ==
    LET o == req[w].order
    IN  /\ req[w].pc = "commit"
        /\ stock' = [p \in Products |-> NewStock(w, p)]
        /\ status' = IF NewStatus(w) = req[w].status THEN status
                     ELSE [status EXCEPT ![o] = NewStatus(w)]
        /\ fulfilled' = IF Takes(w) \/ PutsBack(w)
                        THEN [fulfilled EXCEPT ![o] = FulfilledAfter(w)]
                        ELSE fulfilled
        /\ lock' = Unlocked(w)
        /\ Becomes(w, Idle)
        /\ drifted' = drifted \cup Drifts(w)
        /\ loose' = Loosened(w)
        /\ UNCHANGED <<opening, refunds>>

\* The process dies, or an exception rolls the transaction back.
Abort(w) ==
    /\ Active(w)
    /\ lock' = Unlocked(w)
    /\ Becomes(w, Idle)
    /\ UNCHANGED <<opening, db, refunds, history>>

\* A refund.created or refund.updated event of a completed refund: the
\* webhook marks the order refunded, and leaves its inventory alone.
RefundWebhook(o) ==
    /\ \E r \in refunds : r.order = o
    /\ status' = [status EXCEPT ![o] = "refunded"]
    /\ loose' = IF status[o] \in Closed THEN loose ELSE loose \cup {o}
    /\ UNCHANGED <<opening, stock, fulfilled, lock, refunds, req, drifted>>

Arguments(op) ==
    CASE op = "patch"  -> PatchStatuses
      [] op = "refund" -> Amounts
      [] OTHER         -> {"none"}

Next ==
    \/ \E w \in Workers :
         \/ \E op \in Ops, o \in Orders : \E arg \in Arguments(op) : Call(w, op, o, arg)
         \/ ReadOrder(w) \/ ReadProducts(w) \/ Decide(w) \/ Pay(w) \/ PayFails(w)
         \/ Lock(w) \/ Commit(w) \/ Abort(w)
    \/ \E o \in Orders : RefundWebhook(o)

Spec == Init /\ [][Next]_vars

-----------------------------------------------------------------------------
Request ==
    [pc : {"idle", "read_order", "read_products", "decide", "pay", "lock", "commit"},
     op : Endpoints \cup {"none"}, order : Orders \cup {"none"},
     arg : Statuses \cup Amounts \cup {"none"},
     status : Statuses \cup {"none"}, fulfilled : BOOLEAN, stock : [Products -> Nat]]

\* That stock stays in Nat is what validate_inventory is for.
TypeOK ==
    /\ opening \in [Products -> 0..MaxStock]
    /\ stock \in [Products -> Nat]
    /\ status \in [Orders -> Statuses]
    /\ fulfilled \in [Orders -> BOOLEAN]
    /\ lock \in [Products -> SUBSET Workers]
    /\ refunds \subseteq {r \in [key : {<<o>> : o \in Orders}, order : Orders, amount : Amounts] :
                            r.key = <<r.order>>}
    /\ req \in [Workers -> Request]
    /\ drifted \subseteq Products
    /\ loose \subseteq Orders

\* The units of a product that fulfilled orders hold.
UnitsTaken(p) ==
    Cardinality(UNION {{o} \X (1..Quantity[o][p]) : o \in {x \in Orders : fulfilled[x]}})
Balanced(p) == stock[p] + UnitsTaken(p) = opening[p]

\* order_fulfillment.py:122 "Uses SELECT FOR UPDATE to prevent race conditions
\* during concurrent fulfillment operations": what is in stock and what
\* fulfilled orders took is what there was, whatever requests overlap.
NoRaceConditions == \A p \in Products : Balanced(p)

\* deduct_inventory and revert_inventory neither lose nor invent units,
\* whatever orders are fulfilled, shipped, reopened, cancelled, refunded or
\* abandoned halfway, and in whatever order: a product's units add up until a
\* request writes it from values that were no longer so.
Conservation == \A p \in Products \ drifted : Balanced(p)

\* Cancelling or refunding an order puts its units back, also when Square's
\* event marks it refunded first or it was closed by PATCH before: a closed
\* order has no units taken, unless who closed it, or fulfilled it, did not see
\* the other or does not put back, and nobody has cancelled or refunded it since.
ClosedHoldNothing == \A o \in Orders \ loose : status[o] \in Closed => ~fulfilled[o]

\* Square is never made to pay an order back twice: not by two refund
\* requests at once for different amounts, nor by one retried after its answer
\* was lost or after its transaction failed to commit.
RefundedOnce == \A r1, r2 \in refunds : r1.order = r2.order => r1 = r2

\* An order is marked refunded only after Square made the refund.
RefundedIsPaidBack ==
    \A o \in Orders : status[o] = "refunded" => \E r \in refunds : r.order = o

-----------------------------------------------------------------------------
\* What a commit relies on and has changed since the request read it: the
\* status its endpoint asks for, whether the order is fulfilled, or the stock.
\* Square's event may overtake a refund; that leaves the refund as good.
StatusOvertaken(w) ==
    LET now == status[req[w].order]
    IN  /\ now # req[w].status
        /\ CASE req[w].op \in {"fulfill", "ship", "cancel"} -> now \notin Open
             [] req[w].op = "refund"                        -> now = "cancelled"
             [] OTHER                                       -> req[w].op = "deliver"
Overtaken(w) ==
    \/ StatusOvertaken(w)
    \/ req[w].op \notin {"deliver", "patch"} /\ fulfilled[req[w].order] # req[w].fulfilled
    \/ Drifts(w) # {}

\* The order book moves by the atomic steps of the order lifecycle, however
\* requests overlap and Square's events come in between, except when a commit
\* is overtaken: then, and only then, may anything else happen.
Lifecycle == INSTANCE OrderLifecycle
LifecycleSteps ==
    [][Lifecycle!Next \/ \E w \in Workers : Commit(w) /\ Overtaken(w)]_db
=============================================================================
