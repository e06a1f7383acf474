----------------------------- MODULE OrderReturns -----------------------------
(***************************************************************************)
(* Return requests: backend/app/api/v1/returns.py (administrator) and the  *)
(* return endpoints of backend/app/api/v1/customer_account.py (customer),  *)
(* beside the order endpoints, which are the atomic steps that             *)
(* OrderLifecycle promises.  A return request is read, decided upon and    *)
(* committed without a lock; completing one reads the products first and   *)
(* writes the stock it computed from them.                                 *)
(***************************************************************************)
EXTENDS Integers, FiniteSets

CONSTANTS
    Orders, Products, Workers,
    Returns,         \* the rows that return_requests may hold
    Quantity,        \* Quantity[o][p]: units of product p in the lines of order o
    MaxUnits,        \* largest number of units of a product that an order
                     \* has, or a return request asks to return
    Opening,         \* Opening[p]: the stock of p before any order took from it
    PatchStatuses,   \* the statuses PATCH sets an order to
    MaxCreated       \* return requests that are stored in one day

Open == {"pending", "processing"}
Closed == {"cancelled", "refunded"}

ASSUME ReturnsAssumption ==
    /\ IsFiniteSet(Orders) /\ IsFiniteSet(Products)
    /\ IsFiniteSet(Returns) /\ IsFiniteSet(Workers)
    /\ Quantity \in [Orders -> [Products -> 0..MaxUnits]]
    /\ MaxUnits \in Nat
    /\ Opening \in [Products -> Nat]
    /\ PatchStatuses \subseteq Open \cup Closed \cup {"shipped", "delivered"}
    /\ MaxCreated \in Nat

VARIABLES
    stock,      \* products.units_in_stock
    status,     \* orders.status
    fulfilled,  \* orders.fulfilled_at is set
    returns,    \* the rows of return_requests with their items
    req,        \* the request each worker runs
    created,    \* how many return requests were stored
    deleted,    \* whether one was deleted
    stale       \* the products for which a request committed although what
                \* it had read was no longer so

shop == <<stock, status, fulfilled>>
history == <<created, deleted, stale>>
vars == <<shop, returns, req, history>>

Shop == INSTANCE OrderLifecycle

NoUnits == [p \in Products |-> 0]
NoReturn == [status |-> "none", order |-> "none", units |-> NoUnits,
             restock |-> NoUnits, number |-> 0]
Idle == [pc |-> "idle", op |-> "none", order |-> "none", units |-> NoUnits,
         ret |-> "none", row |-> NoReturn, stock |-> NoUnits, number |-> 0]

Active(w) == req[w].pc # "idle"
Becomes(w, r) == req' = [req EXCEPT ![w] = r]
Goes(w, pc) == Becomes(w, [req[w] EXCEPT !.pc = pc])

Stored == {r \in Returns : returns[r].status # "none"}
Lines(row) == {p \in Products : row.units[p] > 0}

Init ==
    /\ stock = Opening
    /\ status \in [Orders -> Open]
    /\ fulfilled = [o \in Orders |-> FALSE]
    /\ returns = [r \in Returns |-> NoReturn]
    /\ req = [w \in Workers |-> Idle]
    /\ created = 0
    /\ deleted = FALSE
    /\ stale = {}

-----------------------------------------------------------------------------
\* The customer lists at least one line of the order.  No listing has more
\* than was ordered, but a line may be listed again and again.
Asked(o) ==
    {u \in [Products -> 0..MaxUnits] :
        /\ \E p \in Products : u[p] > 0
        /\ \A p \in Products : Quantity[o][p] = 0 => u[p] = 0}
CallCreate(w, o, units) ==
    /\ ~Active(w)
    /\ Becomes(w, [Idle EXCEPT !.pc = "check", !.op = "create", !.order = o, !.units = units])
    /\ UNCHANGED <<shop, returns, history>>

\* An endpoint that names a return request.
CallReturn(w, op, r) ==
    /\ ~Active(w)
    /\ r \in Stored
    /\ Becomes(w, [Idle EXCEPT !.pc = "read", !.op = op, !.ret = r])
    /\ UNCHANGED <<shop, returns, history>>

\* The order was sent, and has no return request that is still open.
OpenReturns(o) ==
    {r \in Returns : returns[r].order = o
                     /\ returns[r].status \in {"requested", "approved", "received"}}
ReturnableOnceSent(o) == status[o] \in {"shipped", "delivered"}
Returnable(o) == status[o] \in {"shipped", "delivered"} /\ OpenReturns(o) = {}

Check(w) ==
    /\ req[w].pc = "check"
    /\ IF Returnable(req[w].order) THEN Goes(w, "count") ELSE Becomes(w, Idle)
    /\ UNCHANGED <<shop, returns, history>>

\* The number of the day's return requests, plus one.
NumberBySize == Cardinality(Stored) + 2
NextNumber == Cardinality(Stored) + 1
Count(w) ==
    /\ req[w].pc = "count"
    /\ Becomes(w, [req[w] EXCEPT !.number = NextNumber, !.pc = "insert"])
    /\ UNCHANGED <<shop, returns, history>>

\* A number that is taken violates uq_return_request_tenant_rma: the call
\* ends in an error.  Rows have fresh identities, so one that a request still
\* names is not used again.  Items are restockable unless received otherwise.
Taken(n) == \E r \in Stored : returns[r].number = n
Insert(w) ==
    LET o == req[w].order
    IN  /\ req[w].pc = "insert"
        /\ IF Taken(req[w].number)
           THEN UNCHANGED <<returns, created>>
           ELSE /\ created < MaxCreated
                /\ created' = created + 1
                /\ \E r \in Returns \ Stored :
                     /\ \A v \in Workers : req[v].ret # r
                     /\ returns' = [returns EXCEPT ![r] =
                            [status |-> "requested", order |-> o, units |-> req[w].units,
                             restock |-> req[w].units, number |-> req[w].number]]
        /\ Becomes(w, Idle)
        /\ UNCHANGED <<shop, deleted, stale>>

-----------------------------------------------------------------------------
\* The statuses from which each endpoint goes on.
From(op) ==
    CASE op \in {"cancel", "approve"} -> {"requested"}
      [] op = "reject"   -> {"requested", "approved"}
      [] op = "receive"  -> {"approved"}
      [] op = "complete" -> {"received"}
      [] op = "delete"   -> {"cancelled", "rejected"}
Result ==
    [cancel |-> "cancelled", approve |-> "approved", reject |-> "rejected",
     receive |-> "received", complete |-> "completed", delete |-> "none"]

\* select(ReturnRequest) with its items: an absent row or another status is
\* answered with an error.
ReadReturn(w) ==
    LET row == returns[req[w].ret]
    IN  /\ req[w].pc = "read"
        /\ IF row.status \in From(req[w].op)
           THEN Becomes(w, [req[w] EXCEPT !.row = row,
                    !.pc = IF req[w].op = "complete" THEN "read_stock" ELSE "commit"])
           ELSE Becomes(w, Idle)
        /\ UNCHANGED <<shop, returns, history>>

\* The items' products; the query in the loop of complete_return_request sees
\* the objects that the session holds since then.
ReadStock(w) ==
    /\ req[w].pc = "read_stock"
    /\ Becomes(w, [req[w] EXCEPT !.stock = stock, !.pc = "commit"])
    /\ UNCHANGED <<shop, returns, history>>

\* The products that a completion puts back, and the stock it computes.
Restocks(w) == IF req[w].op = "complete" THEN {p \in Products : req[w].row.restock[p] > 0} ELSE {}
RestockAll(w, p) == req[w].stock[p] + req[w].row.units[p]
DeductAgain(w, p) == req[w].stock[p] - req[w].row.restock[p]
Restock(w, p) == req[w].stock[p] + req[w].row.restock[p]

\* Receiving says of each listing whether it can be restocked: of a line that
\* was listed by the unit, any number of units.
Usable(row) == {u \in [Products -> 0..MaxUnits] : \A p \in Products : u[p] <= row.units[p]}

\* What the commit leaves of the row.
After(w, usable) ==
    LET row == returns[req[w].ret]
    IN  CASE req[w].op = "delete"  -> NoReturn
          [] req[w].op = "receive" -> [row EXCEPT !.status = "received", !.restock = usable]
          [] OTHER -> [row EXCEPT !.status = Result[req[w].op]]

Overtaken(w) ==
    (IF returns[req[w].ret] = req[w].row THEN {} ELSE Lines(req[w].row))
    \cup {p \in Restocks(w) : stock[p] # req[w].stock[p]}

\* Nothing is left to update when the row was deleted meanwhile.
Commit(w) ==
    /\ req[w].pc = "commit"
    /\ IF req[w].ret \notin Stored
       THEN UNCHANGED <<returns, stock, deleted, stale>>
       ELSE /\ \E usable \in Usable(req[w].row) :
                 returns' = [returns EXCEPT ![req[w].ret] = After(w, usable)]
            /\ stock' = [p \in Products |->
                   IF p \in Restocks(w) THEN Restock(w, p) ELSE stock[p]]
            /\ deleted' = (deleted \/ req[w].op = "delete")
            /\ stale' = stale \cup Overtaken(w)
    /\ Becomes(w, Idle)
    /\ UNCHANGED <<status, fulfilled, created>>

\* The process dies, or an exception rolls the transaction back.
Abort(w) ==
    /\ Active(w)
    /\ Becomes(w, Idle)
    /\ UNCHANGED <<shop, returns, history>>

\* fulfil, ship, deliver, cancel, refund and PATCH of orders.
OrderStep == Shop!Next /\ UNCHANGED <<returns, req, history>>

Next ==
    \/ \E w \in Workers :
         \/ \E o \in Orders : \E units \in Asked(o) : CallCreate(w, o, units)
         \/ \E op \in DOMAIN Result, r \in Returns : CallReturn(w, op, r)
         \/ Check(w) \/ Count(w) \/ Insert(w)
         \/ ReadReturn(w) \/ ReadStock(w) \/ Commit(w) \/ Abort(w)
    \/ OrderStep

Spec == Init /\ [][Next]_vars

-----------------------------------------------------------------------------
ReturnStatuses == {"none"} \cup {"requested"} \cup {Result[op] : op \in DOMAIN Result}
Row ==
    {row \in [status : ReturnStatuses, order : Orders \cup {"none"}, number : Nat,
              units : [Products -> 0..MaxUnits], restock : [Products -> 0..MaxUnits]] :
        \A p \in Products : row.restock[p] <= row.units[p]}
Request == [pc : {"idle", "check", "count", "insert", "read", "read_stock", "commit"},
            op : DOMAIN Result \cup {"none", "create"}, order : Orders \cup {"none"},
            units : [Products -> 0..MaxUnits], ret : Returns \cup {"none"}, row : Row,
            stock : [Products -> Nat], number : Nat]

TypeOK ==
    /\ stock \in [Products -> Nat]
    /\ status \in [Orders -> Open \cup Closed \cup {"shipped", "delivered"}]
    /\ fulfilled \in [Orders -> BOOLEAN]
    /\ returns \in [Returns -> Row]
    /\ req \in [Workers -> Request]
    /\ created \in 0..MaxCreated
    /\ deleted \in BOOLEAN
    /\ stale \subseteq Products

\* The units of a product that fulfilled orders hold, and those that completed
\* return requests put back.
UnitsTaken(p) ==
    Cardinality(UNION {{o} \X (1..Quantity[o][p]) : o \in {x \in Orders : fulfilled[x]}})
Restocked(p) ==
    Cardinality(UNION {{r} \X (1..returns[r].restock[p]) :
        r \in {x \in Returns : returns[x].status = "completed"}})

\* Orders and returns write the same stock.  Unless a request committed on
\* values that had changed since it read them, the stock of a product is what
\* there was, less what fulfilled orders hold, plus what completed returns put
\* back: no restock is lost, none is made twice, none without a completed
\* return that says so.
StockAccountsForReturns ==
    \A p \in Products \ stale : stock[p] + UnitsTaken(p) = Opening[p] + Restocked(p)

\* create_return_request stores a return request when it has seen none open;
\* nothing refuses a second one that was seen no more, and a decision taken on
\* an old read opens a closed one again.  For all that an order never has more
\* of them open than requests are served at a time, however many are made.
OpenReturnsBounded == \A o \in Orders : Cardinality(OpenReturns(o)) <= Cardinality(Workers)

\* A number taken by counting is the next one: until a return request is
\* deleted the numbers run from 1, whatever was created at the same time.
NumbersWithoutGaps ==
    ~deleted => {returns[r].number : r \in Stored} = 1..Cardinality(Stored)
=============================================================================
