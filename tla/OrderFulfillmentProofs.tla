----------------------- MODULE OrderFulfillmentProofs -----------------------
(***************************************************************************)
(* Proofs about OrderFulfillment, for requests that overlap in any way:    *)
(* the type invariant, what Square is made to pay back, the steps of the   *)
(* lifecycle, the conservation of units, and that closed orders hold none. *)
(***************************************************************************)
EXTENDS OrderFulfillment, FiniteSetTheorems, TLAPS

-----------------------------------------------------------------------------
\* Part 1: types, and refunds.

\* A request in flight is a call of an endpoint; one that is past its decision
\* read enough stock for what it takes, and Square made the refund that it is
\* about to book.
InPlace(r, made) ==
    r.pc # "idle" =>
        /\ r.op \in Endpoints /\ r.order \in Orders /\ r.arg \in Arguments(r.op)
        /\ r.pc # "read_order" => r.status \in Statuses
        /\ r.pc = "pay" => r.op = "refund"
        /\ r.pc \in {"lock", "commit"} =>
             /\ r.op \in {"fulfill", "ship"} /\ ~r.fulfilled =>
                    \A p \in Named(r.order) : Quantity[r.order][p] <= r.stock[p]
             /\ r.op = "refund" => \E m \in made : m.order = r.order
RequestsInPlace == \A w \in Workers : InPlace(req[w], refunds)

PInv == TypeOK /\ RequestsInPlace /\ RefundedOnce

LEMMA IdleType == Idle \in Request /\ Idle.pc = "idle"
BY DEF Idle, Request

LEMMA ArgumentsType ==
    ASSUME NEW op \in Endpoints
    PROVE  Arguments(op) \subseteq Statuses \cup Amounts \cup {"none"}
BY OrdersAssumption DEF Arguments, Endpoints

\* The history variables' part of TypeOK.
HistoryTyped == drifted \subseteq Products /\ loose \subseteq Orders

\* One request changes to something well placed, and refunds are not undone.
LEMMA Replaced ==
    ASSUME TypeOK, RequestsInPlace, NEW w \in Workers, NEW r \in Request, Becomes(w, r),
           InPlace(r, refunds'), refunds \subseteq refunds'
    PROVE  req' \in [Workers -> Request] /\ RequestsInPlace'
<1>1. req' \in [Workers -> Request]
  BY DEF TypeOK, Becomes
<1>2. ASSUME NEW v \in Workers PROVE InPlace(req'[v], refunds')
  <2>1. CASE v = w
    BY <2>1 DEF TypeOK, Becomes
  <2>2. CASE v # w
    BY <2>2 DEF TypeOK, Becomes, RequestsInPlace, InPlace
  <2> QED
    BY <2>1, <2>2
<1> QED
  BY <1>1, <1>2 DEF RequestsInPlace

LEMMA BecomesIdle ==
    ASSUME TypeOK, RequestsInPlace, NEW w \in Workers, Becomes(w, Idle),
           refunds \subseteq refunds'
    PROVE  req' \in [Workers -> Request] /\ RequestsInPlace'
<1>1. Idle \in Request /\ InPlace(Idle, refunds')
  BY IdleType DEF InPlace, Idle
<1> QED
  BY <1>1, Replaced

-----------------------------------------------------------------------------
LEMMA InitPInv == Init => PInv
<1> SUFFICES ASSUME Init PROVE PInv
  OBVIOUS
<1>1. TypeOK
  BY IdleType, OrdersAssumption DEF Init, TypeOK, Open, Statuses
<1>2. RequestsInPlace
  BY DEF Init, RequestsInPlace, InPlace, Idle
<1>3. RefundedOnce
  BY DEF Init, RefundedOnce
<1> QED
  BY <1>1, <1>2, <1>3 DEF PInv

\* What a step that leaves the refunds and the rows alone has to show.
LEMMA QuietStep ==
    ASSUME PInv, HistoryTyped', UNCHANGED <<opening, db, refunds>>, lock' \in [Products -> SUBSET Workers],
           req' \in [Workers -> Request], RequestsInPlace'
    PROVE  PInv'
BY DEF PInv, TypeOK, HistoryTyped, RefundedOnce, db

LEMMA PInvCall ==
    ASSUME PInv, HistoryTyped', NEW w \in Workers, NEW op \in Ops, NEW o \in Orders, NEW arg \in Arguments(op),
           Call(w, op, o, arg)
    PROVE  PInv'
<1> DEFINE r == [Idle EXCEPT !.pc = "read_order", !.op = op, !.order = o, !.arg = arg]
<1>1. op \in Endpoints
  BY OrdersAssumption
<1>2. r \in Request
  BY <1>1, ArgumentsType DEF Idle, Request
<1>3. InPlace(r, refunds')
  BY <1>1 DEF InPlace, Idle
<1>4. Becomes(w, r) /\ UNCHANGED <<opening, db, lock, refunds>>
  BY DEF Call
<1> HIDE DEF r
<1> QED
  BY <1>2, <1>3, <1>4, Replaced, QuietStep DEF PInv, TypeOK

LEMMA PInvReadOrder == ASSUME PInv, HistoryTyped', NEW w \in Workers, ReadOrder(w) PROVE PInv'
<1> DEFINE o == req[w].order
           pc == IF req[w].op \in {"deliver", "patch"} THEN "decide" ELSE "read_products"
           r == [req[w] EXCEPT !.status = status[o], !.fulfilled = fulfilled[o], !.pc = pc]
<1>1. req[w] \in Request /\ req[w].pc = "read_order" /\ InPlace(req[w], refunds)
  BY DEF PInv, TypeOK, RequestsInPlace, ReadOrder
<1>2. o \in Orders /\ status[o] \in Statuses /\ fulfilled[o] \in BOOLEAN
  BY <1>1 DEF InPlace, PInv, TypeOK
<1>3. Becomes(w, r) /\ UNCHANGED <<opening, db, lock, refunds>>
  BY DEF ReadOrder
<1>4. /\ r.pc = pc /\ r.op = req[w].op /\ r.order = o /\ r.arg = req[w].arg /\ r.status = status[o]
      /\ r \in Request
  BY <1>1, <1>2 DEF Request
<1>5. InPlace(r, refunds')
  BY <1>1, <1>2, <1>4 DEF InPlace
<1> HIDE DEF r
<1> QED
  BY <1>3, <1>4, <1>5, Replaced, QuietStep DEF PInv, TypeOK

LEMMA PInvReadProducts == ASSUME PInv, HistoryTyped', NEW w \in Workers, ReadProducts(w) PROVE PInv'
<1> DEFINE r == [req[w] EXCEPT !.stock = stock, !.pc = "decide"]
<1>1. req[w] \in Request /\ req[w].pc = "read_products" /\ InPlace(req[w], refunds)
  BY DEF PInv, TypeOK, RequestsInPlace, ReadProducts
<1>2. Becomes(w, r) /\ UNCHANGED <<opening, db, lock, refunds>>
  BY DEF ReadProducts
<1>3. /\ r.pc = "decide" /\ r.op = req[w].op /\ r.order = req[w].order /\ r.arg = req[w].arg
      /\ r.status = req[w].status /\ r \in Request
  BY <1>1 DEF Request, PInv, TypeOK
<1>4. InPlace(r, refunds')
  BY <1>1, <1>3 DEF InPlace
<1> HIDE DEF r
<1> QED
  BY <1>2, <1>3, <1>4, Replaced, QuietStep DEF PInv, TypeOK

\* The request goes on to another step with what it has.
LEMMA GoesType ==
    ASSUME NEW r \in Request, NEW pc \in {"pay", "lock", "commit"}
    PROVE  LET n == [r EXCEPT !.pc = pc]
           IN  /\ n \in Request /\ n.pc = pc /\ n.op = r.op /\ n.order = r.order /\ n.arg = r.arg
               /\ n.status = r.status /\ n.fulfilled = r.fulfilled /\ n.stock = r.stock
BY DEF Request

LEMMA LockingPc == ASSUME NEW w PROVE Locking(w) \in {"lock", "commit"}
BY DEF Locking

LEMMA PInvDecide == ASSUME PInv, HistoryTyped', NEW w \in Workers, Decide(w) PROVE PInv'
<1>1. req[w] \in Request /\ req[w].pc = "decide" /\ InPlace(req[w], refunds)
      /\ UNCHANGED <<opening, db, lock, refunds>>
  BY DEF PInv, TypeOK, RequestsInPlace, Decide
<1>2. CASE ~Allowed(w)
  BY <1>1, <1>2, BecomesIdle, QuietStep DEF Decide, PInv, TypeOK
<1>3. CASE Allowed(w)
  <2> DEFINE pc == IF req[w].op = "refund" THEN "pay" ELSE Locking(w)
             r == [req[w] EXCEPT !.pc = pc]
  <2>1. pc \in {"pay", "lock", "commit"} /\ (pc = "pay" <=> req[w].op = "refund")
    BY LockingPc
  <2>2. Becomes(w, r)
    BY <1>3 DEF Decide, Goes
  <2>3. /\ r \in Request /\ r.pc = pc /\ r.op = req[w].op /\ r.order = req[w].order
        /\ r.arg = req[w].arg /\ r.status = req[w].status /\ r.fulfilled = req[w].fulfilled
        /\ r.stock = req[w].stock
    <3> HIDE DEF pc
    <3> QED BY <1>1, <2>1, GoesType
  <2>4. ASSUME req[w].op \in {"fulfill", "ship"}, ~req[w].fulfilled PROVE Validated(w)
    BY <1>3, <2>4 DEF Allowed, MayFulfill, MayShip, Takes
  <2>5. InPlace(r, refunds')
    <3> HIDE DEF r, pc
    <3> QED BY <1>1, <2>1, <2>3, <2>4 DEF InPlace, Validated
  <2> HIDE DEF r
  <2> QED
    BY <1>1, <2>2, <2>3, <2>5, Replaced, QuietStep DEF PInv, TypeOK
<1> QED
  BY <1>2, <1>3

\* What follows from one call of Square: the key is the order's, so that a
\* refund is added only for an order that has none.
LEMMA SquareStep ==
    ASSUME PInv, NEW w \in Workers, req[w].order \in Orders, req[w].arg \in Amounts,
           refunds' \in {refunds, Square(Asked(w))}
    PROVE  /\ refunds' \subseteq {r \in [key : {<<o>> : o \in Orders}, order : Orders, amount : Amounts] :
                                    r.key = <<r.order>>}
           /\ RefundedOnce'
           /\ refunds \subseteq refunds'
<1> DEFINE o == req[w].order
           new == Asked(w)
           Keyed == {r \in [key : {<<x>> : x \in Orders}, order : Orders, amount : Amounts] :
                       r.key = <<r.order>>}
<1>1. new \in Keyed /\ new.order = o
  BY DEF Asked, RefundKey
<1>2. refunds \subseteq Keyed
  BY DEF PInv, TypeOK
<1>3. refunds' = refunds \/ (refunds' = refunds \cup {new} /\ \A r \in refunds : r.key # <<o>>)
  BY DEF Square, Asked, RefundKey
<1>4. CASE refunds' = refunds
  BY <1>2, <1>4 DEF PInv, RefundedOnce
<1>5. CASE refunds' = refunds \cup {new} /\ \A r \in refunds : r.key # <<o>>
  <2> HIDE DEF new, o
  <2>1. \A r \in refunds : r.order # o
    BY <1>2, <1>5
  <2>2. \A r1, r2 \in refunds : r1.order = r2.order => r1 = r2
    BY DEF PInv, RefundedOnce
  <2>3. RefundedOnce'
    BY <1>1, <1>5, <2>1, <2>2 DEF RefundedOnce
  <2> QED
    BY <1>1, <1>2, <1>5, <2>3
<1> QED
  BY <1>3, <1>4, <1>5

\* What a step that may change the refunds, and nothing else of Square's and the
\* database's, has to show.
LEMMA RefundStep ==
    ASSUME PInv, HistoryTyped', UNCHANGED <<opening, db, lock>>,
           refunds' \subseteq {r \in [key : {<<o>> : o \in Orders}, order : Orders, amount : Amounts] :
                                r.key = <<r.order>>},
           RefundedOnce', req' \in [Workers -> Request], RequestsInPlace'
    PROVE  PInv'
BY DEF PInv, TypeOK, HistoryTyped, db

LEMMA PInvPay == ASSUME PInv, HistoryTyped', NEW w \in Workers, Pay(w) \/ PayFails(w) PROVE PInv'
<1> DEFINE o == req[w].order
           a == req[w].arg
<1>1. req[w] \in Request /\ req[w].pc = "pay" /\ InPlace(req[w], refunds)
      /\ UNCHANGED <<opening, db, lock>>
  BY DEF PInv, TypeOK, RequestsInPlace, Pay, PayFails
<1>2. o \in Orders /\ a \in Amounts /\ req[w].op = "refund"
  BY <1>1 DEF InPlace, Arguments
<1>3. refunds' \in {refunds, Square(Asked(w))}
  BY DEF Pay, PayFails
<1>4. /\ refunds' \subseteq {r \in [key : {<<x>> : x \in Orders}, order : Orders, amount : Amounts] :
                                r.key = <<r.order>>}
      /\ RefundedOnce' /\ refunds \subseteq refunds'
  BY <1>2, <1>3, SquareStep
<1>5. CASE Becomes(w, Idle)
  BY <1>1, <1>4, <1>5, BecomesIdle, RefundStep DEF PInv
<1>6. CASE Goes(w, Locking(w)) /\ Pay(w) /\ Asked(w) \in refunds'
  <2> DEFINE pc == Locking(w)
             r == [req[w] EXCEPT !.pc = pc]
  <2>0. pc \in {"lock", "commit"} /\ pc \in {"pay", "lock", "commit"}
    BY LockingPc
  <2>1. /\ r \in Request /\ r.pc = pc /\ r.op = req[w].op /\ r.order = req[w].order
        /\ r.arg = req[w].arg /\ r.status = req[w].status /\ r.fulfilled = req[w].fulfilled
        /\ r.stock = req[w].stock
    <3> HIDE DEF pc
    <3> QED BY <1>1, <2>0, GoesType
  <2>2. \E m \in refunds' : m.order = o
    BY <1>6 DEF Asked
  <2>3. InPlace(r, refunds')
    <3> HIDE DEF r, pc
    <3> QED BY <1>1, <1>2, <2>0, <2>1, <2>2 DEF InPlace
  <2>4. Becomes(w, r)
    BY <1>6 DEF Goes
  <2> HIDE DEF r
  <2> QED
    BY <1>1, <1>4, <2>1, <2>3, <2>4, Replaced, RefundStep DEF PInv
<1> QED
  BY <1>5, <1>6 DEF Pay, PayFails, RefundError

LEMMA PInvLock == ASSUME PInv, HistoryTyped', NEW w \in Workers, Lock(w) PROVE PInv'
<1> DEFINE r == [req[w] EXCEPT !.pc = "commit"]
<1>1. req[w] \in Request /\ req[w].pc = "lock" /\ InPlace(req[w], refunds)
      /\ UNCHANGED <<opening, db, refunds>> /\ Becomes(w, r)
  BY DEF PInv, TypeOK, RequestsInPlace, Lock, Goes
<1>2. /\ r \in Request /\ r.pc = "commit" /\ r.op = req[w].op /\ r.order = req[w].order
      /\ r.arg = req[w].arg /\ r.status = req[w].status /\ r.fulfilled = req[w].fulfilled
      /\ r.stock = req[w].stock
  BY <1>1, GoesType
<1>3. InPlace(r, refunds')
  <2> HIDE DEF r
  <2> QED BY <1>1, <1>2 DEF InPlace
<1>4. lock' \in [Products -> SUBSET Workers]
  BY DEF PInv, TypeOK, Lock
<1> HIDE DEF r
<1> QED
  BY <1>1, <1>2, <1>3, <1>4, Replaced, QuietStep DEF PInv

LEMMA UnlockedType == ASSUME TypeOK, NEW w PROVE Unlocked(w) \in [Products -> SUBSET Workers]
BY DEF TypeOK, Unlocked

LEMMA PInvCommit == ASSUME PInv, HistoryTyped', NEW w \in Workers, Commit(w) PROVE PInv'
<1> DEFINE r == req[w]
           o == req[w].order
<1>1. r \in Request /\ r.pc = "commit" /\ InPlace(r, refunds) /\ Becomes(w, Idle)
      /\ UNCHANGED <<opening, refunds>>
  BY DEF PInv, TypeOK, RequestsInPlace, Commit
<1>2. o \in Orders /\ r.op \in Endpoints /\ r.status \in Statuses /\ r.arg \in Arguments(r.op)
  BY <1>1 DEF InPlace
<1>3. stock' \in [Products -> Nat]
  <2>1. ASSUME NEW p \in Products PROVE NewStock(w, p) \in Nat
    <3>1. Quantity[o][p] \in Nat /\ r.stock[p] \in Nat /\ stock[p] \in Nat
      BY <1>1, <1>2, OrdersAssumption DEF Request, PInv, TypeOK
    <3>2. CASE Takes(w) /\ p \in Named(o)
      <4>1. Quantity[o][p] <= r.stock[p]
        BY <1>1, <3>2 DEF InPlace, Takes
      <4> QED
        BY <3>1, <3>2, <4>1 DEF NewStock
    <3>3. CASE p \notin Named(o)
      BY <3>1, <3>3 DEF NewStock
    <3>4. CASE p \in Named(o) /\ ~Takes(w) /\ PutsBack(w)
      <4>1. NewStock(w, p) = r.stock[p] + Quantity[o][p]
        BY <3>4 DEF NewStock
      <4> QED
        BY <3>1, <4>1
    <3>5. CASE p \in Named(o) /\ ~Takes(w) /\ ~PutsBack(w)
      <4>1. NewStock(w, p) = stock[p]
        BY <3>5 DEF NewStock
      <4> QED
        BY <3>1, <4>1
    <3> QED
      BY <3>2, <3>3, <3>4, <3>5
  <2> QED
    BY <2>1 DEF Commit
<1>4. NewStatus(w) \in Statuses
  BY <1>2, OrdersAssumption DEF NewStatus, Arguments, Statuses
<1>5. status' \in [Orders -> Statuses] /\ fulfilled' \in [Orders -> BOOLEAN]
  BY <1>2, <1>4 DEF Commit, PInv, TypeOK, FulfilledAfter, PutsBack
<1>6. lock' \in [Products -> SUBSET Workers]
  BY UnlockedType DEF Commit, PInv
<1>7. req' \in [Workers -> Request] /\ RequestsInPlace'
  BY <1>1, BecomesIdle DEF PInv
<1> QED
  BY <1>1, <1>3, <1>5, <1>6, <1>7 DEF PInv, TypeOK, HistoryTyped, RefundedOnce

LEMMA PInvAbort == ASSUME PInv, HistoryTyped', NEW w \in Workers, Abort(w) PROVE PInv'
BY BecomesIdle, UnlockedType, QuietStep DEF Abort, PInv

LEMMA PInvWebhook == ASSUME PInv, HistoryTyped', NEW o \in Orders, RefundWebhook(o) PROVE PInv'
<1>1. status' \in [Orders -> Statuses]
  BY DEF RefundWebhook, PInv, TypeOK, Statuses
<1>2. RequestsInPlace'
  BY DEF RefundWebhook, PInv, RequestsInPlace
<1> QED
  BY <1>1, <1>2 DEF RefundWebhook, PInv, TypeOK, HistoryTyped, RefundedOnce

LEMMA HistoryStep == PInv /\ [Next]_vars => HistoryTyped'
<1> SUFFICES ASSUME PInv, [Next]_vars PROVE HistoryTyped'
  OBVIOUS
<1>1. CASE UNCHANGED history
  BY <1>1 DEF history, HistoryTyped, PInv, TypeOK
<1>2. ASSUME NEW w \in Workers, Commit(w) PROVE HistoryTyped'
  <2>1. req[w].order \in Orders
    BY <1>2 DEF PInv, RequestsInPlace, InPlace, Commit
  <2>2. Drifts(w) \subseteq Products
    BY DEF Drifts, Named
  <2> QED
    BY <1>2, <2>1, <2>2 DEF Commit, Loosened, HistoryTyped, PInv, TypeOK
<1>3. ASSUME NEW o \in Orders, RefundWebhook(o) PROVE HistoryTyped'
  BY <1>3 DEF RefundWebhook, HistoryTyped, PInv, TypeOK
<1>4. ASSUME NEW w \in Workers, NEW op, NEW o, NEW arg,
             \/ Call(w, op, o, arg) \/ ReadOrder(w) \/ ReadProducts(w) \/ Decide(w)
             \/ Pay(w) \/ PayFails(w) \/ Lock(w) \/ Abort(w)
      PROVE  UNCHANGED history
  BY <1>4 DEF Call, ReadOrder, ReadProducts, Decide, Pay, PayFails, Lock, Abort
<1> QED
  BY <1>1, <1>2, <1>3, <1>4 DEF Next, vars

LEMMA PInvStep == PInv /\ [Next]_vars => PInv'
<1> SUFFICES ASSUME PInv, [Next]_vars PROVE PInv'
  OBVIOUS
<1>1. ASSUME UNCHANGED vars PROVE PInv'
  BY <1>1 DEF vars, db, history, PInv, TypeOK, RequestsInPlace, RefundedOnce
<1>2. HistoryTyped'
  BY HistoryStep
<1> QED
  BY <1>1, <1>2, PInvCall, PInvReadOrder, PInvReadProducts, PInvDecide, PInvPay, PInvLock, PInvCommit,
     PInvAbort, PInvWebhook DEF Next

LEMMA PInvariance == Spec => []PInv
BY InitPInv, PInvStep, PTL DEF Spec

\* The columns, locks, refunds and requests of the order endpoints keep their
\* types however requests overlap; in particular units_in_stock stays in Nat.
THEOREM TypeCorrect == Spec => []TypeOK
<1>1. PInv => TypeOK
  BY DEF PInv
<1> QED
  BY PInvariance, <1>1, PTL

\* refund_order asks with the order's own key, so that Square never pays an
\* order back twice, whatever amounts are asked for and whatever requests
\* overlap, are repeated after a lost answer, or die.
THEOREM NoDoubleRefund == Spec => []RefundedOnce
<1>1. PInv => RefundedOnce
  BY DEF PInv
<1> QED
  BY PInvariance, <1>1, PTL

LEMMA PaidBackStep ==
    ASSUME "refunded" \notin PatchStatuses, PInv, RefundedIsPaidBack, [Next]_vars
    PROVE  RefundedIsPaidBack'
<1>1. CASE UNCHANGED <<status, refunds>>
  BY <1>1 DEF RefundedIsPaidBack
<1>2. ASSUME NEW w \in Workers, Pay(w) \/ PayFails(w) PROVE RefundedIsPaidBack'
  <2>1. req[w].order \in Orders /\ req[w].arg \in Amounts
    BY <1>2 DEF PInv, RequestsInPlace, InPlace, Arguments, Pay, PayFails
  <2>2. refunds \subseteq refunds'
    BY <1>2, <2>1, SquareStep DEF Pay, PayFails
  <2> QED
    BY <1>2, <2>2 DEF Pay, PayFails, db, RefundedIsPaidBack
<1>3. ASSUME NEW w \in Workers, Commit(w) PROVE RefundedIsPaidBack'
  <2> DEFINE r == req[w]
             o == req[w].order
  <2>1. o \in Orders /\ InPlace(r, refunds) /\ r.pc = "commit" /\ refunds' = refunds
    BY <1>3 DEF PInv, RequestsInPlace, InPlace, Commit
  <2>2. /\ status' = status \/ status' = [status EXCEPT ![o] = NewStatus(w)]
        /\ (status' # status => NewStatus(w) # r.status)
    BY <1>3 DEF Commit
  <2>3. CASE status' = status
    BY <2>1, <2>3 DEF RefundedIsPaidBack
  <2>4. CASE status' # status /\ NewStatus(w) = "refunded"
    <3>1. r.op = "refund"
      BY <2>1, <2>2, <2>4 DEF NewStatus, InPlace, Arguments, Endpoints
    <3>2. \E m \in refunds : m.order = o
      BY <2>1, <3>1 DEF InPlace
    <3> QED
      BY <2>1, <2>2, <2>4, <3>2 DEF RefundedIsPaidBack, PInv, TypeOK
  <2>5. CASE status' # status /\ NewStatus(w) # "refunded"
    BY <2>1, <2>2, <2>5 DEF RefundedIsPaidBack, PInv, TypeOK
  <2> QED
    BY <2>3, <2>4, <2>5
<1>4. ASSUME NEW o \in Orders, RefundWebhook(o) PROVE RefundedIsPaidBack'
  BY <1>4 DEF RefundWebhook, RefundedIsPaidBack, PInv, TypeOK
<1>5. ASSUME NEW w \in Workers, NEW op, NEW o, NEW arg,
             \/ Call(w, op, o, arg) \/ ReadOrder(w) \/ ReadProducts(w)
             \/ Decide(w) \/ Lock(w) \/ Abort(w)
      PROVE  RefundedIsPaidBack'
  BY <1>1, <1>5 DEF Call, ReadOrder, ReadProducts, Decide, Lock, Abort, db
<1> QED
  BY <1>1, <1>2, <1>3, <1>4, <1>5 DEF Next, vars

\* An order is marked refunded only after Square made the refund, unless PATCH
\* is used to write that status: it asks for nothing.
THEOREM RefundedWasPaid ==
    ASSUME "refunded" \notin PatchStatuses
    PROVE  Spec => []RefundedIsPaidBack
<1>1. Init => RefundedIsPaidBack
  BY DEF Init, Open, RefundedIsPaidBack
<1>2. PInv /\ RefundedIsPaidBack /\ [Next]_vars => RefundedIsPaidBack'
  BY PaidBackStep
<1> QED
  BY PInvariance, <1>1, <1>2, PTL DEF Spec

-----------------------------------------------------------------------------
\* Part 2: the steps of the lifecycle.

\* A request that is past its decision was allowed to go on by what it read.
Decided == \A w \in Workers : req[w].pc \in {"pay", "lock", "commit"} => Allowed(w)

\* What an endpoint goes on with is read off its request.
LEMMA AllowedAgain ==
    ASSUME NEW w \in Workers,
           /\ req'[w].op = req[w].op /\ req'[w].order = req[w].order
           /\ req'[w].status = req[w].status /\ req'[w].fulfilled = req[w].fulfilled
           /\ req'[w].stock = req[w].stock
    PROVE  Allowed(w)' = Allowed(w)
BY DEF Allowed, MayFulfill, MayShip, MayDeliver, MayCancel, MayRefund, StillOpen, Takes, Validated

\* One request changes: it stops, reads, or goes on with what it was allowed.
LEMMA DecidedStill ==
    ASSUME PInv, Decided, NEW w \in Workers, NEW r, Becomes(w, r),
           \/ r.pc \in {"idle", "read_order", "read_products", "decide"}
           \/ /\ Allowed(w)
              /\ r.op = req[w].op /\ r.order = req[w].order /\ r.status = req[w].status
              /\ r.fulfilled = req[w].fulfilled /\ r.stock = req[w].stock
    PROVE  Decided'
<1>1. req'[w] = r /\ \A v \in Workers \ {w} : req'[v] = req[v]
  BY DEF Becomes, PInv, TypeOK
<1>2. \A v \in Workers \ {w} : Allowed(v)' = Allowed(v)
  BY <1>1, AllowedAgain
<1>3. r.pc \in {"pay", "lock", "commit"} => Allowed(w)'
  BY <1>1, AllowedAgain
<1> QED
  BY <1>1, <1>2, <1>3 DEF Decided

LEMMA DecidedGoes ==
    ASSUME PInv, Decided, NEW w \in Workers, NEW pc \in {"pay", "lock", "commit"}, Goes(w, pc), Allowed(w)
    PROVE  Decided'
<1> DEFINE r == [req[w] EXCEPT !.pc = pc]
<1>1. req[w] \in Request /\ Becomes(w, r)
  BY DEF PInv, TypeOK, Goes
<1>2. /\ r.op = req[w].op /\ r.order = req[w].order /\ r.status = req[w].status
      /\ r.fulfilled = req[w].fulfilled /\ r.stock = req[w].stock
  BY <1>1, GoesType
<1> HIDE DEF r
<1> QED
  BY <1>1, <1>2, DecidedStill

LEMMA DecidedStep == PInv /\ Decided /\ [Next]_vars => Decided'
<1> SUFFICES ASSUME PInv, Decided, [Next]_vars PROVE Decided'
  OBVIOUS
<1>1. CASE req' = req
  <2>1. \A v \in Workers : Allowed(v)' = Allowed(v)
    BY <1>1, AllowedAgain
  <2> QED
    BY <1>1, <2>1 DEF Decided
<1>2. ASSUME NEW w \in Workers, Becomes(w, Idle) PROVE Decided'
  <2>1. Idle.pc = "idle"
    BY DEF Idle
  <2> QED
    BY <1>2, <2>1, DecidedStill
<1>3. ASSUME NEW w \in Workers, NEW op, NEW o, NEW arg, Call(w, op, o, arg) PROVE Decided'
  <2> DEFINE r == [Idle EXCEPT !.pc = "read_order", !.op = op, !.order = o, !.arg = arg]
  <2>1. Becomes(w, r) /\ r.pc = "read_order"
    BY <1>3 DEF Call, Idle
  <2> HIDE DEF r
  <2> QED
    BY <2>1, DecidedStill
<1>4. ASSUME NEW w \in Workers, ReadOrder(w) \/ ReadProducts(w) PROVE Decided'
  <2>1. req[w] \in Request
    BY DEF PInv, TypeOK
  <2>2. CASE ReadOrder(w)
    <3> DEFINE pc == IF req[w].op \in {"deliver", "patch"} THEN "decide" ELSE "read_products"
               r == [req[w] EXCEPT !.status = status[req[w].order],
                                   !.fulfilled = fulfilled[req[w].order], !.pc = pc]
    <3>1. Becomes(w, r) /\ r.pc \in {"read_products", "decide"}
      BY <2>1, <2>2 DEF ReadOrder, Request
    <3> HIDE DEF r
    <3> QED
      BY <3>1, DecidedStill
  <2>3. CASE ReadProducts(w)
    <3> DEFINE r == [req[w] EXCEPT !.stock = stock, !.pc = "decide"]
    <3>1. Becomes(w, r) /\ r.pc = "decide"
      BY <2>1, <2>3 DEF ReadProducts, Request
    <3> HIDE DEF r
    <3> QED
      BY <3>1, DecidedStill
  <2> QED
    BY <1>4, <2>2, <2>3
<1>5. ASSUME NEW w \in Workers, Decide(w) \/ Pay(w) \/ PayFails(w) \/ Lock(w) \/ Abort(w) \/ Commit(w)
      PROVE  Decided'
  <2>1. ASSUME NEW pc \in {"pay", "lock", "commit"}, Goes(w, pc),
               (Decide(w) /\ Allowed(w)) \/ Pay(w) \/ Lock(w)
        PROVE  Decided'
    BY <2>1, DecidedGoes DEF Pay, Lock, Decided
  <2>2. Locking(w) \in {"lock", "commit"}
    BY LockingPc
  <2> QED
    BY <1>2, <1>5, <2>1, <2>2 DEF Decide, Pay, PayFails, Lock, Abort, Commit, RefundError
<1> QED
  BY <1>1, <1>3, <1>4, <1>5 DEF Next, vars, RefundWebhook

LEMMA DecidedInvariance == Spec => []Decided
<1>1. Init => Decided
  BY DEF Init, Decided, Idle
<1> QED
  BY PInvariance, DecidedStep, <1>1, PTL DEF Spec

LEMMA NothingNamed ==
    ASSUME NEW o \in Orders, NEW p \in Products, p \notin Named(o)
    PROVE  Quantity[o][p] = 0
<1>1. Quantity[o][p] \in Nat
  BY OrdersAssumption
<1> QED
  BY <1>1 DEF Named

\* What a commit writes of its order, for a request that takes, that puts back,
\* or neither.
LEMMA WrittenOrder ==
    ASSUME PInv, NEW w \in Workers, Commit(w)
    PROVE  LET o == req[w].order
           IN  /\ o \in Orders /\ req[w].fulfilled \in BOOLEAN /\ req[w].op \in Endpoints
               /\ Takes(w) => ~req[w].fulfilled /\ fulfilled' = [fulfilled EXCEPT ![o] = TRUE]
               /\ PutsBack(w) => req[w].fulfilled /\ fulfilled' = [fulfilled EXCEPT ![o] = FALSE]
               /\ ~(Takes(w) /\ PutsBack(w))
               /\ ~Takes(w) /\ ~PutsBack(w) => fulfilled' = fulfilled
<1>1. req[w].order \in Orders /\ req[w] \in Request /\ req[w].op \in Endpoints
  BY DEF PInv, TypeOK, RequestsInPlace, InPlace, Commit
<1> QED
  BY <1>1 DEF Commit, Takes, PutsBack, FulfilledAfter, Request

\* And of a product that it does not make drift: the units of the order go.
LEMMA WrittenUnits ==
    ASSUME PInv, NEW w \in Workers, Commit(w), NEW p \in Products, p \notin Drifts(w)
    PROVE  LET o == req[w].order
           IN  /\ stock[p] \in Nat /\ Quantity[o][p] \in Nat
               /\ Takes(w) => stock'[p] = stock[p] - Quantity[o][p]
               /\ PutsBack(w) => stock'[p] = stock[p] + Quantity[o][p]
               /\ ~Takes(w) /\ ~PutsBack(w) => stock'[p] = stock[p]
<1> DEFINE o == req[w].order
<1>1. o \in Orders /\ ~(Takes(w) /\ PutsBack(w))
  BY WrittenOrder
<1>2. /\ p \in Named(o) \/ Quantity[o][p] = 0
      /\ stock[p] \in Nat /\ Quantity[o][p] \in Nat
      /\ (Takes(w) \/ PutsBack(w)) /\ p \in Named(o) => req[w].stock[p] = stock[p]
  BY <1>1, NothingNamed, OrdersAssumption DEF PInv, TypeOK, Drifts
<1>3. stock'[p] = NewStock(w, p)
  BY DEF Commit
<1>4. CASE p \notin Named(o)
  BY <1>2, <1>3, <1>4 DEF NewStock
<1>5. CASE p \in Named(o) /\ Takes(w)
  BY <1>1, <1>2, <1>3, <1>5 DEF NewStock
<1>6. CASE p \in Named(o) /\ PutsBack(w)
  BY <1>1, <1>2, <1>3, <1>6 DEF NewStock
<1>7. CASE p \in Named(o) /\ ~Takes(w) /\ ~PutsBack(w)
  BY <1>1, <1>2, <1>3, <1>7 DEF NewStock
<1> QED
  BY <1>1, <1>2, <1>4, <1>5, <1>6, <1>7

\* What was validated, and is still so, is in stock.
LEMMA ValidatedInStock ==
    ASSUME PInv, NEW w \in Workers, req[w].pc = "commit", Takes(w), Drifts(w) = {}, Validated(w)
    PROVE  Lifecycle!InStock(req[w].order)
<1> DEFINE o == req[w].order
<1>1. o \in Orders
  BY DEF PInv, RequestsInPlace, InPlace
<1>2. ASSUME NEW p \in Products PROVE Quantity[o][p] <= stock[p]
  <2>1. CASE p \in Named(o)
    BY <1>1, <2>1 DEF Drifts, Validated
  <2>2. CASE p \notin Named(o)
    <3>1. stock[p] \in Nat /\ Quantity[o][p] = 0
      BY <1>1, <2>2, NothingNamed DEF PInv, TypeOK
    <3> QED
      BY <3>1
  <2> QED
    BY <2>1, <2>2
<1> QED
  BY <1>2 DEF Lifecycle!InStock

LEMMA CommitIsLifecycle ==
    ASSUME PInv, Decided, NEW w \in Workers, Commit(w), ~Overtaken(w)
    PROVE  Lifecycle!Next \/ UNCHANGED db
<1> DEFINE r == req[w]
           o == req[w].order
<1>1. /\ r.pc = "commit" /\ r.op \in Endpoints /\ o \in Orders /\ r.arg \in Arguments(r.op)
      /\ Allowed(w) /\ Drifts(w) = {} /\ ~StatusOvertaken(w)
      /\ r.op \notin {"deliver", "patch"} => r.fulfilled = fulfilled[o]
  BY DEF PInv, RequestsInPlace, InPlace, Commit, Decided, Overtaken
<1>2. /\ Takes(w) =>
           /\ ~fulfilled[o] /\ fulfilled' = [fulfilled EXCEPT ![o] = TRUE]
           /\ stock' = [p \in Products |-> stock[p] - Quantity[o][p]]
      /\ PutsBack(w) =>
           /\ fulfilled[o] /\ fulfilled' = [fulfilled EXCEPT ![o] = FALSE]
           /\ stock' = [p \in Products |-> stock[p] + Quantity[o][p]]
      /\ ~Takes(w) /\ ~PutsBack(w) => UNCHANGED <<fulfilled, stock>>
  <2>1. stock' \in [Products -> Nat] /\ stock \in [Products -> Nat]
    BY PInvStep DEF PInv, TypeOK, Next
  <2>2. \A p \in Products : p \notin Drifts(w)
    BY <1>1
  <2>3. stock' = [p \in Products |-> NewStock(w, p)]
    BY DEF Commit
  <2>4. CASE Takes(w)
    <3>1. ~PutsBack(w) /\ fulfilled' = [fulfilled EXCEPT ![o] = TRUE] /\ ~r.fulfilled
      BY <2>4, WrittenOrder
    <3>2. \A p \in Products : stock'[p] = stock[p] - Quantity[o][p]
      BY <2>2, <2>4, WrittenUnits
    <3> QED
      BY <1>1, <2>3, <2>4, <3>1, <3>2 DEF Takes
  <2>5. CASE PutsBack(w)
    <3>1. ~Takes(w) /\ fulfilled' = [fulfilled EXCEPT ![o] = FALSE] /\ r.fulfilled
      BY <2>5, WrittenOrder
    <3>2. \A p \in Products : stock'[p] = stock[p] + Quantity[o][p]
      BY <2>2, <2>5, WrittenUnits
    <3> QED
      BY <1>1, <2>3, <2>5, <3>1, <3>2 DEF PutsBack
  <2>6. CASE ~Takes(w) /\ ~PutsBack(w)
    BY <2>1, <2>2, <2>6, WrittenOrder, WrittenUnits
  <2> QED
    BY <2>4, <2>5, <2>6
<1>3. status' = IF NewStatus(w) = r.status THEN status ELSE [status EXCEPT ![o] = NewStatus(w)]
  BY DEF Commit
<1>4. r.op \in {"cancel", "refund"} => Lifecycle!PutBack(o)
  BY <1>1, <1>2 DEF PutsBack, Takes, Lifecycle!PutBack
<1>5. /\ r.op \in {"fulfill", "ship", "cancel"} => r.status \in Open /\ status[o] \in Open
      /\ r.op = "deliver" => r.status = "shipped" /\ status[o] = "shipped"
      /\ r.op = "refund" => r.status \notin Closed /\ status[o] # "cancelled"
  BY <1>1 DEF Allowed, MayFulfill, MayShip, MayDeliver, MayCancel, MayRefund, StillOpen,
     StatusOvertaken, Closed
<1>6. CASE r.op = "fulfill"
  <2>1. Takes(w) /\ Validated(w) /\ status' = status
    BY <1>1, <1>3, <1>6 DEF Allowed, MayFulfill, Takes, NewStatus
  <2>2. Lifecycle!InStock(o)
    BY <1>1, <2>1, ValidatedInStock
  <2> QED
    BY <1>1, <1>2, <1>5, <1>6, <2>1, <2>2 DEF Lifecycle!Next, Lifecycle!Fulfill, Lifecycle!Take
<1>7. CASE r.op = "ship"
  <2>1. (Takes(w) => Validated(w)) /\ ~PutsBack(w) /\ NewStatus(w) = "shipped"
    BY <1>1, <1>7 DEF Allowed, MayShip, PutsBack, NewStatus
  <2>2. Lifecycle!Take(o) \/ (fulfilled[o] /\ UNCHANGED <<fulfilled, stock>>)
    <3>1. CASE Takes(w)
      BY <1>1, <1>2, <2>1, <3>1, ValidatedInStock DEF Lifecycle!Take
    <3>2. CASE ~Takes(w)
      BY <1>1, <1>2, <1>7, <2>1, <3>2 DEF Takes
    <3> QED
      BY <3>1, <3>2
  <2>3. status' = [status EXCEPT ![o] = "shipped"]
    BY <1>3, <1>5, <1>7, <2>1 DEF Open
  <2> QED
    BY <1>1, <1>5, <1>7, <2>2, <2>3 DEF Lifecycle!Next, Lifecycle!Ship, Lifecycle!Moves
<1>8. CASE r.op = "deliver"
  <2>1. status' = [status EXCEPT ![o] = "delivered"] /\ UNCHANGED <<fulfilled, stock>>
    BY <1>2, <1>3, <1>5, <1>8 DEF NewStatus, Takes, PutsBack
  <2> QED
    BY <1>1, <1>5, <1>8, <2>1 DEF Lifecycle!Next, Lifecycle!Deliver, Lifecycle!Moves
<1>9. CASE r.op = "cancel"
  <2>1. status' = [status EXCEPT ![o] = "cancelled"]
    BY <1>3, <1>5, <1>9 DEF NewStatus, Open
  <2> QED
    BY <1>1, <1>4, <1>5, <1>9, <2>1 DEF Lifecycle!Next, Lifecycle!Cancel, Lifecycle!Moves
<1>10. CASE r.op = "refund"
  <2>1. status' = [status EXCEPT ![o] = "refunded"]
    BY <1>3, <1>5, <1>10 DEF NewStatus, Closed
  <2> QED
    BY <1>1, <1>4, <1>5, <1>10, <2>1 DEF Lifecycle!Next, Lifecycle!Refund, Lifecycle!Moves
<1>11. CASE r.op = "patch"
  <2>1. NewStatus(w) = r.arg /\ r.arg \in PatchStatuses /\ UNCHANGED <<fulfilled, stock>>
    BY <1>1, <1>2, <1>11 DEF Arguments, Takes, PutsBack, NewStatus
  <2>2. status' = status \/ status' = [status EXCEPT ![o] = r.arg]
    BY <1>3, <2>1
  <2> QED
    BY <1>1, <2>1, <2>2 DEF db, Lifecycle!Next, Lifecycle!Patch, Lifecycle!Moves
<1> QED
  BY <1>1, <1>6, <1>7, <1>8, <1>9, <1>10, <1>11 DEF Endpoints

LEMMA LifecycleStep ==
    ASSUME PInv, Decided, [Next]_vars
    PROVE  [Lifecycle!Next \/ \E w \in Workers : Commit(w) /\ Overtaken(w)]_db
<1>1. ASSUME NEW w \in Workers, NEW op, NEW o, NEW arg,
             \/ Call(w, op, o, arg) \/ ReadOrder(w) \/ ReadProducts(w) \/ Decide(w)
             \/ Pay(w) \/ PayFails(w) \/ Lock(w) \/ Abort(w)
      PROVE  UNCHANGED db
  BY <1>1 DEF Call, ReadOrder, ReadProducts, Decide, Pay, PayFails, Lock, Abort
<1>2. UNCHANGED vars => UNCHANGED db
  BY DEF vars, db
<1>3. ASSUME NEW o \in Orders, RefundWebhook(o) PROVE Lifecycle!Next
  BY <1>3 DEF RefundWebhook, Lifecycle!Next, Lifecycle!RefundEvent, Lifecycle!Moves
<1> QED
  BY <1>1, <1>2, <1>3, CommitIsLifecycle DEF Next

\* The order endpoints, each of several round trips and overlapping in any way,
\* move the order book by the atomic steps of the lifecycle, except with a
\* commit that was overtaken on what it relies on.
THEOREM ImplementsLifecycle == Spec => Lifecycle!Init /\ LifecycleSteps
<1>1. Init => Lifecycle!Init
  BY OrdersAssumption DEF Init, Lifecycle!Init
<1>2. PInv /\ Decided /\ [Next]_vars =>
        [Lifecycle!Next \/ \E w \in Workers : Commit(w) /\ Overtaken(w)]_db
  BY LifecycleStep
<1> QED
  BY PInvariance, DecidedInvariance, <1>1, <1>2, PTL DEF Spec, LifecycleSteps

-----------------------------------------------------------------------------
\* Units.  The units of a set of orders, and what one more order adds.
UnitsOf(F, p) == UNION {{o} \X (1..Quantity[o][p]) : o \in F}

LEMMA UnitsOfOne ==
    ASSUME NEW o \in Orders, NEW p \in Products
    PROVE  /\ IsFiniteSet({o} \X (1..Quantity[o][p]))
           /\ Cardinality({o} \X (1..Quantity[o][p])) = Quantity[o][p]
<1> DEFINE q == Quantity[o][p]
<1>1. q \in Nat
  BY OrdersAssumption
<1>2. IsFiniteSet(1..q) /\ Cardinality(1..q) = q
  <2>1. IsFiniteSet(1..q) /\ Cardinality(1..q) = IF 1 > q THEN 0 ELSE q - 1 + 1
    BY <1>1, FS_Interval
  <2> QED
    BY <1>1, <2>1
<1>3. IsFiniteSet({o}) /\ Cardinality({o}) = 1
  BY FS_Singleton
<1>4. IsFiniteSet({o} \X (1..q)) /\ Cardinality({o} \X (1..q)) = 1 * q
  <2> HIDE DEF q
  <2> QED BY <1>2, <1>3, FS_Product
<1> QED
  BY <1>1, <1>4

LEMMA UnitsFinite ==
    ASSUME NEW F \in SUBSET Orders, NEW p \in Products
    PROVE  IsFiniteSet(UnitsOf(F, p)) /\ Cardinality(UnitsOf(F, p)) \in Nat
<1> DEFINE T == {{o} \X (1..Quantity[o][p]) : o \in F}
           f == [o \in F |-> {o} \X (1..Quantity[o][p])]
<1>1. IsFiniteSet(F)
  BY OrdersAssumption, FS_Subset
<1>2. f \in Surjection(F, T)
  BY DEF Surjection
<1>3. IsFiniteSet(T)
  <2> HIDE DEF f, T
  <2> QED BY <1>1, <1>2, FS_Surjection
<1>4. \A U \in T : IsFiniteSet(U)
  BY UnitsOfOne
<1>5. IsFiniteSet(UNION T)
  <2> HIDE DEF T
  <2> QED BY <1>3, <1>4, FS_UNION
<1> QED
  BY <1>5, FS_CardinalityType DEF UnitsOf

LEMMA OneMoreOrder ==
    ASSUME NEW F \in SUBSET Orders, NEW o \in Orders \ F, NEW p \in Products
    PROVE  Cardinality(UnitsOf(F \cup {o}, p)) = Cardinality(UnitsOf(F, p)) + Quantity[o][p]
<1> DEFINE new == {o} \X (1..Quantity[o][p])
           old == UnitsOf(F, p)
<1>1. IsFiniteSet(new) /\ Cardinality(new) = Quantity[o][p]
  BY UnitsOfOne
<1>2. IsFiniteSet(old) /\ Cardinality(old) \in Nat /\ Quantity[o][p] \in Nat
  BY UnitsFinite, OrdersAssumption
<1>3. UnitsOf(F \cup {o}, p) = old \cup new
  BY DEF UnitsOf
<1>4. old \cap new = {}
  BY DEF UnitsOf
<1>5. Cardinality(old \cap new) = 0
  BY <1>4, FS_EmptySet
<1>6. Cardinality(old \cup new) = Cardinality(old) + Cardinality(new) - Cardinality(old \cap new)
  <2> HIDE DEF old, new
  <2> QED BY <1>1, <1>2, FS_Union
<1>7. Cardinality(old \cup new) = Cardinality(old) + Quantity[o][p]
  <2> HIDE DEF old, new
  <2> QED BY <1>1, <1>2, <1>5, <1>6
<1> QED
  BY <1>3, <1>7

\* The orders whose items are taken.
Fulfilled(f) == {x \in Orders : f[x]}

\* One order becomes fulfilled, and its items leave the stock; or the reverse.
LEMMA Moved ==
    ASSUME NEW f \in [Orders -> BOOLEAN], NEW g, NEW o \in Orders, NEW p \in Products,
           ~f[o], g = [f EXCEPT ![o] = TRUE]
    PROVE  Cardinality(UnitsOf(Fulfilled(g), p))
             = Cardinality(UnitsOf(Fulfilled(f), p)) + Quantity[o][p]
<1> DEFINE F == Fulfilled(f)
<1>1. Fulfilled(g) = F \cup {o}
  BY DEF Fulfilled
<1>2. F \in SUBSET Orders /\ o \in Orders \ F
  BY DEF Fulfilled
<1> HIDE DEF F
<1>3. Cardinality(UnitsOf(F \cup {o}, p)) = Cardinality(UnitsOf(F, p)) + Quantity[o][p]
  BY <1>2, OneMoreOrder
<1> QED
  BY <1>1, <1>3 DEF F

\* The units of a product after a commit that does not make it drift.
LEMMA UnitsAfter ==
    ASSUME PInv, NEW w \in Workers, Commit(w), NEW p \in Products, p \notin Drifts(w), Balanced(p)
    PROVE  Balanced(p)'
<1> DEFINE o == req[w].order
           before == Cardinality(UnitsOf(Fulfilled(fulfilled), p))
           after == Cardinality(UnitsOf(Fulfilled(fulfilled'), p))
<1>1. /\ o \in Orders /\ req[w].fulfilled \in BOOLEAN
      /\ Takes(w) => ~req[w].fulfilled /\ fulfilled' = [fulfilled EXCEPT ![o] = TRUE]
      /\ PutsBack(w) => req[w].fulfilled /\ fulfilled' = [fulfilled EXCEPT ![o] = FALSE]
      /\ ~(Takes(w) /\ PutsBack(w))
      /\ ~Takes(w) /\ ~PutsBack(w) => fulfilled' = fulfilled
  BY WrittenOrder
<1>2. /\ stock[p] \in Nat /\ Quantity[o][p] \in Nat
      /\ Takes(w) => stock'[p] = stock[p] - Quantity[o][p]
      /\ PutsBack(w) => stock'[p] = stock[p] + Quantity[o][p]
      /\ ~Takes(w) /\ ~PutsBack(w) => stock'[p] = stock[p]
  BY WrittenUnits
<1>3. /\ opening'[p] = opening[p] /\ opening[p] \in Nat
      /\ fulfilled \in [Orders -> BOOLEAN] /\ fulfilled' \in [Orders -> BOOLEAN]
  <2>1. TypeOK /\ TypeOK' /\ opening' = opening
    BY PInvStep DEF PInv, Next, Commit
  <2> QED
    BY <2>1 DEF TypeOK
<1>4. before \in Nat /\ after \in Nat
  BY UnitsFinite DEF Fulfilled
<1>5. stock[p] + before = opening[p]
  BY DEF Balanced, UnitsTaken, UnitsOf, Fulfilled
<1>6. SUFFICES stock'[p] + after = opening[p]
  BY <1>3 DEF Balanced, UnitsTaken, UnitsOf, Fulfilled
<1>7. Takes(w) \/ PutsBack(w) => Quantity[o][p] = 0 \/ fulfilled[o] = req[w].fulfilled
  BY <1>1, NothingNamed DEF Drifts
<1>8. /\ ~fulfilled[o] /\ fulfilled'[o] => after = before + Quantity[o][p]
      /\ fulfilled[o] /\ ~fulfilled'[o] => before = after + Quantity[o][p]
      /\ fulfilled'[o] = fulfilled[o] => after = before
  <2>1. \A x \in Orders \ {o} : fulfilled'[x] = fulfilled[x]
    BY <1>1, <1>3
  <2>2. CASE ~fulfilled[o] /\ fulfilled'[o]
    <3>1. /\ fulfilled \in [Orders -> BOOLEAN] /\ o \in Orders /\ ~fulfilled[o]
          /\ fulfilled' = [fulfilled EXCEPT ![o] = TRUE]
      BY <1>1, <1>3, <2>1, <2>2
    <3> HIDE DEF o, before, after
    <3>2. Cardinality(UnitsOf(Fulfilled(fulfilled'), p))
            = Cardinality(UnitsOf(Fulfilled(fulfilled), p)) + Quantity[o][p]
      BY <3>1, Moved
    <3> QED
      BY <2>2, <3>2 DEF before, after
  <2>3. CASE fulfilled[o] /\ ~fulfilled'[o]
    <3>1. fulfilled = [fulfilled' EXCEPT ![o] = TRUE]
      BY <1>1, <1>3, <2>1, <2>3
    <3> HIDE DEF o
    <3> QED
      BY <1>1, <1>3, <2>3, <3>1, Moved DEF o
  <2>4. CASE fulfilled'[o] = fulfilled[o]
    <3>1. fulfilled' = fulfilled
      BY <1>1, <1>3, <2>1, <2>4
    <3> QED
      BY <2>4, <3>1
  <2> QED
    BY <2>2, <2>3, <2>4
<1> HIDE DEF before, after
<1>9. CASE Takes(w)
  <2>1. fulfilled'[o] /\ ~PutsBack(w)
    BY <1>1, <1>3, <1>9
  <2>2. CASE ~fulfilled[o]
    BY <1>2, <1>4, <1>5, <1>8, <1>9, <2>1, <2>2
  <2>3. CASE fulfilled[o]
    <3>1. Quantity[o][p] = 0 /\ fulfilled'[o] = fulfilled[o]
      BY <1>1, <1>3, <1>7, <1>9, <2>1, <2>3
    <3> QED
      BY <1>2, <1>4, <1>5, <1>8, <1>9, <3>1
  <2> QED
    BY <2>2, <2>3
<1>10. CASE PutsBack(w)
  <2>1. ~fulfilled'[o] /\ ~Takes(w)
    BY <1>1, <1>3, <1>10
  <2>2. CASE fulfilled[o]
    BY <1>2, <1>4, <1>5, <1>8, <1>10, <2>1, <2>2
  <2>3. CASE ~fulfilled[o]
    <3>1. Quantity[o][p] = 0 /\ fulfilled'[o] = fulfilled[o]
      BY <1>1, <1>3, <1>7, <1>10, <2>1, <2>3
    <3> QED
      BY <1>2, <1>4, <1>5, <1>8, <1>10, <3>1
  <2> QED
    BY <2>2, <2>3
<1>11. CASE ~Takes(w) /\ ~PutsBack(w)
  BY <1>1, <1>2, <1>4, <1>5, <1>8, <1>11
<1> QED
  BY <1>9, <1>10, <1>11

LEMMA ConservationStep ==
    ASSUME PInv, Conservation, [Next]_vars
    PROVE  Conservation'
<1>1. CASE UNCHANGED <<opening, stock, fulfilled, drifted>>
  BY <1>1 DEF Conservation, Balanced, UnitsTaken
<1>2. ASSUME NEW w \in Workers, Commit(w) PROVE Conservation'
  <2>1. SUFFICES ASSUME NEW p \in Products \ drifted' PROVE Balanced(p)'
    BY DEF Conservation
  <2>2. p \notin drifted /\ p \notin Drifts(w)
    BY <1>2 DEF Commit
  <2>3. Balanced(p)
    BY <2>2 DEF Conservation
  <2> QED
    BY <1>2, <2>2, <2>3, UnitsAfter
<1>3. ASSUME NEW w \in Workers, NEW op, NEW o, NEW arg,
             \/ Call(w, op, o, arg) \/ ReadOrder(w) \/ ReadProducts(w) \/ Decide(w)
             \/ Pay(w) \/ PayFails(w) \/ Lock(w) \/ Abort(w)
      PROVE  Conservation'
  BY <1>1, <1>3 DEF Call, ReadOrder, ReadProducts, Decide, Pay, PayFails, Lock, Abort, db, history
<1>4. ASSUME NEW o \in Orders, RefundWebhook(o) PROVE Conservation'
  BY <1>1, <1>4 DEF RefundWebhook
<1> QED
  BY <1>1, <1>2, <1>3, <1>4 DEF Next, vars, history

\* deduct_inventory and revert_inventory lose and invent nothing, whatever
\* requests and refund events overlap and whatever PATCH reopens, as long as no
\* request wrote the product from values that were no longer so.
THEOREM UnitsConserved == Spec => []Conservation
<1>1. Init => Conservation
  <2> SUFFICES ASSUME Init, NEW p \in Products PROVE stock[p] + UnitsTaken(p) = opening[p]
    BY DEF Conservation, Balanced
  <2>1. {x \in Orders : fulfilled[x]} = {}
    BY DEF Init
  <2>2. UNION {{o} \X (1..Quantity[o][p]) : o \in {}} = {}
    OBVIOUS
  <2>3. UnitsTaken(p) = 0
    BY <2>1, <2>2, FS_EmptySet DEF UnitsTaken
  <2>4. opening[p] \in Nat /\ stock[p] = opening[p]
    BY OrdersAssumption DEF Init
  <2> QED
    BY <2>3, <2>4
<1>2. PInv /\ Conservation /\ [Next]_vars => Conservation'
  BY ConservationStep
<1> QED
  BY PInvariance, <1>1, <1>2, PTL DEF Spec

-----------------------------------------------------------------------------
\* Closed orders.

LEMMA ClosedCommit ==
    ASSUME PInv, Decided, ClosedHoldNothing, NEW w \in Workers, Commit(w)
    PROVE  ClosedHoldNothing'
<1> DEFINE r == req[w]
           o == req[w].order
<1>1. /\ o \in Orders /\ r.fulfilled \in BOOLEAN /\ r.op \in Endpoints
      /\ Takes(w) => ~r.fulfilled /\ fulfilled' = [fulfilled EXCEPT ![o] = TRUE]
      /\ PutsBack(w) => r.fulfilled /\ fulfilled' = [fulfilled EXCEPT ![o] = FALSE]
      /\ ~(Takes(w) /\ PutsBack(w))
      /\ ~Takes(w) /\ ~PutsBack(w) => fulfilled' = fulfilled
  BY WrittenOrder
<1>2. /\ status' = IF NewStatus(w) = r.status THEN status ELSE [status EXCEPT ![o] = NewStatus(w)]
      /\ loose' = Loosened(w) /\ Allowed(w)
  BY DEF Commit, Decided
<1>3. /\ status \in [Orders -> Statuses] /\ fulfilled \in [Orders -> BOOLEAN]
      /\ loose \subseteq Orders
  BY DEF PInv, TypeOK
<1>4. ASSUME NEW x \in Orders \ loose', x # o, status'[x] \in Closed PROVE ~fulfilled'[x]
  <2>1. status'[x] = status[x] /\ fulfilled'[x] = fulfilled[x] /\ x \notin loose
    BY <1>1, <1>2, <1>3, <1>4 DEF Loosened
  <2> QED
    BY <1>4, <2>1 DEF ClosedHoldNothing
<1>5. ASSUME o \notin loose', status'[o] \in Closed PROVE ~fulfilled'[o]
  <2>1. CASE r.op \in {"cancel", "refund"}
    <3>1. fulfilled[o] = r.fulfilled
      BY <1>2, <1>5, <2>1 DEF Loosened
    <3> QED
      BY <1>1, <1>3, <2>1, <3>1 DEF Takes, PutsBack
  <2>2. CASE r.op \notin {"cancel", "refund"}
    <3>1. /\ o \notin loose
          /\ ~(status[o] \notin Closed /\ NewStatus(w) \in Closed)
          /\ ~(status[o] \in Closed /\ r.op = "fulfill")
      BY <1>2, <1>5, <2>2 DEF Loosened
    <3>2. status[o] \in Closed /\ ~fulfilled[o]
      BY <1>1, <1>2, <1>3, <1>5, <3>1 DEF ClosedHoldNothing
    <3>3. r.op # "fulfill"
      BY <3>1, <3>2
    <3>4. r.op # "ship"
      <4>1. r.op = "ship" => NewStatus(w) = "shipped" /\ r.status \in Open
        BY <1>2 DEF Allowed, MayShip, StillOpen, NewStatus
      <4> QED
        BY <1>1, <1>2, <1>3, <1>5, <4>1 DEF Open, Closed
    <3> QED
      BY <1>1, <2>2, <3>2, <3>3, <3>4 DEF Takes, PutsBack
  <2> QED
    BY <2>1, <2>2
<1> QED
  BY <1>4, <1>5 DEF ClosedHoldNothing

LEMMA ClosedStep ==
    ASSUME PInv, Decided, ClosedHoldNothing, [Next]_vars
    PROVE  ClosedHoldNothing'
<1>1. CASE UNCHANGED <<status, fulfilled, loose>>
  BY <1>1 DEF ClosedHoldNothing
<1>2. ASSUME NEW o \in Orders, RefundWebhook(o) PROVE ClosedHoldNothing'
  BY <1>2 DEF RefundWebhook, ClosedHoldNothing, PInv, TypeOK
<1>3. ASSUME NEW w \in Workers, NEW op, NEW o, NEW arg,
             \/ Call(w, op, o, arg) \/ ReadOrder(w) \/ ReadProducts(w) \/ Decide(w)
             \/ Pay(w) \/ PayFails(w) \/ Lock(w) \/ Abort(w)
      PROVE  ClosedHoldNothing'
  BY <1>1, <1>3 DEF Call, ReadOrder, ReadProducts, Decide, Pay, PayFails, Lock, Abort, db, history
<1> QED
  BY <1>1, <1>2, <1>3, ClosedCommit DEF Next, vars, history

\* Cancelling and refunding give the units back, whatever overlaps them: a
\* closed order holds none, unless it was closed without a look at what it
\* holds, or fulfilled when closed, and not cancelled or refunded since.
THEOREM ClosedOrdersHoldNothing == Spec => []ClosedHoldNothing
<1>1. Init => ClosedHoldNothing
  BY DEF Init, ClosedHoldNothing
<1>2. PInv /\ Decided /\ ClosedHoldNothing /\ [Next]_vars => ClosedHoldNothing'
  BY ClosedStep
<1> QED
  BY PInvariance, DecidedInvariance, <1>1, <1>2, PTL DEF Spec
=============================================================================
