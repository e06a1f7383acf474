------------------------ MODULE SquareWebhookProofs ------------------------
(***************************************************************************)
(* Proofs about SquareWebhook, for events at any number of workers: the    *)
(* type invariant, that refunds reach their orders, that no event is lost, *)
(* and how often an event can be processed.                                *)
(***************************************************************************)
EXTENDS SquareWebhook, FiniteSetTheorems, TLAPS

-----------------------------------------------------------------------------
\* Part 1: types, and refunds.

Handling == {"lookup", "get", "record", "find", "apply", "complete"}

\* The refund events whose order can be found by its payment.
Reaches(e) == RefundCompleted(e) /\ OrderOf[e] \in Orders \ Hosted

\* A worker past a lookup has an event; one that found an order has an order
\* that exists; and orders that are linked to their payment are found.
InPlace(r) ==
    /\ r.pc \in Handling => r.event \in Events
    /\ r.pc = "apply" /\ r.found => OrderOf[r.event] \in Orders
    /\ r.pc = "apply" /\ Reaches(r.event) => r.found

\* What a worker has read of an order, and keeps of it, is refunded only if
\* the order is; an event about to be completed has reached its order.
Behind(r, ord) ==
    /\ r.pc = "apply" /\ r.found => (r.order.refunded => ord[OrderOf[r.event]].refunded)
    /\ \A o \in Orders : \A k \in r.kept[o] : k.refunded => ord[o].refunded
    /\ r.pc = "complete" /\ Reaches(r.event) => ord[OrderOf[r.event]].refunded

Linked == \A o \in Orders \ Hosted : orders[o].linked
RequestsInPlace == \A w \in Workers : InPlace(req[w]) /\ Behind(req[w], orders)

RInv == TypeOK /\ Linked /\ RequestsInPlace /\ RefundsReachOrders

\* The history variables' part of TypeOK.
HistoryTyped == undone \in [Events -> Nat] /\ abandoned \subseteq Events

LEMMA NoRowType == NoRow \in Rows /\ NoRow.status = "none" /\ NoRow.attempts = 0
BY DEF NoRow, Rows

LEMMA NothingReadType == NothingRead \in OrderRows /\ NothingRead.refunded = FALSE
BY DEF NothingRead, OrderRows, PaymentStatuses

LEMMA IdleType == Idle \in Request /\ Idle.pc = "idle" /\ \A o \in Orders : Idle.kept[o] = {}
BY NoRowType, NothingReadType DEF Idle, Request

\* Refunds of orders are not undone.
Kept(ord, new) == \A o \in Orders : ord[o].refunded => new[o].refunded

\* One worker changes to something well placed.
LEMMA Replaced ==
    ASSUME RInv, NEW w \in Workers, NEW r \in Request, Becomes(w, r), InPlace(r),
           Behind(r, orders'), Kept(orders, orders')
    PROVE  req' \in [Workers -> Request] /\ RequestsInPlace'
<1>1. req' \in [Workers -> Request] /\ req'[w] = r /\ \A v \in Workers \ {w} : req'[v] = req[v]
  BY DEF RInv, TypeOK, Becomes
<1>2. ASSUME NEW v \in Workers PROVE InPlace(req'[v]) /\ Behind(req'[v], orders')
  <2>1. CASE v = w
    BY <1>1, <2>1
  <2>2. CASE v # w
    <3>1. InPlace(req[v]) /\ Behind(req[v], orders)
      BY DEF RInv, RequestsInPlace
    <3>2. Behind(req[v], orders')
      BY <3>1 DEF Behind, Kept, InPlace, Reaches
    <3> QED
      BY <1>1, <2>2, <3>1, <3>2
  <2> QED
    BY <2>1, <2>2
<1> QED
  BY <1>1, <1>2 DEF RequestsInPlace, InPlace, Behind

\* A worker that gives up its event, or goes on to the next of its batch.
LEMMA FinishedType ==
    ASSUME RInv, NEW w \in Workers, Finishes(w), Kept(orders, orders')
    PROVE  req' \in [Workers -> Request] /\ RequestsInPlace'
<1> DEFINE r == IF req[w].job THEN [req[w] EXCEPT !.pc = "next", !.event = "none",
                                                  !.found = FALSE, !.order = NothingRead]
                ELSE Idle
<1>1. req[w] \in Request /\ InPlace(req[w]) /\ Behind(req[w], orders)
  BY DEF RInv, TypeOK, RequestsInPlace
<1>2. r \in Request /\ r.pc \in {"idle", "next"} /\ (r.kept = req[w].kept \/ \A o \in Orders : r.kept[o] = {})
  BY <1>1, IdleType, NothingReadType DEF Request
<1>3. Becomes(w, r)
  BY DEF Finishes
<1> HIDE DEF r
<1>4. InPlace(r) /\ Behind(r, orders')
  BY <1>1, <1>2 DEF InPlace, Behind, Handling, Kept
<1> QED
  BY <1>2, <1>3, <1>4, Replaced

LEMMA BecomesIdle ==
    ASSUME RInv, NEW w \in Workers, Becomes(w, Idle), Kept(orders, orders')
    PROVE  req' \in [Workers -> Request] /\ RequestsInPlace'
<1>1. InPlace(Idle) /\ Behind(Idle, orders')
  BY IdleType DEF InPlace, Behind, Handling
<1> QED
  BY <1>1, IdleType, Replaced

-----------------------------------------------------------------------------
LEMMA InitRInv == Init => RInv
<1> SUFFICES ASSUME Init PROVE RInv
  OBVIOUS
<1>1. TypeOK
  <2>1. \A o \in Orders : [NothingRead EXCEPT !.linked = o \notin Hosted] \in OrderRows
    BY DEF NothingRead, OrderRows, PaymentStatuses
  <2>2. orders \in [Orders -> OrderRows]
    BY <2>1 DEF Init
  <2>3. deliveries \in [Events -> 0..MaxDeliveries]
    BY WebhookAssumption DEF Init
  <2>4. row \in [Events -> Rows] /\ deadLetters \in [Events -> Nat] /\ done \in [Events -> Nat]
    BY NoRowType DEF Init
  <2>5. req \in [Workers -> Request]
    BY IdleType DEF Init
  <2>6. undone \in [Events -> Nat] /\ abandoned \subseteq Events
    BY DEF Init
  <2> QED
    BY <2>2, <2>3, <2>4, <2>5, <2>6 DEF TypeOK
<1>2. Linked
  BY DEF Init, Linked, NothingRead
<1>3. RequestsInPlace
  BY IdleType DEF Init, RequestsInPlace, InPlace, Behind, Handling
<1>4. RefundsReachOrders
  BY NoRowType DEF Init, RefundsReachOrders
<1> QED
  BY <1>1, <1>2, <1>3, <1>4 DEF RInv

\* A step that leaves the orders and the rows of events alone.
LEMMA QuietStep ==
    ASSUME RInv, HistoryTyped', UNCHANGED db, deliveries' \in [Events -> 0..MaxDeliveries],
           req' \in [Workers -> Request], RequestsInPlace'
    PROVE  RInv'
BY DEF RInv, TypeOK, HistoryTyped, Linked, RefundsReachOrders, db

LEMMA SeenType ==
    ASSUME RInv, NEW w \in Workers, req[w].pc \in Handling
    PROVE  req[w].event \in Events /\ Seen(w) \in Rows
BY DEF RInv, TypeOK, RequestsInPlace, InPlace, Seen, Request

LEMMA UnchangedKept == ASSUME orders' = orders PROVE Kept(orders, orders')
BY DEF Kept

LEMMA RInvStarts ==
    ASSUME RInv, HistoryTyped', NEW w \in Workers,
           \/ \E e \in Events : Deliver(w, e)
           \/ \E batch \in SUBSET Due : StartJob(w, batch)
           \/ JobTurns(w)
    PROVE  RInv'
<1>1. ASSUME NEW e \in Events, Deliver(w, e) PROVE RInv'
  <2> DEFINE r == [Idle EXCEPT !.pc = "lookup", !.event = e]
  <2>1. r \in Request /\ r.pc = "lookup" /\ r.event = e /\ r.kept = Idle.kept
    BY IdleType DEF Idle, Request
  <2>2. Becomes(w, r) /\ UNCHANGED db /\ orders' = orders
    BY <1>1 DEF Deliver, db
  <2> HIDE DEF r
  <2>3. InPlace(r) /\ Behind(r, orders')
    BY <2>1, IdleType DEF InPlace, Behind, Handling
  <2>4. deliveries' \in [Events -> 0..MaxDeliveries]
    <3>1. deliveries[e] \in 0..MaxDeliveries /\ deliveries[e] < MaxDeliveries
      BY <1>1 DEF Deliver, RInv, TypeOK
    <3>2. deliveries[e] + 1 \in 0..MaxDeliveries
      BY <3>1, WebhookAssumption
    <3>3. deliveries' = [deliveries EXCEPT ![e] = deliveries[e] + 1]
      BY <1>1 DEF Deliver
    <3> QED
      BY <3>2, <3>3 DEF RInv, TypeOK
  <2> QED
    BY <2>1, <2>2, <2>3, <2>4, Replaced, QuietStep, UnchangedKept
<1>2. ASSUME NEW batch \in SUBSET Due, StartJob(w, batch) PROVE RInv'
  <2> DEFINE r == [Idle EXCEPT !.pc = "next", !.job = TRUE, !.batch = batch,
                     !.loaded = [e \in Events |-> IF e \in batch THEN row[e] ELSE NoRow]]
  <2>1. batch \in SUBSET Events
    BY DEF Due
  <2>2. r \in Request /\ r.pc = "next" /\ r.kept = Idle.kept
    BY <2>1, IdleType, NoRowType DEF Idle, Request, RInv, TypeOK
  <2>3. Becomes(w, r) /\ UNCHANGED db /\ orders' = orders /\ deliveries' = deliveries
    BY <1>2 DEF StartJob, db
  <2> HIDE DEF r
  <2>4. InPlace(r) /\ Behind(r, orders')
    BY <2>2, IdleType DEF InPlace, Behind, Handling
  <2> QED
    BY <2>2, <2>3, <2>4, Replaced, QuietStep, UnchangedKept DEF RInv, TypeOK
<1>3. CASE JobTurns(w)
  <2>1. UNCHANGED db /\ orders' = orders /\ deliveries' = deliveries
    BY <1>3 DEF JobTurns, db
  <2>2. CASE Becomes(w, Idle)
    BY <2>1, <2>2, BecomesIdle, QuietStep, UnchangedKept DEF RInv, TypeOK
  <2>3. ASSUME NEW e \in req[w].batch,
               Becomes(w, [req[w] EXCEPT !.pc = "lookup", !.event = e, !.batch = @ \ {e}])
        PROVE  RInv'
    <3> DEFINE r == [req[w] EXCEPT !.pc = "lookup", !.event = e, !.batch = @ \ {e}]
    <3>1. req[w] \in Request /\ e \in Events /\ Behind(req[w], orders)
      BY <2>3 DEF RInv, TypeOK, Request, RequestsInPlace
    <3>2. r \in Request /\ r.pc = "lookup" /\ r.event = e /\ r.kept = req[w].kept
      BY <3>1 DEF Request
    <3>3. Becomes(w, r)
      BY <2>3
    <3> HIDE DEF r
    <3>4. InPlace(r) /\ Behind(r, orders')
      BY <2>1, <3>1, <3>2 DEF InPlace, Behind, Handling
    <3> QED
      BY <2>1, <3>2, <3>3, <3>4, Replaced, QuietStep, UnchangedKept DEF RInv, TypeOK
  <2> QED
    BY <1>3, <2>2, <2>3 DEF JobTurns
<1> QED
  BY <1>1, <1>2, <1>3

-----------------------------------------------------------------------------
LEMMA SameRow == ASSUME deliveries' = deliveries, RInv
                 PROVE  deliveries' \in [Events -> 0..MaxDeliveries]
BY DEF RInv, TypeOK

LEMMA RInvReads ==
    ASSUME RInv, HistoryTyped', NEW w \in Workers, Lookup(w) \/ Get(w)
    PROVE  RInv'
<1>1. UNCHANGED db /\ orders' = orders /\ deliveries' = deliveries
  BY DEF Lookup, Get, db
<1>2. req[w].pc \in Handling
  BY DEF Lookup, Get, Handling
<1>3. req[w] \in Request /\ InPlace(req[w]) /\ Behind(req[w], orders)
  BY DEF RInv, TypeOK, RequestsInPlace
<1>4. ASSUME NEW p \in {"get", "record"},
             Becomes(w, [req[w] EXCEPT !.pc = p, !.loaded[req[w].event] = Seen(w)])
      PROVE  RInv'
  <2> DEFINE r == [req[w] EXCEPT !.pc = p, !.loaded[req[w].event] = Seen(w)]
  <2>1. r \in Request /\ r.pc = p /\ r.event = req[w].event /\ r.kept = req[w].kept
    BY <1>2, <1>3, SeenType DEF Request
  <2>2. Becomes(w, r)
    BY <1>4
  <2> HIDE DEF r
  <2>3. InPlace(r) /\ Behind(r, orders')
    BY <1>1, <1>2, <1>3, <2>1 DEF InPlace, Behind
  <2> QED
    BY <1>1, <2>1, <2>2, <2>3, Replaced, QuietStep, UnchangedKept, SameRow
<1>5. CASE Finishes(w)
  BY <1>1, <1>5, FinishedType, QuietStep, UnchangedKept, SameRow
<1> QED
  BY <1>4, <1>5 DEF Lookup, Get

\* Rows other than completed ones demand nothing of the orders.
LEMMA RowStep ==
    ASSUME RInv, HistoryTyped', orders' = orders, deliveries' = deliveries,
           row' \in [Events -> Rows], deadLetters' \in [Events -> Nat], done' \in [Events -> Nat],
           \A e \in Events : row'[e].status = "completed" =>
               row[e].status = "completed" \/ (Reaches(e) => orders[OrderOf[e]].refunded),
           req' \in [Workers -> Request], RequestsInPlace'
    PROVE  RInv'
<1>1. TypeOK'
  BY DEF RInv, TypeOK, HistoryTyped
<1>2. Linked'
  BY DEF RInv, Linked
<1>3. RefundsReachOrders'
  BY DEF RInv, RefundsReachOrders, Reaches, RefundCompleted
<1> QED
  BY <1>1, <1>2, <1>3 DEF RInv

LEMMA RInvRecord == ASSUME RInv, HistoryTyped', NEW w \in Workers, Record(w) PROVE RInv'
<1> DEFINE e == req[w].event
           attempt == [status |-> "processing", attempts |-> req[w].loaded[e].attempts + 1]
           r == [req[w] EXCEPT !.pc = "find", !.loaded[e] = attempt]
<1>1. req[w] \in Request /\ InPlace(req[w]) /\ Behind(req[w], orders) /\ req[w].pc = "record"
  BY DEF RInv, TypeOK, RequestsInPlace, Record
<1>2. e \in Events /\ attempt \in Rows
  BY <1>1 DEF InPlace, Handling, Request, Rows
<1>3. orders' = orders /\ deliveries' = deliveries /\ deadLetters' = deadLetters /\ done' = done
  BY DEF Record
<1>4. CASE Finishes(w) /\ UNCHANGED row
  <2>1. req' \in [Workers -> Request] /\ RequestsInPlace'
    BY <1>3, <1>4, FinishedType, UnchangedKept
  <2> QED
    BY <1>3, <1>4, <2>1, RowStep DEF RInv, TypeOK
<1>5. CASE /\ row' = [row EXCEPT ![e] = IF req[w].loaded[e].status = "processing"
                                       THEN [@ EXCEPT !.attempts = attempt.attempts] ELSE attempt]
           /\ Becomes(w, r)
  <2>1. r \in Request /\ r.pc = "find" /\ r.event = e /\ r.kept = req[w].kept
    BY <1>1, <1>2 DEF Request
  <2>2. row' \in [Events -> Rows]
    <3>1. row[e] \in Rows /\ attempt.attempts \in Nat
      BY <1>2 DEF RInv, TypeOK, Rows
    <3>2. [row[e] EXCEPT !.attempts = attempt.attempts] \in Rows
      BY <3>1 DEF Rows
    <3> HIDE DEF attempt, e
    <3> QED
      BY <1>2, <1>5, <3>2 DEF RInv, TypeOK
  <2>3. \A f \in Events : row'[f].status = "completed" => row[f].status = "completed"
    BY <1>2, <1>5 DEF RInv, TypeOK, Rows
  <2> HIDE DEF r, attempt, e
  <2>4. InPlace(r) /\ Behind(r, orders')
    BY <1>1, <1>2, <1>3, <2>1 DEF InPlace, Behind, Handling
  <2>5. req' \in [Workers -> Request] /\ RequestsInPlace'
    BY <1>3, <1>5, <2>1, <2>4, Replaced, UnchangedKept
  <2> QED
    BY <1>3, <2>2, <2>3, <2>5, RowStep DEF RInv, TypeOK
<1> QED
  BY <1>4, <1>5 DEF Record

LEMMA RInvFindOrder == ASSUME RInv, HistoryTyped', NEW w \in Workers, FindOrder(w) PROVE RInv'
<1> DEFINE e == req[w].event
           o == OrderOf[e]
<1>1. req[w] \in Request /\ InPlace(req[w]) /\ Behind(req[w], orders) /\ req[w].pc = "find"
  BY DEF RInv, TypeOK, RequestsInPlace, FindOrder
<1>2. e \in Events /\ (Finds(e) => o \in Orders)
  BY <1>1, WebhookAssumption DEF InPlace, Handling, Finds
<1>3. UNCHANGED db /\ orders' = orders /\ deliveries' = deliveries
  BY DEF FindOrder, db
<1>4. Reaches(e) => Finds(e)
  BY <1>2, WebhookAssumption DEF Reaches, RefundCompleted, Finds, RInv, Linked
<1>5. PICK read \in IF Finds(e) THEN {orders[o]} \cup req[w].kept[o] ELSE {NothingRead} :
        Becomes(w, [req[w] EXCEPT !.pc = "apply", !.found = Finds(e), !.order = read])
  BY DEF FindOrder
<1>6. read \in OrderRows /\ (Finds(e) /\ read.refunded => orders[o].refunded)
  <2>1. CASE Finds(e)
    <3>1. orders[o] \in OrderRows /\ req[w].kept[o] \in SUBSET OrderRows
      BY <1>1, <1>2, <2>1 DEF RInv, TypeOK, Request
    <3>2. \A k \in req[w].kept[o] : k.refunded => orders[o].refunded
      BY <1>1, <1>2, <2>1 DEF Behind
    <3> QED
      BY <1>5, <2>1, <3>1, <3>2
  <2>2. CASE ~Finds(e)
    BY <1>5, <2>2, NothingReadType
  <2> QED
    BY <2>1, <2>2
<1> DEFINE r == [req[w] EXCEPT !.pc = "apply", !.found = Finds(e), !.order = read]
<1>7. Finds(e) \in BOOLEAN
  BY DEF Finds
<1>8. r \in Request /\ r.pc = "apply" /\ r.event = e /\ r.kept = req[w].kept
      /\ r.found = Finds(e) /\ r.order = read
  BY <1>1, <1>6, <1>7 DEF Request
<1>9. Becomes(w, r)
  BY <1>5
<1> HIDE DEF r
<1>10. InPlace(r) /\ Behind(r, orders')
  BY <1>1, <1>2, <1>3, <1>4, <1>6, <1>8 DEF InPlace, Behind, Handling
<1> QED
  BY <1>3, <1>8, <1>9, <1>10, Replaced, QuietStep, UnchangedKept, SameRow

\* What a handler leaves, and what then is written, is an order's row; it is
\* refunded if the order was, or if a completed refund was handled.
LEMMA HandledType ==
    ASSUME NEW e \in Events, NEW o \in OrderRows
    PROVE  /\ Handled(e, o) \in OrderRows
           /\ o.linked => Handled(e, o).linked
           /\ o.refunded => Handled(e, o).refunded
           /\ RefundCompleted(e) => Handled(e, o).refunded
           /\ ~RefundCompleted(e) => Handled(e, o).refunded = o.refunded
BY WebhookAssumption
   DEF Handled, PaymentUpdated, PaymentFailed, Refunded, RefundCompleted, NewStatus, OrderRows, PaymentStatuses, Kinds

LEMMA UpdatedType ==
    ASSUME NEW c \in OrderRows, NEW r \in OrderRows, NEW n \in OrderRows
    PROVE  /\ Updated(c, r, n) \in OrderRows
           /\ Updated(c, r, n).refunded = IF n.refunded = r.refunded THEN c.refunded ELSE n.refunded
           /\ Updated(c, r, n).linked = IF n.linked = r.linked THEN c.linked ELSE n.linked
BY DEF Updated, OrderRows

LEMMA RInvApply == ASSUME RInv, HistoryTyped', NEW w \in Workers, Apply(w) PROVE RInv'
<1> DEFINE e == req[w].event
           o == OrderOf[e]
           new == Handled(e, req[w].order)
<1>1. /\ req[w] \in Request /\ InPlace(req[w]) /\ Behind(req[w], orders)
      /\ req[w].pc = "apply" /\ e \in Events
  BY DEF RInv, TypeOK, RequestsInPlace, InPlace, Handling, Apply
<1>2. /\ row' = row /\ deadLetters' = deadLetters /\ done' = done /\ deliveries' = deliveries
  BY DEF Apply
<1>3. CASE req[w].found
  <2> DEFINE r == [req[w] EXCEPT !.pc = "complete", !.kept[o] = IF req[w].job THEN {new} ELSE {}]
  <2>1. o \in Orders /\ orders[o] \in OrderRows /\ req[w].order \in OrderRows
    BY <1>1, <1>3 DEF InPlace, RInv, TypeOK, Request
  <2>2. /\ new \in OrderRows
        /\ req[w].order.linked => new.linked
        /\ req[w].order.refunded => new.refunded
        /\ RefundCompleted(e) => new.refunded
    BY <1>1, <2>1, HandledType
  <2>3. req[w].order.refunded => orders[o].refunded
    BY <1>1, <1>3 DEF Behind
  <2>4. orders' = [orders EXCEPT ![o] = Updated(orders[o], req[w].order, new)] /\ Becomes(w, r)
    BY <1>3 DEF Apply
  <2>5. /\ r \in Request /\ r.pc = "complete" /\ r.event = e
        /\ \A p \in Orders \ {o} : r.kept[p] = req[w].kept[p]
        /\ \A k \in r.kept[o] : k = new
    BY <1>1, <2>1, <2>2 DEF Request
  <2> HIDE DEF r, new, o, e
  <2>6. /\ orders' \in [Orders -> OrderRows]
        /\ orders[o].linked => orders'[o].linked
        /\ orders[o].refunded => orders'[o].refunded
        /\ new.refunded => orders'[o].refunded
        /\ \A p \in Orders \ {o} : orders'[p] = orders[p]
    <3> DEFINE u == Updated(orders[o], req[w].order, new)
    <3>1. /\ u \in OrderRows
          /\ u.refunded = IF new.refunded = req[w].order.refunded THEN orders[o].refunded ELSE new.refunded
          /\ u.linked = IF new.linked = req[w].order.linked THEN orders[o].linked ELSE new.linked
      BY <2>1, <2>2, UpdatedType
    <3> HIDE DEF u
    <3>2. orders' = [orders EXCEPT ![o] = u]
      BY <2>4 DEF u
    <3>3. /\ orders' \in [Orders -> OrderRows] /\ orders'[o] = u
          /\ \A p \in Orders \ {o} : orders'[p] = orders[p]
      BY <2>1, <3>1, <3>2 DEF RInv, TypeOK
    <3>4. /\ orders[o].linked => u.linked
          /\ orders[o].refunded => u.refunded
          /\ new.refunded => u.refunded
      BY <2>1, <2>2, <2>3, <3>1 DEF OrderRows
    <3> QED
      BY <3>3, <3>4
  <2>7. Kept(orders, orders')
    BY <2>6 DEF Kept
  <2>8. InPlace(r) /\ Behind(r, orders')
    <3>1. ASSUME NEW p \in Orders, NEW k \in r.kept[p], k.refunded PROVE orders'[p].refunded
      <4>1. CASE p = o
        BY <2>5, <2>6, <3>1, <4>1
      <4>2. CASE p # o
        <5>1. k \in req[w].kept[p]
          BY <2>5, <3>1, <4>2
        <5> QED
          BY <1>1, <2>6, <3>1, <4>2, <5>1 DEF Behind
      <4> QED
        BY <4>1, <4>2
    <3>2. Reaches(r.event) => orders'[OrderOf[r.event]].refunded
      BY <2>2, <2>5, <2>6 DEF Reaches, o
    <3>3. r.event \in Events
      BY <1>1, <2>5 DEF e
    <3> QED
      BY <2>5, <3>1, <3>2, <3>3 DEF InPlace, Behind
  <2>9. req' \in [Workers -> Request] /\ RequestsInPlace'
    BY <2>4, <2>5, <2>7, <2>8, Replaced
  <2>10. Linked' /\ RefundsReachOrders'
    BY <1>2, <2>6, <2>7 DEF RInv, Linked, RefundsReachOrders, Kept
  <2> QED
    BY <1>2, <2>6, <2>9, <2>10 DEF RInv, TypeOK, HistoryTyped
<1>4. CASE ~req[w].found
  <2> DEFINE r == [req[w] EXCEPT !.pc = "complete"]
  <2>1. Becomes(w, r) /\ orders' = orders
    BY <1>4 DEF Apply
  <2>2. r \in Request /\ r.pc = "complete" /\ r.event = e /\ r.kept = req[w].kept
    BY <1>1 DEF Request
  <2> HIDE DEF r
  <2>3. InPlace(r) /\ Behind(r, orders')
    BY <1>1, <1>4, <2>1, <2>2 DEF InPlace, Behind
  <2>4. req' \in [Workers -> Request] /\ RequestsInPlace'
    BY <2>1, <2>2, <2>3, Replaced, UnchangedKept
  <2> QED
    BY <1>2, <2>1, <2>4, RowStep DEF RInv, TypeOK
<1> QED
  BY <1>3, <1>4

LEMMA RInvEnds == ASSUME RInv, HistoryTyped', NEW w \in Workers, Complete(w) \/ HandleFailure(w) PROVE RInv'
<1> DEFINE e == req[w].event
<1>1. e \in Events /\ Behind(req[w], orders) /\ row[e] \in Rows
  BY DEF RInv, TypeOK, RequestsInPlace, InPlace, Handling, Complete, HandleFailure
<1>2. Finishes(w) /\ orders' = orders /\ deliveries' = deliveries
  BY DEF Complete, HandleFailure
<1>3. req' \in [Workers -> Request] /\ RequestsInPlace'
  BY <1>2, FinishedType, UnchangedKept
<1>4. CASE Complete(w)
  <2>1. row' = [row EXCEPT ![e].status = "completed"] /\ deadLetters' = deadLetters
        /\ done' = [done EXCEPT ![e] = @ + 1]
    BY <1>4 DEF Complete
  <2>2. row' \in [Events -> Rows] /\ done' \in [Events -> Nat]
    BY <1>1, <2>1 DEF RInv, TypeOK, Rows
  <2>3. \A f \in Events : row'[f].status = "completed" =>
          row[f].status = "completed" \/ (Reaches(f) => orders[OrderOf[f]].refunded)
    <3>1. Reaches(e) => orders[OrderOf[e]].refunded
      BY <1>1, <1>4 DEF Behind, Complete
    <3>2. \A f \in Events \ {e} : row'[f] = row[f]
      BY <2>1 DEF RInv, TypeOK
    <3> QED
      BY <3>1, <3>2
  <2> QED
    BY <1>2, <1>3, <2>1, <2>2, <2>3, RowStep DEF RInv, TypeOK
<1>5. CASE HandleFailure(w)
  <2>1. PICK s \in {"failed", "dead_letter"} : row' = [row EXCEPT ![e].status = s]
    BY <1>5 DEF HandleFailure
  <2>2. row' \in [Events -> Rows] /\ done' = done /\ deadLetters' \in [Events -> Nat]
    BY <1>1, <1>5, <2>1 DEF HandleFailure, RInv, TypeOK, Rows
  <2>3. \A f \in Events : row'[f].status = "completed" => row[f].status = "completed"
    BY <1>1, <2>1 DEF RInv, TypeOK, Rows
  <2> QED
    BY <1>2, <1>3, <2>2, <2>3, RowStep DEF RInv, TypeOK
<1> QED
  BY <1>4, <1>5

LEMMA RInvDies == ASSUME RInv, HistoryTyped', NEW w \in Workers, Dies(w) PROVE RInv'
<1>1. UNCHANGED db /\ orders' = orders /\ deliveries' = deliveries /\ Becomes(w, Idle)
  BY DEF Dies, db
<1> QED
  BY <1>1, BecomesIdle, QuietStep, UnchangedKept, SameRow

LEMMA HistoryStep == RInv /\ [Next]_vars => HistoryTyped'
<1> SUFFICES ASSUME RInv, [Next]_vars PROVE HistoryTyped'
  OBVIOUS
<1>1. ASSUME UNCHANGED history PROVE HistoryTyped'
  BY <1>1 DEF history, HistoryTyped, RInv, TypeOK
<1>2. ASSUME NEW w \in Workers, HandleFailure(w) PROVE HistoryTyped'
  <2>1. abandoned' = abandoned /\ (undone' = undone \/ undone' = [undone EXCEPT ![req[w].event] = @ + 1])
    BY <1>2 DEF HandleFailure
  <2> QED
    BY <2>1 DEF HistoryTyped, RInv, TypeOK
<1>3. ASSUME NEW w \in Workers, Dies(w) PROVE HistoryTyped'
  <2>1. Attempting(w) => req[w].event \in Events
    BY DEF RInv, RequestsInPlace, InPlace, Attempting, Handling
  <2> QED
    BY <1>3, <2>1 DEF Dies, HistoryTyped, RInv, TypeOK
<1>4. ASSUME NEW w \in Workers,
             \/ \E e \in Events : Deliver(w, e)
             \/ \E batch \in SUBSET Due : StartJob(w, batch)
             \/ JobTurns(w) \/ Lookup(w) \/ Get(w) \/ Record(w) \/ FindOrder(w)
             \/ Apply(w) \/ Complete(w)
      PROVE  UNCHANGED history
  BY <1>4 DEF Deliver, StartJob, JobTurns, Lookup, Get, Record, FindOrder, Apply, Complete, history
<1> QED
  BY <1>1, <1>2, <1>3, <1>4 DEF Next, vars

LEMMA RInvNext == RInv /\ [Next]_vars => RInv'
<1> SUFFICES ASSUME RInv, [Next]_vars PROVE RInv'
  OBVIOUS
<1>0. HistoryTyped'
  BY HistoryStep
<1>1. CASE UNCHANGED vars
  BY <1>1 DEF vars, history, RInv, TypeOK, Linked, RequestsInPlace, InPlace, Behind, RefundsReachOrders
<1>2. ASSUME NEW w \in Workers,
             \/ \E e \in Events : Deliver(w, e)
             \/ \E batch \in SUBSET Due : StartJob(w, batch)
             \/ JobTurns(w) \/ Lookup(w) \/ Get(w) \/ Record(w) \/ FindOrder(w)
             \/ Apply(w) \/ Complete(w) \/ HandleFailure(w) \/ Dies(w)
      PROVE  RInv'
  BY <1>0, <1>2, RInvStarts, RInvReads, RInvRecord, RInvFindOrder, RInvApply, RInvEnds, RInvDies
<1> QED
  BY <1>1, <1>2 DEF Next

LEMMA AlwaysRInv == Spec => []RInv
BY InitRInv, RInvNext, PTL DEF Spec

\* Every reachable state is well typed, however many workers hold an event.
THEOREM TypeCorrect == Spec => []TypeOK
<1>1. RInv => TypeOK
  BY DEF RInv
<1> QED
  BY <1>1, AlwaysRInv, PTL

\* A completed refund event has marked its order refunded: neither a payment
\* event handled at the same moment nor a stale row of a batch undoes it.
THEOREM RefundsReach == Spec => []RefundsReachOrders
<1>1. RInv => RefundsReachOrders
  BY DEF RInv
<1> QED
  BY <1>1, AlwaysRInv, PTL
-----------------------------------------------------------------------------
\* Part 2: no event is lost.

AtWork(e, n) ==
    \E w \in Workers : Attempting(w) /\ req[w].event = e /\ req[w].loaded[e].attempts >= n

\* What a status, or a count of attempts that allows no retry, says of an event.
Told(e) ==
    /\ row[e].status = "processing" => AtWork(e, 0) \/ e \in abandoned
    /\ row[e].status = "completed" => done[e] > 0
    /\ row[e].status = "dead_letter" => deadLetters[e] > 0
    /\ row[e].attempts >= MaxAttempts =>
           done[e] > 0 \/ deadLetters[e] > 0 \/ AtWork(e, MaxAttempts) \/ e \in abandoned

LInv == \A e \in Events : Told(e)

LEMMA InitLInv == Init => LInv
BY NoRowType, WebhookAssumption DEF Init, LInv, Told

\* A worker that goes on with its event is at work on it as before.
LEMMA GoesOn ==
    ASSUME RInv, NEW w \in Workers, NEW e \in Events, NEW n \in Nat, AtWork(e, n),
           \A v \in Workers \ {w} : req'[v] = req[v],
           \/ req[w].event # e
           \/ ~Attempting(w)
           \/ /\ req'[w].pc \in {"find", "apply", "complete"}
              /\ req'[w].event = e /\ req'[w].loaded = req[w].loaded
    PROVE  AtWork(e, n)'
<1>1. PICK v \in Workers : Attempting(v) /\ req[v].event = e /\ req[v].loaded[e].attempts >= n
  BY DEF AtWork
<1>2. CASE v # w
  BY <1>1, <1>2 DEF AtWork, Attempting
<1>3. CASE v = w
  BY <1>1, <1>3 DEF AtWork, Attempting
<1> QED
  BY <1>2, <1>3

\* A step that changes nothing an event's row is judged by.
LEMMA ToldStill ==
    ASSUME NEW e \in Events, Told(e), row'[e] = row[e], done'[e] = done[e],
           deadLetters'[e] = deadLetters[e], e \in abandoned => e \in abandoned',
           AtWork(e, 0) => AtWork(e, 0)' \/ e \in abandoned',
           AtWork(e, MaxAttempts) => AtWork(e, MaxAttempts)' \/ e \in abandoned'
    PROVE  Told(e)'
BY DEF Told

\* What the steps of a worker change of what it is doing.
LEMMA OthersGoOn ==
    ASSUME RInv, NEW w \in Workers, NEW r, Becomes(w, r)
    PROVE  req'[w] = r /\ \A v \in Workers \ {w} : req'[v] = req[v]
BY DEF RInv, TypeOK, Becomes

LEMMA FinishesIsBecoming ==
    ASSUME NEW w, Finishes(w)
    PROVE  \E r : Becomes(w, r)
BY DEF Finishes

LEMMA LInvQuiet ==
    ASSUME RInv, LInv, NEW w \in Workers,
           \/ \E e \in Events : Deliver(w, e)
           \/ \E batch \in SUBSET Due : StartJob(w, batch)
           \/ JobTurns(w) \/ Lookup(w) \/ Get(w)
    PROVE  LInv'
<1>1. ~Attempting(w)
  BY DEF Attempting, Deliver, StartJob, JobTurns, Lookup, Get, Active
<1>2. row' = row /\ done' = done /\ deadLetters' = deadLetters /\ abandoned' = abandoned
  BY DEF Deliver, StartJob, JobTurns, Lookup, Get, db, history
<1>3. \E r : Becomes(w, r)
  BY FinishesIsBecoming DEF Deliver, StartJob, JobTurns, Lookup, Get
<1>4. \A v \in Workers \ {w} : req'[v] = req[v]
  BY <1>3, OthersGoOn
<1>5. ASSUME NEW e \in Events PROVE Told(e)'
  <2>1. \A n \in Nat : AtWork(e, n) => AtWork(e, n)'
    BY <1>1, <1>4, GoesOn
  <2> QED
    BY <1>2, <2>1, ToldStill, WebhookAssumption DEF LInv
<1> QED
  BY <1>5 DEF LInv

LEMMA LInvRecord == ASSUME RInv, LInv, NEW w \in Workers, Record(w) PROVE LInv'
<1>0. PICK f \in Events : f = req[w].event
  BY DEF Record, RInv, RequestsInPlace, InPlace, Handling
<1> DEFINE attempt == [status |-> "processing", attempts |-> req[w].loaded[f].attempts + 1]
           r == [req[w] EXCEPT !.pc = "find", !.loaded[f] = attempt]
<1>1. req[w] \in Request /\ f \in Events /\ ~Attempting(w) /\ req[w].loaded[f] \in Rows
  BY <1>0 DEF Record, Attempting, RInv, TypeOK, RequestsInPlace, InPlace, Handling, Request
<1>2. done' = done /\ deadLetters' = deadLetters /\ abandoned' = abandoned
  BY DEF Record, history
<1>3. \E x : Becomes(w, x)
  BY FinishesIsBecoming DEF Record
<1>4. \A v \in Workers \ {w} : req'[v] = req[v]
  BY <1>3, OthersGoOn
<1>5. \A e \in Events, n \in Nat : AtWork(e, n) => AtWork(e, n)'
  BY <1>1, <1>4, GoesOn
<1>6. CASE row' = row
  BY <1>2, <1>5, <1>6, ToldStill, WebhookAssumption DEF LInv
<1>7. CASE /\ row' = [row EXCEPT ![f] = IF req[w].loaded[f].status = "processing"
                                       THEN [@ EXCEPT !.attempts = attempt.attempts] ELSE attempt]
           /\ Becomes(w, r)
  <2>1. req'[w] = r
    BY <1>7, OthersGoOn
  <2>2. /\ r.pc = "find" /\ r.event = f
        /\ r.loaded[f] = attempt /\ attempt.attempts \in Nat
    BY <1>0, <1>1 DEF Request, Rows
  <2>3. \A n \in Nat : attempt.attempts >= n => AtWork(f, n)'
    BY <2>1, <2>2 DEF AtWork, Attempting
  <2>4. \A e \in Events \ {f} : row'[e] = row[e]
    BY <1>1, <1>7 DEF RInv, TypeOK
  <2>5. /\ row'[f].status \in {row[f].status, "processing"}
        /\ row'[f].attempts = attempt.attempts
    <3>1. row[f] \in Rows
      BY <1>1 DEF RInv, TypeOK
    <3> QED
      BY <1>1, <1>7, <3>1 DEF RInv, TypeOK, Rows
  <2> HIDE DEF r, attempt
  <2>6. Told(f)'
    BY <1>1, <1>2, <2>2, <2>3, <2>5, WebhookAssumption DEF LInv, Told
  <2>7. ASSUME NEW e \in Events \ {f} PROVE Told(e)'
    BY <1>2, <1>5, <2>4, ToldStill, WebhookAssumption DEF LInv
  <2> QED
    BY <2>6, <2>7 DEF LInv
<1> QED
  BY <1>0, <1>6, <1>7 DEF Record

LEMMA LInvHandles ==
    ASSUME RInv, LInv, NEW w \in Workers, FindOrder(w) \/ Apply(w)
    PROVE  LInv'
<1>1. row' = row /\ done' = done /\ deadLetters' = deadLetters /\ abandoned' = abandoned
  BY DEF FindOrder, Apply, db, history
<1>2. req[w] \in Request
  BY DEF RInv, TypeOK
<1>3. PICK r : /\ Becomes(w, r) /\ r.pc \in {"find", "apply", "complete"}
               /\ r.event = req[w].event /\ r.loaded = req[w].loaded
  <2>1. CASE FindOrder(w)
    <3>1. PICK read : Becomes(w, [req[w] EXCEPT !.pc = "apply", !.found = Finds(req[w].event), !.order = read])
      BY <2>1 DEF FindOrder
    <3> DEFINE r == [req[w] EXCEPT !.pc = "apply", !.found = Finds(req[w].event), !.order = read]
    <3>2. r.pc = "apply" /\ r.event = req[w].event /\ r.loaded = req[w].loaded
      BY <1>2 DEF Request
    <3>3. Becomes(w, r)
      BY <3>1
    <3> HIDE DEF r
    <3> QED
      BY <3>2, <3>3
  <2>2. CASE Apply(w) /\ ~req[w].found
    BY <1>2, <2>2 DEF Apply, Request
  <2>3. CASE Apply(w) /\ req[w].found
    <3>1. PICK kept : Becomes(w, [req[w] EXCEPT !.pc = "complete", !.kept[OrderOf[req[w].event]] = kept])
      BY <2>3 DEF Apply
    <3> DEFINE r == [req[w] EXCEPT !.pc = "complete", !.kept[OrderOf[req[w].event]] = kept]
    <3>2. r.pc = "complete" /\ r.event = req[w].event /\ r.loaded = req[w].loaded
      BY <1>2 DEF Request
    <3>3. Becomes(w, r)
      BY <3>1
    <3> HIDE DEF r
    <3> QED
      BY <3>2, <3>3
  <2> QED
    BY <2>1, <2>2, <2>3
<1>4. req'[w] = r /\ \A v \in Workers \ {w} : req'[v] = req[v]
  BY <1>3, OthersGoOn
<1>5. \A e \in Events, n \in Nat : AtWork(e, n) => AtWork(e, n)'
  BY <1>3, <1>4, GoesOn
<1> QED
  BY <1>1, <1>5, ToldStill, WebhookAssumption DEF LInv

LEMMA LInvEnds ==
    ASSUME RInv, LInv, NEW w \in Workers, Complete(w) \/ HandleFailure(w)
    PROVE  LInv'
<1>0. PICK f \in Events : f = req[w].event
  BY DEF Complete, HandleFailure, RInv, RequestsInPlace, InPlace, Handling
<1>1. f \in Events /\ req[w] \in Request /\ row[f] \in Rows /\ req[w].loaded[f] \in Rows
      /\ done[f] \in Nat /\ deadLetters[f] \in Nat
  BY <1>0 DEF Complete, HandleFailure, RInv, TypeOK, Request
<1>2. abandoned' = abandoned /\ Finishes(w)
  BY DEF Complete, HandleFailure, history
<1>3. \A v \in Workers \ {w} : req'[v] = req[v]
  BY <1>2, FinishesIsBecoming, OthersGoOn
<1>4. ASSUME NEW e \in Events \ {f} PROVE Told(e)'
  <2>1. row'[e] = row[e] /\ done'[e] = done[e] /\ deadLetters'[e] = deadLetters[e]
    BY <1>0, <1>1 DEF Complete, HandleFailure, RInv, TypeOK
  <2>2. \A n \in Nat : AtWork(e, n) => AtWork(e, n)'
    BY <1>0, <1>3, GoesOn
  <2> QED
    BY <1>2, <2>1, <2>2, ToldStill, WebhookAssumption DEF LInv
<1>5. Told(f)'
  <2>1. CASE Complete(w)
    <3>1. row'[f].status = "completed" /\ done'[f] > 0
      BY <1>0, <1>1, <2>1 DEF Complete, RInv, TypeOK, Rows
    <3> QED
      BY <3>1 DEF Told
  <2>2. CASE HandleFailure(w) /\ ~RetriesLeft(req[w].loaded[f].attempts)
    <3>1. deadLetters'[f] > 0 /\ row'[f].status = "dead_letter"
      BY <1>0, <1>1, <2>2 DEF HandleFailure, RInv, TypeOK, Rows
    <3> QED
      BY <3>1 DEF Told
  <2>3. CASE HandleFailure(w) /\ RetriesLeft(req[w].loaded[f].attempts)
    <3>1. /\ row'[f].status = "failed" /\ row'[f].attempts = row[f].attempts
          /\ done' = done /\ deadLetters' = deadLetters
      BY <1>0, <1>1, <2>3 DEF HandleFailure, RInv, TypeOK, Rows
    <3>2. AtWork(f, MaxAttempts) => AtWork(f, MaxAttempts)'
      <4>1. ~(req[w].loaded[f].attempts >= MaxAttempts)
        BY <1>1, <2>3, WebhookAssumption DEF RetriesLeft, Rows
      <4> QED
        BY <1>0, <1>3, <4>1 DEF AtWork, Attempting
    <3> QED
      BY <1>1, <1>2, <3>1, <3>2 DEF LInv, Told
  <2> QED
    BY <2>1, <2>2, <2>3
<1> QED
  BY <1>4, <1>5 DEF LInv

LEMMA LInvDies == ASSUME RInv, LInv, NEW w \in Workers, Dies(w) PROVE LInv'
<1>1. row' = row /\ done' = done /\ deadLetters' = deadLetters /\ abandoned \subseteq abandoned'
  BY DEF Dies, db
<1>2. \A v \in Workers \ {w} : req'[v] = req[v]
  BY OthersGoOn DEF Dies
<1>3. ASSUME NEW e \in Events, NEW n \in Nat, AtWork(e, n)
      PROVE  AtWork(e, n)' \/ e \in abandoned'
  <2>1. CASE req[w].event # e \/ ~Attempting(w)
    BY <1>2, <1>3, <2>1, GoesOn
  <2>2. CASE req[w].event = e /\ Attempting(w)
    BY <2>2 DEF Dies
  <2> QED
    BY <2>1, <2>2
<1> QED
  BY <1>1, <1>3, ToldStill, WebhookAssumption DEF LInv

LEMMA LInvNext == RInv /\ LInv /\ [Next]_vars => LInv'
<1> SUFFICES ASSUME RInv, LInv, [Next]_vars PROVE LInv'
  OBVIOUS
<1>1. CASE UNCHANGED vars
  BY <1>1 DEF vars, history, LInv, Told, AtWork, Attempting
<1>2. ASSUME NEW w \in Workers,
             \/ \E e \in Events : Deliver(w, e)
             \/ \E batch \in SUBSET Due : StartJob(w, batch)
             \/ JobTurns(w) \/ Lookup(w) \/ Get(w) \/ Record(w) \/ FindOrder(w)
             \/ Apply(w) \/ Complete(w) \/ HandleFailure(w) \/ Dies(w)
      PROVE  LInv'
  BY <1>2, LInvQuiet, LInvRecord, LInvHandles, LInvEnds, LInvDies
<1> QED
  BY <1>1, <1>2 DEF Next

LEMMA LInvTells == RInv /\ LInv => NothingLost
<1> SUFFICES ASSUME RInv, LInv, NEW e \in Events, row[e].status # "none",
                    done[e] = 0, deadLetters[e] = 0, e \notin abandoned,
                    ~\E w \in Workers : Attempting(w) /\ req[w].event = e
             PROVE  e \in Due
  BY DEF NothingLost, RInv, TypeOK
<1>1. Told(e) /\ row[e] \in Rows /\ \A n : ~AtWork(e, n)
  BY DEF LInv, AtWork, RInv, TypeOK
<1>2. row[e].status = "failed"
  BY <1>1 DEF Told, Rows
<1>3. row[e].attempts < MaxAttempts
  BY <1>1, WebhookAssumption DEF Told, Rows
<1> QED
  BY <1>2, <1>3 DEF Due

\* An event that was recorded is done, told of by a dead letter, due for a
\* retry or at a worker, whatever workers overlap on it with stale rows: only a
\* worker that stops in the middle of an attempt leaves it behind.
THEOREM EventsAreNotLost == Spec => []NothingLost
<1>1. RInv /\ LInv /\ [Next]_vars => LInv'
  BY LInvNext
<1> QED
  BY <1>1, InitLInv, AlwaysRInv, LInvTells, PTL DEF Spec

-----------------------------------------------------------------------------
\* Part 3: how often an event is done.

\* The workers that can still process an event: a job that has it in its batch,
\* and whoever went past the lookup.
Holds(r, e) ==
    \/ e \in r.batch
    \/ r.event = e /\ r.pc \in Handling /\ (r.pc = "lookup" => r.job)
Holders(e) == {w \in Workers : Holds(req[w], e)}

\* The statuses that let a worker begin.
IsOpen(e) == row[e].status \in {"none", "failed", "dead_letter"}

\* A worker's event has left its batch, a delivery has read nothing yet, and
\* only a job has a next event.
Fresh(r) ==
    /\ r.pc = "next" => r.job
    /\ r.pc \in Handling => r.event \notin r.batch
    /\ r.pc = "lookup" /\ ~r.job => r.loaded[r.event] = NoRow

N == Cardinality(Workers)

\* Nobody begins on an event that is done: so many can still do it as there
\* are workers, less those who did it since it was last open.
Counted(e) ==
    /\ done[e] + Cardinality(Holders(e)) <= N * (1 + undone[e])
    /\ IsOpen(e) => done[e] <= N * undone[e]

DInv == (\A e \in Events : Counted(e)) /\ (\A w \in Workers : Fresh(req[w]))

LEMMA HoldersBound ==
    ASSUME NEW e
    PROVE  IsFiniteSet(Holders(e)) /\ Cardinality(Holders(e)) \in 0..N /\ N \in Nat
BY WebhookAssumption, FS_Subset, FS_CardinalityType DEF Holders, N

LEMMA InitDInv == Init => DInv
<1> SUFFICES ASSUME Init PROVE DInv
  OBVIOUS
<1>1. ASSUME NEW e \in Events PROVE Counted(e)
  <2>1. Holders(e) = {}
    BY DEF Init, Holders, Holds, Idle, Handling
  <2> QED
    BY <2>1, FS_EmptySet, HoldersBound DEF Init, Counted
<1>2. \A w \in Workers : Fresh(req[w])
  BY DEF Init, Fresh, Idle, Handling
<1> QED
  BY <1>1, <1>2 DEF DInv

\* Workers leave an event that otherwise stays as it is.
LEMMA Leaving ==
    ASSUME RInv, DInv, NEW e \in Events, Holders(e)' \subseteq Holders(e), done'[e] = done[e],
           undone'[e] = undone[e], IsOpen(e)' => IsOpen(e)
    PROVE  Counted(e)'
<1>1. Cardinality(Holders(e)') <= Cardinality(Holders(e))
  BY HoldersBound, FS_Subset
<1>2. Counted(e) /\ done[e] \in Nat /\ undone[e] \in Nat
  BY DEF DInv, RInv, TypeOK
<1>3. Cardinality(Holders(e)') \in Nat
  <2>1. IsFiniteSet(Holders(e)')
    BY HoldersBound, FS_Subset
  <2> QED
    BY <2>1, FS_CardinalityType
<1>4. N' = N
  BY DEF N
<1> DEFINE c == Cardinality(Holders(e))
           d == Cardinality(Holders(e)')
<1>5. done[e] + d <= N * (1 + undone[e])
  <2>1. c \in Nat /\ N * (1 + undone[e]) \in Nat
    <3>1. Cardinality(Holders(e)) \in Nat /\ N \in Nat
      BY HoldersBound
    <3> QED
      BY <1>2, <3>1
  <2>2. d <= c /\ d \in Nat
    BY <1>1, <1>3
  <2>3. done[e] + c <= N * (1 + undone[e])
    BY <1>2 DEF Counted
  <2> HIDE DEF c, d
  <2> QED
    BY <1>2, <2>1, <2>2, <2>3
<1>6. IsOpen(e)' => done'[e] <= N' * undone'[e]
  BY <1>2, <1>4 DEF Counted
<1> QED
  BY <1>4, <1>5, <1>6 DEF Counted

\* A worker begins on an event that is open.
LEMMA Joining ==
    ASSUME RInv, DInv, NEW e \in Events, IsOpen(e), row' = row, done' = done, undone' = undone
    PROVE  Counted(e)'
<1>1. Counted(e) /\ done[e] \in Nat /\ undone[e] \in Nat
  BY DEF DInv, RInv, TypeOK
<1>2. N' = N /\ N \in Nat /\ Cardinality(Holders(e)') \in 0..N
  <2>1. IsFiniteSet(Holders(e)') /\ Holders(e)' \subseteq Workers
    BY WebhookAssumption, FS_Subset DEF Holders
  <2> QED
    BY <2>1, WebhookAssumption, FS_Subset, FS_CardinalityType DEF N
<1> DEFINE d == Cardinality(Holders(e)')
<1>3. done[e] + d <= N * (1 + undone[e])
  <2>1. N * (1 + undone[e]) = N + N * undone[e] /\ N * undone[e] \in Nat
    BY <1>1, <1>2
  <2>2. done[e] <= N * undone[e] /\ d \in 0..N
    BY <1>1, <1>2 DEF Counted
  <2> HIDE DEF d
  <2> QED
    BY <1>1, <1>2, <2>1, <2>2
<1> QED
  BY <1>1, <1>2, <1>3 DEF Counted, IsOpen

\* What one worker's step changes of the holders.
LEMMA HoldersChange ==
    ASSUME RInv, NEW w \in Workers, NEW r, Becomes(w, r), NEW e
    PROVE  /\ Holders(e)' \ {w} = Holders(e) \ {w}
           /\ w \in Holders(e)' <=> Holds(r, e)
           /\ w \in Holders(e) <=> Holds(req[w], e)
BY OthersGoOn DEF Holders

LEMMA FreshStill ==
    ASSUME RInv, DInv, NEW w \in Workers, NEW r, Becomes(w, r), Fresh(r)
    PROVE  (\A v \in Workers : Fresh(req[v]))'
BY OthersGoOn DEF DInv, Fresh

\* A worker that is through with its event holds it no longer, nor more others.
LEMMA FinishedHolds ==
    ASSUME RInv, DInv, NEW w \in Workers, Finishes(w)
    PROVE  /\ (\A v \in Workers : Fresh(req[v]))'
           /\ \A e \in Events : Holders(e)' \subseteq Holders(e)
           /\ req[w].pc \in Handling => \A e : e = req[w].event => w \notin Holders(e)'
<1> DEFINE r == IF req[w].job THEN [req[w] EXCEPT !.pc = "next", !.event = "none",
                                                  !.found = FALSE, !.order = NothingRead]
                ELSE Idle
<1>1. req[w] \in Request /\ Fresh(req[w])
  BY DEF RInv, TypeOK, DInv
<1>2. /\ r.pc \in {"idle", "next"} /\ (r.batch = req[w].batch \/ r.batch = {})
      /\ r.pc = "next" => r.job
  BY <1>1 DEF Request, Idle
<1>3. Becomes(w, r)
  BY DEF Finishes
<1> HIDE DEF r
<1>4. Fresh(r) /\ \A e : Holds(r, e) => e \in req[w].batch
  BY <1>2 DEF Fresh, Holds, Handling
<1>5. \A e : Holds(r, e) => Holds(req[w], e)
  BY <1>4 DEF Holds
<1>6. \A e : Holders(e)' \subseteq Holders(e)
  BY <1>3, <1>5, HoldersChange
<1>7. ASSUME req[w].pc \in Handling, NEW e, e = req[w].event PROVE w \notin Holders(e)'
  BY <1>1, <1>3, <1>4, <1>7, HoldersChange DEF Fresh
<1> QED
  BY <1>3, <1>4, <1>6, <1>7, FreshStill

LEMMA DInvDies == ASSUME RInv, DInv, NEW w \in Workers, Dies(w) PROVE DInv'
<1>1. row' = row /\ done' = done /\ undone' = undone /\ Becomes(w, Idle)
  BY DEF Dies, db
<1>2. Fresh(Idle) /\ \A e : ~Holds(Idle, e)
  BY DEF Fresh, Holds, Idle, Handling
<1>3. \A e : Holders(e)' \subseteq Holders(e)
  BY <1>1, <1>2, HoldersChange
<1> QED
  BY <1>1, <1>2, <1>3, FreshStill, Leaving DEF DInv, IsOpen

LEMMA DInvStarts ==
    ASSUME RInv, DInv, NEW w \in Workers,
           \/ \E e \in Events : Deliver(w, e)
           \/ \E batch \in SUBSET Due : StartJob(w, batch)
           \/ JobTurns(w)
    PROVE  DInv'
<1>0. row' = row /\ done' = done /\ undone' = undone
  BY DEF Deliver, StartJob, JobTurns, db, history
<1>1. ASSUME NEW e \in Events, Deliver(w, e) PROVE DInv'
  <2> DEFINE r == [Idle EXCEPT !.pc = "lookup", !.event = e]
  <2>1. r.pc = "lookup" /\ ~r.job /\ r.batch = {} /\ r.event = e /\ r.loaded[e] = NoRow
    BY DEF Idle
  <2>2. Becomes(w, r)
    BY <1>1 DEF Deliver
  <2> HIDE DEF r
  <2>3. Fresh(r) /\ \A f : ~Holds(r, f)
    BY <2>1 DEF Fresh, Holds
  <2>4. \A f : Holders(f)' \subseteq Holders(f)
    BY <2>2, <2>3, HoldersChange
  <2> QED
    BY <1>0, <2>2, <2>3, <2>4, FreshStill, Leaving DEF DInv, IsOpen
<1>2. ASSUME NEW batch \in SUBSET Due, StartJob(w, batch) PROVE DInv'
  <2> DEFINE r == [Idle EXCEPT !.pc = "next", !.job = TRUE, !.batch = batch,
                     !.loaded = [e \in Events |-> IF e \in batch THEN row[e] ELSE NoRow]]
  <2>1. r.pc = "next" /\ r.batch = batch /\ r.job
    BY DEF Idle
  <2>2. Becomes(w, r)
    BY <1>2 DEF StartJob
  <2> HIDE DEF r
  <2>3. Fresh(r) /\ \A f : Holds(r, f) => f \in batch
    BY <2>1 DEF Fresh, Holds, Handling
  <2>4. ASSUME NEW f \in Events PROVE Counted(f)'
    <3>1. CASE f \in batch
      <4>1. IsOpen(f)
        BY <3>1 DEF Due, IsOpen
      <4> QED
        BY <1>0, <4>1, Joining
    <3>2. CASE f \notin batch
      <4>1. Holders(f)' \subseteq Holders(f)
        BY <2>2, <2>3, <3>2, HoldersChange
      <4> QED
        BY <1>0, <4>1, Leaving DEF IsOpen
    <3> QED
      BY <3>1, <3>2
  <2> QED
    BY <2>2, <2>3, <2>4, FreshStill DEF DInv
<1>3. CASE JobTurns(w) /\ Becomes(w, Idle)
  <2>1. Fresh(Idle) /\ \A e : ~Holds(Idle, e)
    BY DEF Fresh, Holds, Idle, Handling
  <2>2. \A e : Holders(e)' \subseteq Holders(e)
    BY <1>3, <2>1, HoldersChange
  <2> QED
    BY <1>0, <1>3, <2>1, <2>2, FreshStill, Leaving DEF DInv, IsOpen
<1>4. ASSUME JobTurns(w), NEW e \in req[w].batch,
             Becomes(w, [req[w] EXCEPT !.pc = "lookup", !.event = e, !.batch = @ \ {e}])
      PROVE  DInv'
  <2> DEFINE r == [req[w] EXCEPT !.pc = "lookup", !.event = e, !.batch = @ \ {e}]
  <2>1. req[w] \in Request
    BY DEF RInv, TypeOK
  <2>2. r.pc = "lookup" /\ r.event = e /\ r.batch = req[w].batch \ {e} /\ r.job = req[w].job
    BY <2>1 DEF Request
  <2>3. Becomes(w, r)
    BY <1>4
  <2> HIDE DEF r
  <2>4. Fresh(r)
    BY <1>4, <2>2 DEF Fresh, DInv, JobTurns
  <2>5. \A f : Holds(r, f) => Holds(req[w], f)
    BY <1>4, <2>2 DEF Holds
  <2>6. \A f : Holders(f)' \subseteq Holders(f)
    BY <2>3, <2>5, HoldersChange
  <2> QED
    BY <1>0, <2>3, <2>4, <2>6, FreshStill, Leaving DEF DInv, IsOpen
<1> QED
  BY <1>1, <1>2, <1>3, <1>4 DEF JobTurns

LEMMA DInvReads ==
    ASSUME RInv, DInv, NEW w \in Workers, Lookup(w) \/ Get(w)
    PROVE  DInv'
<1>0. row' = row /\ done' = done /\ undone' = undone
  BY DEF Lookup, Get, db, history
<1>1. req[w] \in Request /\ Fresh(req[w]) /\ req[w].pc \in {"lookup", "get"}
  BY DEF RInv, TypeOK, DInv, Lookup, Get
<1>2. PICK e \in Events : e = req[w].event
  BY <1>1 DEF RInv, RequestsInPlace, InPlace, Handling
<1>3. CASE Finishes(w)
  BY <1>0, <1>3, FinishedHolds, Leaving DEF DInv, IsOpen
<1>4. ASSUME NEW p \in {"get", "record"},
             Becomes(w, [req[w] EXCEPT !.pc = p, !.loaded[req[w].event] = Seen(w)]),
             req[w].pc = "get" \/ ~Answered(Seen(w).status)
      PROVE  DInv'
  <2> DEFINE r == [req[w] EXCEPT !.pc = p, !.loaded[req[w].event] = Seen(w)]
  <2>1. r.pc = p /\ r.event = e /\ r.batch = req[w].batch
    BY <1>1, <1>2 DEF Request
  <2>2. Becomes(w, r)
    BY <1>4
  <2> HIDE DEF r
  <2>3. Fresh(r)
    BY <1>1, <1>2, <2>1 DEF Fresh, Handling
  <2>4. \A f : Holds(r, f) => f = e \/ Holds(req[w], f)
    BY <2>1 DEF Holds
  <2>5. ASSUME NEW f \in Events PROVE Counted(f)'
    <3>1. CASE f = e /\ ~Holds(req[w], e)
      <4>1. req[w].pc = "lookup" /\ ~req[w].job
        BY <1>1, <1>2, <3>1 DEF Holds, Handling
      <4>2. Seen(w) = row[e] /\ row[e] \in Rows
        BY <1>1, <1>2, <4>1 DEF Seen, Fresh, RInv, TypeOK
      <4>3. IsOpen(e)
        BY <1>4, <4>1, <4>2 DEF IsOpen, Answered, Rows
      <4> QED
        BY <1>0, <3>1, <4>3, Joining
    <3>2. CASE f # e \/ Holds(req[w], e)
      <4>1. Holders(f)' \subseteq Holders(f)
        BY <2>2, <2>4, <3>2, HoldersChange
      <4> QED
        BY <1>0, <4>1, Leaving DEF IsOpen
    <3> QED
      BY <3>1, <3>2
  <2> QED
    BY <2>2, <2>3, <2>5, FreshStill DEF DInv
<1> QED
  BY <1>1, <1>3, <1>4 DEF Lookup, Get

\* Steps of a worker that goes on with the event it holds.
LEMMA DInvGoesOn ==
    ASSUME RInv, DInv, NEW w \in Workers, NEW r, Becomes(w, r), r.event = req[w].event,
           r.batch = req[w].batch, r.pc \in {"find", "apply", "complete"},
           req[w].pc \in {"record", "find", "apply"}, done' = done, undone' = undone,
           \A e \in Events : IsOpen(e)' => IsOpen(e)
    PROVE  DInv'
<1>1. Fresh(req[w])
  BY DEF DInv
<1>2. Fresh(r) /\ \A f : Holds(r, f) => Holds(req[w], f)
  BY <1>1 DEF Fresh, Holds, Handling
<1>3. \A f : Holders(f)' \subseteq Holders(f)
  BY <1>2, HoldersChange
<1> QED
  BY <1>2, <1>3, FreshStill, Leaving DEF DInv

LEMMA DInvHandles ==
    ASSUME RInv, DInv, NEW w \in Workers, Record(w) \/ FindOrder(w) \/ Apply(w)
    PROVE  DInv'
<1>0. done' = done /\ undone' = undone
  BY DEF Record, FindOrder, Apply, db, history
<1>1. req[w] \in Request /\ req[w].pc \in {"record", "find", "apply"}
  BY DEF RInv, TypeOK, Record, FindOrder, Apply
<1>2. req[w].event \in Events
  BY <1>1 DEF RInv, RequestsInPlace, InPlace, Handling
<1>3. \A e \in Events : IsOpen(e)' => IsOpen(e)
  <2>1. CASE Record(w)
    <3> DEFINE a == [status |-> "processing", attempts |-> req[w].loaded[req[w].event].attempts + 1]
    <3>1. \/ row' = row
          \/ row' = [row EXCEPT ![req[w].event] = a]
          \/ row' = [row EXCEPT ![req[w].event] = [@ EXCEPT !.attempts = a.attempts]]
      BY <2>1 DEF Record
    <3>2. a.status = "processing"
      OBVIOUS
    <3> HIDE DEF a
    <3> QED
      BY <1>2, <3>1, <3>2 DEF IsOpen, RInv, TypeOK, Rows
  <2>2. CASE FindOrder(w) \/ Apply(w)
    BY <2>2 DEF FindOrder, Apply, db, IsOpen
  <2> QED
    BY <2>1, <2>2
<1>4. CASE Finishes(w)
  BY <1>0, <1>3, <1>4, FinishedHolds, Leaving DEF DInv
<1>5. ASSUME NEW a, Becomes(w, [req[w] EXCEPT !.pc = "find", !.loaded[req[w].event] = a])
      PROVE  DInv'
  <2> DEFINE r == [req[w] EXCEPT !.pc = "find", !.loaded[req[w].event] = a]
  <2>1. r.event = req[w].event /\ r.batch = req[w].batch /\ r.pc = "find" /\ Becomes(w, r)
    BY <1>1, <1>5 DEF Request
  <2> HIDE DEF r
  <2> QED
    BY <1>0, <1>1, <1>3, <2>1, DInvGoesOn
<1>6. ASSUME NEW f, NEW x, Becomes(w, [req[w] EXCEPT !.pc = "apply", !.found = f, !.order = x])
      PROVE  DInv'
  <2> DEFINE r == [req[w] EXCEPT !.pc = "apply", !.found = f, !.order = x]
  <2>1. r.event = req[w].event /\ r.batch = req[w].batch /\ r.pc = "apply" /\ Becomes(w, r)
    BY <1>1, <1>6 DEF Request
  <2> HIDE DEF r
  <2> QED
    BY <1>0, <1>1, <1>3, <2>1, DInvGoesOn
<1>7. ASSUME NEW k, NEW o,
             \/ Becomes(w, [req[w] EXCEPT !.pc = "complete", !.kept[o] = k])
             \/ Becomes(w, [req[w] EXCEPT !.pc = "complete"])
      PROVE  DInv'
  <2>1. PICK r \in {[req[w] EXCEPT !.pc = "complete", !.kept[o] = k],
                    [req[w] EXCEPT !.pc = "complete"]} : Becomes(w, r)
    BY <1>7
  <2>2. r.event = req[w].event /\ r.batch = req[w].batch /\ r.pc = "complete"
    BY <1>1, <2>1 DEF Request
  <2> QED
    BY <1>0, <1>1, <1>3, <2>1, <2>2, DInvGoesOn
<1> QED
  BY <1>4, <1>5, <1>6, <1>7 DEF Record, FindOrder, Apply

LEMMA DInvComplete == ASSUME RInv, DInv, NEW w \in Workers, Complete(w) PROVE DInv'
<1>1. PICK e \in Events : e = req[w].event
  BY DEF Complete, RInv, RequestsInPlace, InPlace, Handling
<1>2. /\ row' = [row EXCEPT ![e].status = "completed"] /\ done' = [done EXCEPT ![e] = @ + 1]
      /\ undone' = undone /\ Finishes(w) /\ req[w].pc = "complete"
  BY <1>1 DEF Complete, history
<1>3. \A f \in Events : IsOpen(f)' => IsOpen(f) /\ f # e
  BY <1>2 DEF IsOpen, RInv, TypeOK, Rows
<1>4. ASSUME NEW f \in Events \ {e} PROVE Counted(f)'
  <2>1. done'[f] = done[f]
    BY <1>2 DEF RInv, TypeOK
  <2> QED
    BY <1>2, <1>3, <2>1, FinishedHolds, Leaving
<1>5. Counted(e)'
  <2>1. Holders(e)' = Holders(e) \ {w} /\ w \in Holders(e)
    <3>1. Holders(e)' \subseteq Holders(e) /\ w \notin Holders(e)'
      BY <1>1, <1>2, FinishedHolds DEF Handling
    <3>2. \E r : Becomes(w, r)
      BY <1>2, FinishesIsBecoming
    <3>3. Holders(e)' \ {w} = Holders(e) \ {w}
      BY <3>2, HoldersChange
    <3>4. w \in Holders(e)
      BY <1>1, <1>2 DEF Holders, Holds, Handling
    <3> QED
      BY <3>1, <3>3, <3>4
  <2>2. Cardinality(Holders(e)') = Cardinality(Holders(e)) - 1
    BY <2>1, HoldersBound, FS_RemoveElement
  <2>3. done'[e] = done[e] + 1 /\ done[e] \in Nat /\ undone[e] \in Nat
    BY <1>2 DEF RInv, TypeOK
  <2> DEFINE c == Cardinality(Holders(e))
             d == Cardinality(Holders(e)')
             m == N * (1 + undone[e])
  <2>4. c \in Nat /\ m \in Nat /\ done[e] + c <= m
    <3>1. Cardinality(Holders(e)) \in Nat /\ N \in Nat
      BY HoldersBound
    <3> QED
      BY <2>3, <3>1 DEF DInv, Counted
  <2>5. d = c - 1
    BY <2>2
  <2>6. N' * (1 + undone'[e]) = m
    BY <1>2 DEF N
  <2> HIDE DEF c, d, m
  <2>7. done'[e] + d <= m
    BY <2>3, <2>4, <2>5
  <2> QED
    BY <1>3, <2>6, <2>7 DEF Counted, d
<1> QED
  BY <1>2, <1>4, <1>5, FinishedHolds DEF DInv

LEMMA DInvHandleFailure == ASSUME RInv, DInv, NEW w \in Workers, HandleFailure(w) PROVE DInv'
<1>1. PICK e \in Events : e = req[w].event
  BY DEF HandleFailure, RInv, RequestsInPlace, InPlace, Handling
<1>2. PICK s \in {"failed", "dead_letter"} : row' = [row EXCEPT ![e].status = s]
  BY <1>1 DEF HandleFailure
<1>3. done' = done /\ Finishes(w)
      /\ undone' = IF done[e] > 0 THEN [undone EXCEPT ![e] = @ + 1] ELSE undone
  BY <1>1 DEF HandleFailure
<1>4. ASSUME NEW f \in Events \ {e} PROVE Counted(f)'
  <2>1. undone'[f] = undone[f] /\ row'[f] = row[f]
    BY <1>2, <1>3 DEF RInv, TypeOK
  <2> QED
    BY <1>3, <2>1, FinishedHolds, Leaving DEF IsOpen
<1>5. Counted(e)'
  <2> DEFINE c == Cardinality(Holders(e))
             d == Cardinality(Holders(e)')
             u == undone[e]
             v == undone'[e]
  <2>1. done[e] \in Nat /\ u \in Nat /\ N \in Nat /\ c \in Nat /\ N' = N
    <3>1. Cardinality(Holders(e)) \in Nat /\ N \in Nat
      BY HoldersBound
    <3> QED
      BY <3>1 DEF RInv, TypeOK, N
  <2>2. d \in Nat /\ d <= c
    <3>1. Holders(e)' \subseteq Holders(e)
      BY <1>3, FinishedHolds
    <3>2. IsFiniteSet(Holders(e)') /\ Cardinality(Holders(e)') <= Cardinality(Holders(e))
      BY <3>1, HoldersBound, FS_Subset
    <3> QED
      BY <3>2, FS_CardinalityType
  <2>3. done[e] + c <= N * (1 + u)
    BY DEF DInv, Counted
  <2>4. IF done[e] > 0 THEN v = u + 1 ELSE v = u
    BY <1>3 DEF RInv, TypeOK
  <2> HIDE DEF c, d, u, v
  <2>5. /\ N * (1 + u) \in Nat /\ N * (1 + v) \in Nat /\ N * v \in Nat
        /\ N * (1 + v) = N * v + N
        /\ done[e] > 0 => N * (1 + u) = N * v
        /\ ~(done[e] > 0) => N * (1 + u) = N * (1 + v)
    BY <2>1, <2>4
  <2>6. done[e] + d <= N * (1 + v)
    BY <2>1, <2>2, <2>3, <2>5
  <2>7. done[e] <= N * v
    BY <2>1, <2>3, <2>5
  <2> QED
    BY <1>3, <2>1, <2>6, <2>7 DEF Counted, d, v
<1> QED
  BY <1>3, <1>4, <1>5, FinishedHolds DEF DInv

LEMMA DInvNext == RInv /\ DInv /\ [Next]_vars => DInv'
<1> SUFFICES ASSUME RInv, DInv, [Next]_vars PROVE DInv'
  OBVIOUS
<1>1. CASE UNCHANGED vars
  <2>1. \A e : Holders(e)' = Holders(e)
    BY <1>1 DEF vars, Holders
  <2>2. row' = row /\ done' = done /\ undone' = undone /\ req' = req
    BY <1>1 DEF vars, history
  <2>3. \A e \in Events : Counted(e)'
    BY <2>1, <2>2, Leaving DEF IsOpen
  <2> QED
    BY <2>2, <2>3 DEF DInv
<1>2. ASSUME NEW w \in Workers,
             \/ \E e \in Events : Deliver(w, e)
             \/ \E batch \in SUBSET Due : StartJob(w, batch)
             \/ JobTurns(w) \/ Lookup(w) \/ Get(w) \/ Record(w) \/ FindOrder(w)
             \/ Apply(w) \/ Complete(w) \/ HandleFailure(w) \/ Dies(w)
      PROVE  DInv'
  BY <1>2, DInvStarts, DInvReads, DInvHandles, DInvComplete, DInvHandleFailure, DInvDies
<1> QED
  BY <1>1, <1>2 DEF Next

LEMMA DInvBounds == RInv /\ DInv => DuplicatesBounded
<1> SUFFICES ASSUME RInv, DInv, NEW e \in Events
             PROVE  done[e] <= Cardinality(Workers) * (1 + undone[e])
  BY DEF DuplicatesBounded
<1> DEFINE c == Cardinality(Holders(e))
           m == N * (1 + undone[e])
<1>1. done[e] \in Nat /\ c \in Nat /\ m \in Nat /\ done[e] + c <= m
  <2>1. Cardinality(Holders(e)) \in Nat /\ N \in Nat
    BY HoldersBound
  <2> QED
    BY <2>1 DEF RInv, TypeOK, DInv, Counted
<1>2. m = Cardinality(Workers) * (1 + undone[e])
  BY DEF N
<1> HIDE DEF c, m
<1>3. done[e] <= m
  BY <1>1
<1> QED
  BY <1>2, <1>3

\* However often Square sends an event and the job retries it, and however
\* the workers overlap, each worker does it at most once for each time that it
\* was open: nobody starts on an event that is done.
THEOREM DoneAtMostOnceEach == Spec => []DuplicatesBounded
<1>1. RInv /\ DInv /\ [Next]_vars => DInv'
  BY DInvNext
<1> QED
  BY <1>1, InitDInv, AlwaysRInv, DInvBounds, PTL DEF Spec

=============================================================================
