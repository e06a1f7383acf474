---------------------------- MODULE SquareWebhook ----------------------------
(***************************************************************************)
(* backend/app/services/square_webhook_service.py with its tables in       *)
(* backend/app/models/webhook_event.py: events from Square are recorded,   *)
(* processed once, retried after a failure and given up after a number of  *)
(* attempts.  Each commit and each query is a step; a database session     *)
(* keeps the row it first read of an event, so later reads are not fresh.  *)
(***************************************************************************)
EXTENDS Integers, FiniteSets

CONSTANTS
    Events,         \* event ids of Square
    Orders,
    NoOrder,        \* the order of an event that belongs to none
    Workers,        \* webhook requests and runs of the retry job
    Kind,           \* Kind[e]: the event's type
    Payload,        \* Payload[e]: the payment or refund status it carries
    OrderOf,        \* OrderOf[e]: the order that was paid by the event's payment
    Hosted,         \* the orders that wait for a hosted checkout to be paid
    MaxAttempts,    \* max_attempts of an event (5 in the code)
    MaxDeliveries   \* bound: how often Square sends an event

Kinds == {"payment.created", "payment.updated", "payment.failed",
          "refund.created", "refund.updated", "other"}
PaymentStatuses == {"PENDING", "COMPLETED", "FAILED", "REFUNDED"}

ASSUME WebhookAssumption ==
    /\ NoOrder \notin Orders
    /\ Kind \in [Events -> Kinds]
    /\ Payload \in [Events -> {"PENDING", "COMPLETED", "FAILED"}]
    /\ OrderOf \in [Events -> Orders \cup {NoOrder}]
    /\ Hosted \subseteq Orders
    /\ MaxAttempts \in Nat \ {0}
    /\ MaxDeliveries \in Nat
    /\ IsFiniteSet(Workers)

VARIABLES
    row,         \* webhook_events: status ("none" without a row) and attempt_count
    deadLetters, \* rows of webhook_dead_letters for each event
    done,        \* how often the processing of each event came to its end, each
                 \* time with the handler's log rows
    orders,      \* each order's refunded flag (orders.status), payment_status and
                 \* whether payment_id holds the card payment
    deliveries,  \* how often each event was sent
    req,         \* what each worker does
    undone,      \* history: how often an event that was done was set back to failed
    abandoned    \* history: the events whose worker stopped in the middle of an attempt

history == <<undone, abandoned>>
vars == <<row, deadLetters, done, orders, deliveries, req, history>>
db == <<row, deadLetters, done, orders>>

NoRow == [status |-> "none", attempts |-> 0]
NothingRead == [refunded |-> FALSE, payment |-> "PENDING", linked |-> FALSE]

\* loaded holds the rows of webhook_events in the worker's database session;
\* kept, for each order, the row that an earlier event of the batch left there.
Idle == [pc |-> "idle", job |-> FALSE, batch |-> {}, event |-> "none",
         loaded |-> [e \in Events |-> NoRow], kept |-> [o \in Orders |-> {}],
         found |-> FALSE, order |-> NothingRead]

Active(w) == req[w].pc # "idle"
Becomes(w, r) == req' = [req EXCEPT ![w] = r]

Init ==
    /\ row = [e \in Events |-> NoRow]
    /\ deadLetters = [e \in Events |-> 0]
    /\ done = [e \in Events |-> 0]
    /\ orders = [o \in Orders |-> [NothingRead EXCEPT !.linked = o \notin Hosted]]
    /\ deliveries = [e \in Events |-> 0]
    /\ req = [w \in Workers |-> Idle]
    /\ undone = [e \in Events |-> 0]
    /\ abandoned = {}

-----------------------------------------------------------------------------
\* Square sends an event: once, again, or after a later one.
Deliver(w, e) ==
    /\ ~Active(w)
    /\ deliveries[e] < MaxDeliveries
    /\ deliveries' = [deliveries EXCEPT ![e] = @ + 1]
    /\ Becomes(w, [Idle EXCEPT !.pc = "lookup", !.event = e])
    /\ UNCHANGED <<db, history>>

\* retry_failed_webhooks selects failed events that are due.  The rows stay
\* in the session for the whole batch.
Due == {e \in Events : row[e].status = "failed" /\ row[e].attempts < MaxAttempts}

StartJob(w, batch) ==
    /\ ~Active(w)
    /\ batch # {}
    /\ Becomes(w, [Idle EXCEPT !.pc = "next", !.job = TRUE, !.batch = batch,
                     !.loaded = [e \in Events |-> IF e \in batch THEN row[e] ELSE NoRow]])
    /\ UNCHANGED <<db, deliveries, history>>

\* The job turns to the next event of its batch, or ends.
JobTurns(w) ==
    /\ req[w].pc = "next"
    /\ \/ \E e \in req[w].batch :
            Becomes(w, [req[w] EXCEPT !.pc = "lookup", !.event = e, !.batch = @ \ {e}])
       \/ req[w].batch = {} /\ Becomes(w, Idle)
    /\ UNCHANGED <<db, deliveries, history>>

Finishes(w) == Becomes(w, IF req[w].job THEN [req[w] EXCEPT !.pc = "next", !.event = "none",
                                                            !.found = FALSE, !.order = NothingRead]
                          ELSE Idle)

\* The event as a query of this worker returns it.
Seen(w) == LET e == req[w].event
           IN  IF req[w].loaded[e] = NoRow THEN row[e] ELSE req[w].loaded[e]

\* process_webhook skips an event that is done or in progress.
AnsweredInProgress(status) == status = "processing"
Answered(status) == status \in {"completed", "processing"}

Lookup(w) ==
    /\ req[w].pc = "lookup"
    /\ IF Answered(Seen(w).status)
       THEN Finishes(w)
       ELSE Becomes(w, [req[w] EXCEPT !.pc = "get", !.loaded[req[w].event] = Seen(w)])
    /\ UNCHANGED <<db, deliveries, history>>

\* _create_or_update_event queries the event again ...
Get(w) ==
    /\ req[w].pc = "get"
    /\ Becomes(w, [req[w] EXCEPT !.pc = "record", !.loaded[req[w].event] = Seen(w)])
    /\ UNCHANGED <<db, deliveries, history>>

\* ... and commits an attempt: a new row, or the row that was found, counted
\* from what was read.  A second INSERT of an event breaks the unique index.
Record(w) ==
    LET e == req[w].event
        attempt == [status |-> "processing", attempts |-> req[w].loaded[e].attempts + 1]
    IN  /\ req[w].pc = "record"
        /\ IF req[w].loaded[e] = NoRow /\ row[e] # NoRow
           THEN Finishes(w) /\ UNCHANGED row
           ELSE /\ row' = [row EXCEPT ![e] =
                    IF req[w].loaded[e].status = "processing"
                    THEN [@ EXCEPT !.attempts = attempt.attempts] ELSE attempt]
                /\ Becomes(w, [req[w] EXCEPT !.pc = "find", !.loaded[e] = attempt])
        /\ UNCHANGED <<deadLetters, done, orders, deliveries, history>>

-----------------------------------------------------------------------------
\* The handlers.  Payments find an order by payment id or by Square order
\* id, refunds by payment id only; payment.created asks for no order.
Finds(e) ==
    /\ OrderOf[e] # NoOrder
    /\ \/ Kind[e] \in {"payment.updated", "payment.failed"}
       \/ Kind[e] = "refund.created" /\ orders[OrderOf[e]].linked
       \/ Kind[e] = "refund.updated" /\ Payload[e] = "COMPLETED" /\ orders[OrderOf[e]].linked

\* The session may still hold the order from earlier in its batch (until it
\* is garbage collected), and then the query does not refresh it.
FindOrder(w) ==
    LET e == req[w].event
        o == OrderOf[e]
    IN  /\ req[w].pc = "find"
        /\ \E read \in IF Finds(e) THEN {orders[o]} \cup req[w].kept[o] ELSE {NothingRead} :
             Becomes(w, [req[w] EXCEPT !.pc = "apply", !.found = Finds(e), !.order = read])
        /\ UNCHANGED <<db, deliveries, history>>

\* The order as the handler leaves it.
RefundCreated(e) == Kind[e] = "refund.created" /\ Payload[e] = "COMPLETED"
RefundCompleted(e) ==
    Kind[e] \in {"refund.created", "refund.updated"} /\ Payload[e] = "COMPLETED"
EventType(e) == Kind[e]
NewStatus(e) == Payload[e]

PaymentUpdated(e, o) == [o EXCEPT !.payment = NewStatus(e), !.linked = TRUE]
PaymentFailed(o) == [o EXCEPT !.payment = "FAILED"]
Refunded(o) == [o EXCEPT !.refunded = TRUE, !.payment = "REFUNDED"]

Handled(e, o) ==
    CASE Kind[e] = "payment.updated" -> PaymentUpdated(e, o)
      [] Kind[e] = "payment.failed"  -> PaymentFailed(o)
      [] RefundCompleted(e)          -> Refunded(o)
      [] OTHER                       -> o

\* The columns that differ from what was read are written and committed.
Updated(current, read, new) ==
    [f \in DOMAIN current |-> IF new[f] = read[f] THEN current[f] ELSE new[f]]

Apply(w) ==
    LET e == req[w].event
        o == OrderOf[e]
        new == Handled(e, req[w].order)
    IN  /\ req[w].pc = "apply"
        /\ IF req[w].found
           THEN /\ orders' = [orders EXCEPT ![o] = Updated(@, req[w].order, new)]
                /\ Becomes(w, [req[w] EXCEPT !.pc = "complete",
                                 !.kept[o] = IF req[w].job THEN {new} ELSE {}])
           ELSE /\ Becomes(w, [req[w] EXCEPT !.pc = "complete"])
                /\ UNCHANGED orders
        /\ UNCHANGED <<row, deadLetters, done, deliveries, history>>

\* _mark_completed commits the log rows with the event's new status.
Complete(w) ==
    LET e == req[w].event
    IN  /\ req[w].pc = "complete"
        /\ row' = [row EXCEPT ![e].status = "completed"]
        /\ done' = [done EXCEPT ![e] = @ + 1]
        /\ Finishes(w)
        /\ UNCHANGED <<deadLetters, orders, deliveries, history>>

\* A handler raises before it commits (two orders match, a malformed
\* payload), and _handle_failure schedules a retry or gives up.
OneMoreRetry(attempts) == attempts <= MaxAttempts
RetriesLeft(attempts) == attempts < MaxAttempts

HandleFailure(w) ==
    LET e == req[w].event
        again == RetriesLeft(req[w].loaded[e].attempts)
    IN  /\ req[w].pc = "find"
        /\ row' = [row EXCEPT ![e].status = IF again THEN "failed" ELSE "dead_letter"]
        /\ deadLetters' = IF again THEN deadLetters ELSE [deadLetters EXCEPT ![e] = @ + 1]
        /\ Finishes(w)
        /\ undone' = IF done[e] > 0 THEN [undone EXCEPT ![e] = @ + 1] ELSE undone
        /\ UNCHANGED <<done, orders, deliveries, abandoned>>

\* The process stops, or a commit fails: the session is then unusable, and
\* neither _handle_failure nor the rest of a batch writes anything.
Attempting(w) == req[w].pc \in {"find", "apply", "complete"}
Dies(w) ==
    /\ Active(w)
    /\ Becomes(w, Idle)
    /\ abandoned' = IF Attempting(w) THEN abandoned \cup {req[w].event} ELSE abandoned
    /\ UNCHANGED <<db, deliveries, undone>>

Next ==
    \E w \in Workers :
        \/ \E e \in Events : Deliver(w, e)
        \/ \E batch \in SUBSET Due : StartJob(w, batch)
        \/ JobTurns(w) \/ Lookup(w) \/ Get(w) \/ Record(w) \/ FindOrder(w)
        \/ Apply(w) \/ Complete(w) \/ HandleFailure(w) \/ Dies(w)

Spec == Init /\ [][Next]_vars

-----------------------------------------------------------------------------
Rows == [status : {"none", "processing", "completed", "failed", "dead_letter"},
         attempts : Nat]
OrderRows == [refunded : BOOLEAN, payment : PaymentStatuses, linked : BOOLEAN]
Request ==
    [pc : {"idle", "next", "lookup", "get", "record", "find", "apply", "complete"},
     job : BOOLEAN, batch : SUBSET Events, event : Events \cup {"none"},
     loaded : [Events -> Rows], kept : [Orders -> SUBSET OrderRows],
     found : BOOLEAN, order : OrderRows]

TypeOK ==
    /\ row \in [Events -> Rows]
    /\ deadLetters \in [Events -> Nat]
    /\ done \in [Events -> Nat]
    /\ orders \in [Orders -> OrderRows]
    /\ deliveries \in [Events -> 0..MaxDeliveries]
    /\ req \in [Workers -> Request]
    /\ undone \in [Events -> Nat]
    /\ abandoned \subseteq Events

\* square_webhook_service.py:4 "Idempotency tracking (prevent duplicate
\* processing)": a lookup and the attempt recorded after it are not one step,
\* so workers that overlap may each process an event; but however often it is
\* sent or retried, nobody starts on an event that is done.  It is done at most
\* once by each worker, and again only when a late failure sets it back.
DuplicatesBounded ==
    \A e \in Events : done[e] <= Cardinality(Workers) * (1 + undone[e])

\* No event that was recorded is lost, however workers overlap on it: it is
\* done, or a dead letter tells of it, or a retry is due, or a worker is at it.
\* Only a worker that stops in the middle of an attempt leaves one behind.
NothingLost ==
    \A e \in Events : row[e].status # "none" =>
        \/ done[e] > 0
        \/ deadLetters[e] > 0
        \/ e \in Due
        \/ \E w \in Workers : Attempting(w) /\ req[w].event = e
        \/ e \in abandoned

\* A refund that Square reported complete shows on the order it belongs to,
\* whatever other events of the payment come before, after or meanwhile.  An
\* order whose hosted checkout was not linked to its payment is left out.
RefundsReachOrders ==
    \A e \in Events :
        (/\ row[e].status = "completed"
         /\ Kind[e] \in {"refund.created", "refund.updated"}
         /\ Payload[e] = "COMPLETED"
         /\ OrderOf[e] \in Orders \ Hosted) => orders[OrderOf[e]].refunded
=============================================================================
