------------------------------ MODULE Payments ------------------------------
(***************************************************************************)
(* backend/app/api/v1/payments.py with backend/app/services/               *)
(* square_payment.py: card payments and hosted checkouts, and the manual   *)
(* orders of backend/app/api/v1/orders.py that share their order numbers.  *)
(* A request counts the day's orders to choose a number, talks to Square   *)
(* under an idempotency key, and only then stores its order.  The orders   *)
(* are those of one shop on one day.                                       *)
(***************************************************************************)
EXTENDS Integers, FiniteSets

CONSTANTS
    Purchases,      \* what customers and the administrator set out to order
    Kind,           \* Kind[c]: how the purchase c is paid
    Keyed,          \* the purchases whose client sends an idempotency_key
    Workers,
    MaxSubmissions, \* bound: how often each purchase is submitted
    MAX_RETRIES     \* calls of Square in one card payment (3 in the code)

Kinds == {"card", "hosted", "manual"}

ASSUME PaymentsAssumption ==
    /\ Kind \in [Purchases -> Kinds]
    /\ Keyed \subseteq Purchases
    /\ MaxSubmissions \in [Purchases -> Nat]
    /\ MAX_RETRIES \in Nat \ {0}

VARIABLES
    orders,      \* orders: order_number, what payment_id holds, payment_status
    payments,    \* the payments Square took, by key and by the request that asked
    links,       \* the payment links Square made, by key and order number
    offered,     \* the keys of the links that customers were given
    submissions, \* how often each purchase was submitted
    req          \* the request each worker runs

vars == <<orders, payments, links, offered, submissions, req>>
square == <<payments, links>>

NoPayment == [of |-> "none", key |-> [purchase |-> "none", submission |-> 0]]
Idle == [pc |-> "idle", purchase |-> "none", submission |-> 0, number |-> 0, tries |-> 0]

Active(w) == req[w].pc # "idle"
Becomes(w, r) == req' = [req EXCEPT ![w] = r]
Goes(w, pc) == Becomes(w, [req[w] EXCEPT !.pc = pc])
Ends(w) == Becomes(w, Idle)

Init ==
    /\ orders = {}
    /\ payments = {}
    /\ links = {}
    /\ offered = {}
    /\ submissions = [c \in Purchases |-> 0]
    /\ req = [w \in Workers |-> Idle]

-----------------------------------------------------------------------------
\* A purchase is submitted: once, or again by an impatient client.
Submit(w, c) ==
    /\ ~Active(w)
    /\ submissions[c] < MaxSubmissions[c]
    /\ submissions' = [submissions EXCEPT ![c] = @ + 1]
    /\ Becomes(w, [Idle EXCEPT !.pc = "number", !.purchase = c,
                     !.submission = submissions[c] + 1])
    /\ UNCHANGED <<orders, square, offered>>

\* _next_order_number: the day's orders are counted.
NumberPastRequests == Cardinality(orders) + Cardinality({w \in Workers : Active(w)})
NextNumber == Cardinality(orders) + 1

Number(w) ==
    LET kind == Kind[req[w].purchase]
    IN  /\ req[w].pc = "number"
        /\ Becomes(w, [req[w] EXCEPT !.number = NextNumber,
                 !.pc = CASE kind = "card" -> "charge" [] kind = "hosted" -> "link"
                          [] kind = "manual" -> "store"])
        /\ UNCHANGED <<orders, square, offered, submissions>>

\* The client's idempotency_key, or one made for this request; every call of
\* Square that the request makes carries it.
KeyOfRequest(w) == [purchase |-> req[w].purchase, submission |-> req[w].submission]
Key(w) == [purchase |-> req[w].purchase,
           submission |-> IF req[w].purchase \in Keyed THEN 0 ELSE req[w].submission]

\* Square takes a payment unless it has one under the key.
Charged(w) ==
    IF \E p \in payments : p.key = Key(w) THEN payments
    ELSE payments \cup {[key |-> Key(w), purchase |-> req[w].purchase,
                         submission |-> req[w].submission]}

Charge(w) ==
    /\ req[w].pc = "charge"
    /\ payments' = Charged(w)
    /\ Goes(w, "store")
    /\ UNCHANGED <<orders, links, offered, submissions>>

\* A retriable error: no answer, the payment taken or not, and another try.
OneTooMany(tries) == tries < MAX_RETRIES
TriesLeft(tries) == tries < MAX_RETRIES - 1

ChargeAgain(w) ==
    /\ req[w].pc = "charge"
    /\ TriesLeft(req[w].tries)
    /\ payments' \in {payments, Charged(w)}
    /\ Becomes(w, [req[w] EXCEPT !.tries = @ + 1])
    /\ UNCHANGED <<orders, links, offered, submissions>>

\* Square declines, or the last try stays without an answer: an error 402.
StoredAnyway(w) == Goes(w, "store")
PaymentFailed(w) == Ends(w)

ChargeFails(w) ==
    /\ req[w].pc = "charge"
    /\ payments' \in {payments, Charged(w)}
    /\ PaymentFailed(w)
    /\ UNCHANGED <<orders, links, offered, submissions>>

\* create_payment_link.  Square repeats its answer for a key, and refuses the
\* key for another order number, which the link's name contains.
Link(w) == [key |-> Key(w), number |-> req[w].number]
Linkable(w) == \A l \in links : l.key = Key(w) => l = Link(w)

CreateLink(w) ==
    /\ req[w].pc = "link"
    /\ Linkable(w)
    /\ links' = links \cup {Link(w)}
    /\ Goes(w, "store")
    /\ UNCHANGED <<orders, payments, offered, submissions>>

\* A refusal or a lost answer: there is no second try, an error 502.
LinkFails(w) ==
    /\ req[w].pc = "link"
    /\ links' \in {links, IF Linkable(w) THEN links \cup {Link(w)} ELSE links}
    /\ Ends(w)
    /\ UNCHANGED <<orders, payments, offered, submissions>>

\* The order as it is inserted: a card order holds its payment, a hosted one
\* the link's Square order until it is paid.
OrderOf(w) ==
    LET kind == Kind[req[w].purchase]
    IN  [number |-> req[w].number, kind |-> kind,
         status |-> CASE kind = "card" -> "COMPLETED"
                      [] kind = "hosted" -> "PENDING_HOSTED_CHECKOUT"
                      [] kind = "manual" -> "pending",
         payment |-> CASE kind = "card" -> [of |-> "payment", key |-> Key(w)]
                       [] kind = "hosted" -> [of |-> "link", key |-> Key(w)]
                       [] kind = "manual" -> NoPayment]

NumberTaken(w) == \E o \in orders : o.number = req[w].number

Store(w) ==
    /\ req[w].pc = "store"
    /\ ~NumberTaken(w)
    /\ orders' = orders \cup {OrderOf(w)}
    /\ IF Kind[req[w].purchase] = "hosted" THEN Goes(w, "offer") ELSE Ends(w)
    /\ UNCHANGED <<square, offered, submissions>>

\* The order number's unique index refuses the order.  A card payment answers
\* with success all the same, a hosted checkout with an error.
OfferedAnyway(w) == IF Kind[req[w].purchase] = "hosted" THEN Goes(w, "offer") ELSE Ends(w)
NotStored(w) == Ends(w)

StoreFails(w) ==
    /\ req[w].pc = "store"
    /\ NumberTaken(w)
    /\ NotStored(w)
    /\ UNCHANGED <<orders, square, offered, submissions>>

\* The customer gets the link ...
Offer(w) ==
    /\ req[w].pc = "offer"
    /\ offered' = offered \cup {Key(w)}
    /\ Ends(w)
    /\ UNCHANGED <<orders, square, submissions>>

\* ... and pays it at Square, once.
PayLink(k) ==
    /\ k \in offered
    /\ \A p \in payments : p.key # k
    /\ payments' = payments \cup {[key |-> k, purchase |-> k.purchase,
                                   submission |-> k.submission]}
    /\ UNCHANGED <<orders, links, offered, submissions, req>>

\* The query of a payment.updated event: by payment id or by Square order id.
MatchesById(p) == {o \in orders : o.payment = [of |-> "payment", key |-> p.key]}
Matches(p) == {o \in orders : o.payment.of # "none" /\ o.payment.key = p.key}

\* The event marks the one order that it finds; with two, its handler raises.
PaymentEvent(p) ==
    \E o \in orders :
        /\ Matches(p) = {o}
        /\ orders' = (orders \ {o}) \cup
             {[o EXCEPT !.status = "COMPLETED", !.payment.of = "payment"]}
        /\ UNCHANGED <<square, offered, submissions, req>>

\* The process stops, the database is lost, or the client goes away.
Dies(w) ==
    /\ Active(w)
    /\ Ends(w)
    /\ UNCHANGED <<orders, square, offered, submissions>>

Next ==
    \/ \E w \in Workers :
         \/ \E c \in Purchases : Submit(w, c)
         \/ Number(w) \/ Charge(w) \/ ChargeAgain(w) \/ ChargeFails(w)
         \/ CreateLink(w) \/ LinkFails(w) \/ Store(w) \/ StoreFails(w) \/ Offer(w) \/ Dies(w)
    \/ \E k \in offered : PayLink(k)
    \/ \E p \in payments : PaymentEvent(p)

Spec == Init /\ [][Next]_vars

-----------------------------------------------------------------------------
Keys == [purchase : Purchases, submission : Nat]
Order ==
    [number : Nat \ {0}, kind : Kinds,
     status : {"pending", "PENDING_HOSTED_CHECKOUT", "COMPLETED"},
     payment : [of : {"payment", "link"}, key : Keys] \cup {NoPayment}]
Request ==
    [pc : {"idle", "number", "charge", "link", "store", "offer"},
     purchase : Purchases \cup {"none"}, submission : Nat,
     number : Nat, tries : 0..(MAX_RETRIES - 1)]

TypeOK ==
    /\ orders \subseteq Order
    /\ payments \subseteq [key : Keys, purchase : Purchases, submission : Nat]
    /\ links \subseteq [key : Keys, number : Nat]
    /\ offered \subseteq Keys
    /\ submissions \in [Purchases -> Nat]
    /\ req \in [Workers -> Request]

\* No request takes two payments, however often it calls Square again after a
\* lost answer; and no purchase whose client sends a key takes two, however
\* often the client submits it again.
ChargedOnce ==
    \A p, q \in payments :
        (p.purchase = q.purchase /\ (p.purchase \in Keyed \/ p.submission = q.submission))
            => p = q

\* An order is stored as paid, or becomes so, only if Square has a payment
\* for it: a request whose payment failed or was left unanswered stores none.
PaidOrdersArePaid ==
    \A o \in orders :
        o.status = "COMPLETED" => \E p \in payments : p.key = o.payment.key

\* Order numbers run from 1 without a gap.  Counting relies on it: a gap
\* would make the next number one that is taken, for every later request of
\* the day, after its customer has been charged.
NumbersWithoutGaps == {o.number : o \in orders} = 1..Cardinality(orders)

\* What a customer pays on Square's page belongs to one stored order, which
\* Square's event finds, also if requests fought for the order's number.
HostedPaymentsFindTheirOrder ==
    \A p \in payments :
        Kind[p.purchase] = "hosted" => Cardinality(Matches(p)) = 1
=============================================================================
