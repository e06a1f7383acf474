--------------------------- MODULE PaymentsProofs ---------------------------
(***************************************************************************)
(* Proofs about Payments, for every value of its constants: order numbers  *)
(* without gaps, one charge, paid orders that are paid, and one order for  *)
(* what is paid on Square's page.                                          *)
(***************************************************************************)
EXTENDS Payments, FiniteSetTheorems, TLAPS

\* A request in flight is for a purchase, and where it stands tells its kind.
WellPlaced(r) ==
    /\ r.pc # "idle" => r.purchase \in Purchases
    /\ r.pc = "charge" => Kind[r.purchase] = "card"
    /\ r.pc \in {"link", "offer"} => Kind[r.purchase] = "hosted"
    /\ r.pc \in {"charge", "link", "store"} => r.number # 0
RequestsInPlace == \A w \in Workers : WellPlaced(req[w])

\* What a request counted, however long ago, is no more than what is stored.
CountedNumbers ==
    \A w \in Workers :
        req[w].pc \in {"charge", "link", "store"} => req[w].number <= Cardinality(orders) + 1

NumberInv ==
    /\ IsFiniteSet(orders)
    /\ \A a, b \in orders : a.number = b.number => a = b
    /\ CountedNumbers
    /\ NumbersWithoutGaps

\* The keys of payments and offered links are those of their requests, and a
\* key has one payment.
KeyOf(c, n) == [purchase |-> c, submission |-> IF c \in Keyed THEN 0 ELSE n]
KeyInv ==
    /\ \A p \in payments : p.key = KeyOf(p.purchase, p.submission)
    /\ \A p, q \in payments : p.key = q.key => p = q
    /\ \A k \in offered : k = KeyOf(k.purchase, k.submission)

\* A card payment is taken before its order is about to be stored.
PaidInv ==
    /\ PaidOrdersArePaid
    /\ \A w \in Workers :
         (req[w].pc = "store" /\ Kind[req[w].purchase] = "card")
             => \E p \in payments : p.key = Key(w)

\* A link's key belongs to one order number; the order of a hosted checkout
\* has that link and that number, before the link is offered, and only what
\* is offered is paid.
Holds(o, k) == o.payment.of # "none" /\ o.payment.key = k
HostedInv ==
    /\ \A l, m \in links : l.key = m.key => l = m
    /\ \A w \in Workers :
         (req[w].pc = "store" /\ Kind[req[w].purchase] = "hosted") => Link(w) \in links
    /\ \A o \in orders : o.payment.of # "none" => o.kind = Kind[o.payment.key.purchase]
    /\ \A o \in orders :
         o.kind = "hosted" => [key |-> o.payment.key, number |-> o.number] \in links
    /\ \A w \in Workers : req[w].pc = "offer" => \E o \in orders : Holds(o, Key(w))
    /\ \A k \in offered : \E o \in orders : Holds(o, k)
    /\ \A p \in payments : Kind[p.purchase] = "hosted" => p.key \in offered

-----------------------------------------------------------------------------
LEMMA IdleType == PaymentsAssumption => Idle \in Request /\ WellPlaced(Idle)
BY DEF Idle, Request, WellPlaced, PaymentsAssumption

LEMMA TypesInit == PaymentsAssumption /\ Init => TypeOK /\ RequestsInPlace
BY IdleType DEF Init, TypeOK, RequestsInPlace, PaymentsAssumption

\* The keys that a request uses, and what it asks Square for under them.
LEMMA KeyType ==
    ASSUME PaymentsAssumption, TypeOK, RequestsInPlace, NEW w \in Workers, Active(w)
    PROVE  /\ Key(w) \in Keys
           /\ Charged(w) \subseteq [key : Keys, purchase : Purchases, submission : Nat]
BY DEF Key, Keys, TypeOK, RequestsInPlace, WellPlaced, Request, Active, Charged

\* The request that Submit starts.
LEMMA SubmittedType ==
    ASSUME PaymentsAssumption, NEW c \in Purchases, NEW n \in Nat
    PROVE  [Idle EXCEPT !.pc = "number", !.purchase = c, !.submission = n] \in Request
<1>1. \A r \in Request : [r EXCEPT !.pc = "number", !.purchase = c, !.submission = n] \in Request
    BY DEF Request
<1> QED BY <1>1, IdleType

LEMMA TypesNext ==
    ASSUME PaymentsAssumption, TypeOK, RequestsInPlace, IsFiniteSet(orders), [Next]_vars
    PROVE  TypeOK' /\ RequestsInPlace'
<1> USE DEF TypeOK, RequestsInPlace, WellPlaced, Request, Active, Becomes, Goes, Ends, square
<1>0. Idle \in Request /\ WellPlaced(Idle)
    BY IdleType
<1>1. ASSUME NEW w \in Workers, NEW c \in Purchases, Submit(w, c)
      PROVE  TypeOK' /\ RequestsInPlace'
  <2> DEFINE r == [Idle EXCEPT !.pc = "number", !.purchase = c,
                               !.submission = submissions[c] + 1]
  <2>1. submissions[c] + 1 \in Nat
      OBVIOUS
  <2>2. r \in Request /\ WellPlaced(r)
    <3>1. r \in Request
        BY <2>1, SubmittedType, Zenon
    <3>2. r.pc = "number" /\ r.purchase = c
        BY <1>0
    <3> QED BY <3>1, <3>2
  <2>3. req' = [req EXCEPT ![w] = r]
      BY <1>1, Zenon DEF Submit
  <2>4. submissions' \in [Purchases -> Nat]
      BY <1>1, <2>1 DEF Submit
  <2> HIDE DEF r
  <2>5. req' \in [Workers -> Request] /\ \A v \in Workers : WellPlaced(req'[v])
      BY <2>2, <2>3
  <2> QED BY <1>1, <2>4, <2>5 DEF Submit
<1>2. ASSUME NEW w \in Workers, Number(w) PROVE TypeOK' /\ RequestsInPlace'
  <2>1. NextNumber \in Nat \ {0}
      BY FS_CardinalityType DEF NextNumber
  <2>2. Kind[req[w].purchase] \in Kinds
      BY <1>2 DEF Number, PaymentsAssumption
  <2> DEFINE kind == Kind[req[w].purchase]
             pc == CASE kind = "card" -> "charge" [] kind = "hosted" -> "link"
                     [] kind = "manual" -> "store"
  <2>3. /\ pc \in {"charge", "link", "store"}
        /\ pc = "charge" => kind = "card"
        /\ pc = "link" => kind = "hosted"
      BY <2>2 DEF Kinds
  <2>4. req' = [req EXCEPT ![w] = [req[w] EXCEPT !.number = NextNumber, !.pc = pc]]
      BY <1>2, Zenon DEF Number
  <2> DEFINE r == [req[w] EXCEPT !.number = NextNumber, !.pc = pc]
  <2>5. req[w] \in Request /\ req[w].purchase \in Purchases
      BY <1>2 DEF Number
  <2> HIDE DEF pc
  <2>6. r \in Request /\ WellPlaced(r)
      BY <2>1, <2>3, <2>5
  <2> HIDE DEF r
  <2>7. req' \in [Workers -> Request] /\ \A v \in Workers : WellPlaced(req'[v])
      BY <2>4, <2>6 DEF r
  <2> QED BY <1>2, <2>7 DEF Number
<1>3. ASSUME NEW w \in Workers, Charge(w) PROVE TypeOK' /\ RequestsInPlace'
    BY <1>3, KeyType DEF Charge
<1>4. ASSUME NEW w \in Workers, ChargeAgain(w) PROVE TypeOK' /\ RequestsInPlace'
    BY <1>4, KeyType DEF ChargeAgain, TriesLeft, PaymentsAssumption
<1>5. ASSUME NEW w \in Workers, ChargeFails(w) PROVE TypeOK' /\ RequestsInPlace'
    BY <1>5, <1>0, KeyType DEF ChargeFails, PaymentFailed
<1>6. ASSUME NEW w \in Workers, CreateLink(w) PROVE TypeOK' /\ RequestsInPlace'
    BY <1>6, KeyType DEF CreateLink, Link
<1>7. ASSUME NEW w \in Workers, LinkFails(w) PROVE TypeOK' /\ RequestsInPlace'
    BY <1>7, <1>0, KeyType DEF LinkFails, Link
<1>8. ASSUME NEW w \in Workers, Store(w) PROVE TypeOK' /\ RequestsInPlace'
  <2>1. Kind[req[w].purchase] \in Kinds /\ Key(w) \in Keys
      BY <1>8, KeyType DEF Store, PaymentsAssumption
  <2>2. OrderOf(w) \in Order
      BY <1>8, <2>1 DEF Store, OrderOf, Order, Kinds, NoPayment
  <2> QED BY <1>8, <1>0, <2>1, <2>2 DEF Store
<1>9. ASSUME NEW w \in Workers, StoreFails(w) PROVE TypeOK' /\ RequestsInPlace'
    BY <1>9, <1>0 DEF StoreFails, NotStored
<1>10. ASSUME NEW w \in Workers, Offer(w) PROVE TypeOK' /\ RequestsInPlace'
    BY <1>10, <1>0, KeyType DEF Offer
<1>11. ASSUME NEW w \in Workers, Dies(w) PROVE TypeOK' /\ RequestsInPlace'
    BY <1>11, <1>0 DEF Dies
<1>12. ASSUME NEW k \in offered, PayLink(k) PROVE TypeOK' /\ RequestsInPlace'
    BY <1>12 DEF PayLink, Keys
<1>13. ASSUME NEW p \in payments, PaymentEvent(p) PROVE TypeOK' /\ RequestsInPlace'
  <2>1. PICK o \in orders :
          /\ Matches(p) = {o}
          /\ orders' = (orders \ {o}) \cup
               {[o EXCEPT !.status = "COMPLETED", !.payment.of = "payment"]}
          /\ UNCHANGED <<square, offered, submissions, req>>
      BY <1>13 DEF PaymentEvent
  <2>2. o.payment \in [of : {"payment", "link"}, key : Keys]
      BY <2>1 DEF Matches, Order, NoPayment
  <2>3. [o EXCEPT !.status = "COMPLETED", !.payment.of = "payment"] \in Order
      BY <2>2 DEF Order
  <2> QED BY <2>1, <2>3
<1>14. CASE UNCHANGED vars
    BY <1>14 DEF vars
<1> QED BY <1>1, <1>2, <1>3, <1>4, <1>5, <1>6, <1>7, <1>8, <1>9, <1>10, <1>11, <1>12, <1>13,
           <1>14 DEF Next

-----------------------------------------------------------------------------
\* Order numbers.  The new order's number is what its request counted, so at
\* most one more than the orders there are; and it is not taken.
LEMMA StoreKeepsNumbers ==
    ASSUME TypeOK, RequestsInPlace, NumberInv, NEW w \in Workers, Store(w)
    PROVE  NumberInv'
<1> DEFINE n == Cardinality(orders)
           o == OrderOf(w)
<1>1. n \in Nat /\ IsFiniteSet(orders)
    BY FS_CardinalityType DEF NumberInv
<1>2. o.number = req[w].number /\ \A a \in orders : a.number # o.number
    BY DEF Store, NumberTaken, OrderOf
<1>3. orders' = orders \cup {o} /\ o \notin orders
    BY <1>2 DEF Store
<1>4. IsFiniteSet(orders') /\ Cardinality(orders') = n + 1
    BY <1>1, <1>3, FS_AddElement
<1>5. {a.number : a \in orders} = 1..n
    BY DEF NumberInv, NumbersWithoutGaps
<1>6. o.number = n + 1
  <2>1. o.number \in Nat /\ o.number # 0 /\ o.number <= n + 1
      BY <1>2 DEF Store, TypeOK, Request, RequestsInPlace, WellPlaced, NumberInv, CountedNumbers
  <2>2. o.number \notin 1..n
      BY <1>2, <1>5
  <2> QED BY <1>1, <2>1, <2>2
<1>7. NumbersWithoutGaps'
  <2>1. {a.number : a \in orders'} = (1..n) \cup {n + 1}
      BY <1>3, <1>5, <1>6
  <2>2. (1..n) \cup {n + 1} = 1..(n + 1)
      BY <1>1
  <2> QED BY <1>4, <2>1, <2>2 DEF NumbersWithoutGaps
<1>8. \A a, b \in orders' : a.number = b.number => a = b
    BY <1>2, <1>3 DEF NumberInv
<1>9. CountedNumbers'
  <2> SUFFICES ASSUME NEW v \in Workers, req'[v].pc \in {"charge", "link", "store"}
               PROVE  req'[v].number <= (n + 1) + 1
      BY <1>4 DEF CountedNumbers
  <2>1. req'[v] = req[v]
      BY DEF Store, Goes, Ends, Becomes, Idle, TypeOK, Request
  <2>2. req[v].number <= n + 1 /\ req[v].number \in Nat
      BY <2>1 DEF NumberInv, CountedNumbers, TypeOK, Request
  <2> QED BY <1>1, <2>1, <2>2
<1> QED BY <1>4, <1>7, <1>8, <1>9 DEF NumberInv

\* An event replaces an order by one with the same number.
LEMMA EventKeepsNumbers ==
    ASSUME TypeOK, NumberInv, NEW p \in payments, PaymentEvent(p)
    PROVE  NumberInv'
<1>1. PICK o \in orders :
          /\ orders' = (orders \ {o}) \cup
               {[o EXCEPT !.status = "COMPLETED", !.payment.of = "payment"]}
          /\ UNCHANGED req
    BY DEF PaymentEvent
<1> DEFINE new == [o EXCEPT !.status = "COMPLETED", !.payment.of = "payment"]
           rest == orders \ {o}
<1>2. new.number = o.number
    BY DEF TypeOK, Order
<1>3. \A a \in rest : a.number # new.number
    BY <1>2 DEF NumberInv
<1>4. orders' = rest \cup {new} /\ new \notin rest
    BY <1>1, <1>3
<1> HIDE DEF new
<1>5. IsFiniteSet(orders) /\ IsFiniteSet(rest) /\ Cardinality(rest) = Cardinality(orders) - 1
    BY FS_RemoveElement DEF NumberInv
<1>6. IsFiniteSet(orders') /\ Cardinality(orders') = Cardinality(orders)
  <2>1. IsFiniteSet(rest \cup {new}) /\ Cardinality(rest \cup {new}) = Cardinality(rest) + 1
      BY <1>4, <1>5, FS_AddElement
  <2> QED BY <1>4, <1>5, <2>1, FS_CardinalityType
<1>7. {a.number : a \in orders'} = {a.number : a \in orders}
    BY <1>2, <1>4
<1>8. \A a, b \in orders' : a.number = b.number => a = b
    BY <1>3, <1>4 DEF NumberInv
<1> QED BY <1>1, <1>6, <1>7, <1>8 DEF NumberInv, CountedNumbers, NumbersWithoutGaps

\* Every other step leaves the orders alone; only Number counts them.
LEMMA NumbersNext ==
    ASSUME PaymentsAssumption, TypeOK, RequestsInPlace, NumberInv, [Next]_vars
    PROVE  NumberInv'
<1>1. ASSUME UNCHANGED orders,
             \A v \in Workers : req'[v].pc \in {"charge", "link", "store"} =>
                 \/ req[v].pc \in {"charge", "link", "store"} /\ req'[v].number = req[v].number
                 \/ req'[v].number = NextNumber
      PROVE  NumberInv'
  <2>1. Cardinality(orders) \in Nat
      BY FS_CardinalityType DEF NumberInv
  <2>2. CountedNumbers'
      BY <1>1, <2>1 DEF CountedNumbers, NumberInv, NextNumber
  <2> QED BY <1>1, <2>2 DEF NumberInv, NumbersWithoutGaps
<1> USE DEF TypeOK, Request, Becomes, Goes, Ends
<1>2. ASSUME NEW w \in Workers, NEW c \in Purchases, Submit(w, c) PROVE NumberInv'
    BY <1>1, <1>2 DEF Submit, Idle
<1>3. ASSUME NEW w \in Workers, Number(w) PROVE NumberInv'
    BY <1>1, <1>3 DEF Number
<1>4. ASSUME NEW w \in Workers, Charge(w) PROVE NumberInv'
    BY <1>1, <1>4 DEF Charge
<1>5. ASSUME NEW w \in Workers, ChargeAgain(w) PROVE NumberInv'
    BY <1>1, <1>5 DEF ChargeAgain
<1>6. ASSUME NEW w \in Workers, ChargeFails(w) PROVE NumberInv'
    BY <1>1, <1>6 DEF ChargeFails, PaymentFailed, Idle
<1>7. ASSUME NEW w \in Workers, CreateLink(w) PROVE NumberInv'
    BY <1>1, <1>7 DEF CreateLink
<1>8. ASSUME NEW w \in Workers, LinkFails(w) PROVE NumberInv'
    BY <1>1, <1>8 DEF LinkFails, Idle
<1>9. ASSUME NEW w \in Workers, StoreFails(w) PROVE NumberInv'
    BY <1>1, <1>9 DEF StoreFails, NotStored, Idle
<1>10. ASSUME NEW w \in Workers, Offer(w) PROVE NumberInv'
    BY <1>1, <1>10 DEF Offer, Idle
<1>11. ASSUME NEW w \in Workers, Dies(w) PROVE NumberInv'
    BY <1>1, <1>11 DEF Dies, Idle
<1>12. ASSUME NEW k \in offered, PayLink(k) PROVE NumberInv'
    BY <1>1, <1>12 DEF PayLink
<1>13. CASE UNCHANGED vars
    BY <1>1, <1>13 DEF vars
<1> QED BY <1>2, <1>3, <1>4, <1>5, <1>6, <1>7, <1>8, <1>9, <1>10, <1>11, <1>12, <1>13,
           StoreKeepsNumbers, EventKeepsNumbers DEF Next

-----------------------------------------------------------------------------
\* Asking Square for a payment under the request's key keeps keys and
\* payments in step.
LEMMA ChargedOrKnown ==
    ASSUME TypeOK, KeyInv, NEW w \in Workers, payments' \in {payments, Charged(w)},
           UNCHANGED offered
    PROVE  KeyInv'
<1>1. Key(w) = KeyOf(req[w].purchase, req[w].submission)
    BY DEF Key, KeyOf
<1>2. CASE payments' = payments
    BY <1>2 DEF KeyInv
<1>3. CASE payments' = Charged(w) /\ \E p \in payments : p.key = Key(w)
    BY <1>3 DEF KeyInv, Charged
<1>4. CASE payments' = Charged(w) /\ ~\E p \in payments : p.key = Key(w)
  <2> DEFINE new == [key |-> Key(w), purchase |-> req[w].purchase,
                     submission |-> req[w].submission]
  <2>1. payments' = payments \cup {new}
      BY <1>4 DEF Charged
  <2>2. new.key = KeyOf(new.purchase, new.submission) /\ \A p \in payments : p.key # new.key
      BY <1>1, <1>4
  <2> HIDE DEF new
  <2> QED BY <2>1, <2>2 DEF KeyInv
<1> QED BY <1>2, <1>3, <1>4

LEMMA KeysNext ==
    ASSUME TypeOK, KeyInv, [Next]_vars
    PROVE  KeyInv'
<1>1. CASE UNCHANGED <<payments, offered>>
    BY <1>1 DEF KeyInv
<1>2. ASSUME NEW w \in Workers, Charge(w) \/ ChargeAgain(w) \/ ChargeFails(w) PROVE KeyInv'
    BY <1>2, ChargedOrKnown DEF Charge, ChargeAgain, ChargeFails
<1>3. ASSUME NEW w \in Workers, Offer(w) PROVE KeyInv'
  <2>1. offered' = offered \cup {Key(w)} /\ UNCHANGED payments
      BY <1>3 DEF Offer, square
  <2>2. Key(w) = KeyOf(Key(w).purchase, Key(w).submission)
      BY DEF Key, KeyOf
  <2> QED BY <2>1, <2>2 DEF KeyInv
<1>4. ASSUME NEW k \in offered, PayLink(k) PROVE KeyInv'
  <2> DEFINE new == [key |-> k, purchase |-> k.purchase, submission |-> k.submission]
  <2>1. payments' = payments \cup {new} /\ UNCHANGED offered
      BY <1>4 DEF PayLink
  <2>2. new.key = KeyOf(new.purchase, new.submission) /\ \A p \in payments : p.key # new.key
      BY <1>4 DEF PayLink, KeyInv
  <2> HIDE DEF new
  <2> QED BY <2>1, <2>2 DEF KeyInv
<1>5. ASSUME NEW w \in Workers,
             \/ \E c \in Purchases : Submit(w, c)
             \/ Number(w) \/ CreateLink(w) \/ LinkFails(w) \/ Store(w) \/ StoreFails(w) \/ Dies(w)
      PROVE  UNCHANGED <<payments, offered>>
    BY <1>5 DEF Submit, Number, CreateLink, LinkFails, Store, StoreFails, Dies, square
<1>6. ASSUME NEW p \in payments, PaymentEvent(p) PROVE UNCHANGED <<payments, offered>>
    BY <1>6 DEF PaymentEvent, square
<1>7. CASE UNCHANGED vars
    BY <1>1, <1>7 DEF vars
<1> QED BY <1>1, <1>2, <1>3, <1>4, <1>5, <1>6, <1>7 DEF Next

-----------------------------------------------------------------------------
\* Payments are never taken back, so a stored order that is paid stays so; a
\* request reaches "store" with a card only through Charge.
LEMMA PaidNext ==
    ASSUME PaymentsAssumption, TypeOK, RequestsInPlace, PaidInv, [Next]_vars
    PROVE  PaidInv'
<1> DEFINE Paid(v) == (req'[v].pc = "store" /\ Kind[req'[v].purchase] = "card")
                        => \E p \in payments' : p.key = Key(v)'
           Kept(v) == /\ req[v].pc = "store"
                      /\ req'[v].purchase = req[v].purchase
                      /\ req'[v].submission = req[v].submission
<1>1. ASSUME NEW v \in Workers, Kept(v), payments \subseteq payments'
      PROVE  Paid(v)
    BY <1>1 DEF PaidInv, Key
<1>2. ASSUME UNCHANGED orders, payments \subseteq payments',
             \A v \in Workers : Kept(v) \/ Paid(v)
      PROVE  PaidInv'
    BY <1>1, <1>2 DEF PaidInv, PaidOrdersArePaid
<1> USE DEF TypeOK, Request, RequestsInPlace, WellPlaced, Becomes, Goes, Ends, square
<1>3. ASSUME NEW w \in Workers, NEW c \in Purchases, Submit(w, c) PROVE PaidInv'
    BY <1>2, <1>3 DEF Submit, Idle
<1>4. ASSUME NEW w \in Workers, Number(w) PROVE PaidInv'
  <2>1. req'[w].pc = "store" => Kind[req'[w].purchase] # "card"
      BY <1>4 DEF Number
  <2>2. \A v \in Workers : v # w => req'[v] = req[v]
      BY <1>4 DEF Number
  <2>3. \A v \in Workers : Kept(v) \/ Paid(v)
      BY <2>1, <2>2
  <2> QED BY <1>2, <1>4, <2>3 DEF Number
<1>5. ASSUME NEW w \in Workers, Charge(w) PROVE PaidInv'
  <2>1. payments \subseteq payments' /\ \E p \in payments' : p.key = Key(w)
    <3> DEFINE new == [key |-> Key(w), purchase |-> req[w].purchase,
                       submission |-> req[w].submission]
    <3>1. new.key = Key(w)
        OBVIOUS
    <3>2. payments' = IF \E p \in payments : p.key = Key(w) THEN payments ELSE payments \cup {new}
        BY <1>5, Zenon DEF Charge, Charged
    <3> HIDE DEF new
    <3> QED BY <3>1, <3>2
  <2>2. Key(w)' = Key(w)
      BY <1>5 DEF Charge, Key
  <2>3. \A v \in Workers : v # w => req'[v] = req[v]
      BY <1>5 DEF Charge
  <2>4. \A v \in Workers : Kept(v) \/ Paid(v)
      BY <2>1, <2>2, <2>3
  <2> QED BY <1>2, <1>5, <2>1, <2>4 DEF Charge
<1>6. ASSUME NEW w \in Workers, ChargeAgain(w) PROVE PaidInv'
    BY <1>2, <1>6 DEF ChargeAgain, Charged
<1>7. ASSUME NEW w \in Workers, ChargeFails(w) PROVE PaidInv'
    BY <1>2, <1>7 DEF ChargeFails, Charged, PaymentFailed, Idle
<1>8. ASSUME NEW w \in Workers, CreateLink(w) PROVE PaidInv'
    BY <1>2, <1>8 DEF CreateLink
<1>9. ASSUME NEW w \in Workers, LinkFails(w) PROVE PaidInv'
    BY <1>2, <1>9 DEF LinkFails, Idle
<1>10. ASSUME NEW w \in Workers, Store(w) PROVE PaidInv'
  <2>1. OrderOf(w).status = "COMPLETED" =>
          Kind[req[w].purchase] = "card" /\ OrderOf(w).payment.key = Key(w)
      BY <1>10 DEF Store, OrderOf, PaymentsAssumption, Kinds
  <2>2. PaidOrdersArePaid'
      BY <1>10, <2>1 DEF Store, PaidInv, PaidOrdersArePaid
  <2>3. \A v \in Workers : req'[v].pc = "store" => req'[v] = req[v]
      BY <1>10 DEF Store, Idle
  <2>4. \A v \in Workers : Kept(v) \/ Paid(v)
      BY <2>3
  <2>5. UNCHANGED payments
      BY <1>10 DEF Store
  <2> QED BY <1>1, <2>2, <2>4, <2>5 DEF PaidInv
<1>11. ASSUME NEW w \in Workers, StoreFails(w) \/ Offer(w) \/ Dies(w) PROVE PaidInv'
    BY <1>2, <1>11 DEF StoreFails, NotStored, Offer, Dies, Idle
<1>12. ASSUME NEW k \in offered, PayLink(k) PROVE PaidInv'
    BY <1>2, <1>12 DEF PayLink
<1>13. ASSUME NEW p \in payments, PaymentEvent(p) PROVE PaidInv'
  <2>1. PICK o \in orders :
          /\ Matches(p) = {o}
          /\ orders' = (orders \ {o}) \cup
               {[o EXCEPT !.status = "COMPLETED", !.payment.of = "payment"]}
          /\ UNCHANGED <<square, offered, submissions, req>>
      BY <1>13 DEF PaymentEvent
  <2>2. o.payment.key = p.key
      BY <2>1 DEF Matches
  <2>3. [o EXCEPT !.status = "COMPLETED", !.payment.of = "payment"].payment.key = p.key
      BY <2>2 DEF Order, NoPayment
  <2>4. PaidOrdersArePaid'
      BY <2>1, <2>3 DEF PaidInv, PaidOrdersArePaid
  <2> QED BY <2>1, <2>4 DEF PaidInv, Key
<1>14. CASE UNCHANGED vars
    BY <1>2, <1>14 DEF vars, Key
<1> QED BY <1>3, <1>4, <1>5, <1>6, <1>7, <1>8, <1>9, <1>10, <1>11, <1>12, <1>13, <1>14 DEF Next

-----------------------------------------------------------------------------
\* Hosted checkouts.
LEMMA HostedNext ==
    ASSUME PaymentsAssumption, TypeOK, RequestsInPlace, NumberInv, KeyInv, HostedInv, [Next]_vars
    PROVE  HostedInv'
<1> DEFINE Linked(v) == (req'[v].pc = "store" /\ Kind[req'[v].purchase] = "hosted")
                          => Link(v)' \in links'
           Waits(v) == /\ req[v].pc = req'[v].pc
                       /\ req'[v].purchase = req[v].purchase
                       /\ req'[v].submission = req[v].submission
                       /\ req'[v].number = req[v].number
           Quiet(v) == req'[v].pc \notin {"store", "offer"}
\* Steps that store nothing and offer nothing, and take no hosted payment
\* but one of an offered link.
<1>1. ASSUME UNCHANGED <<orders, offered>>, links \subseteq links',
             \A l, m \in links' : l.key = m.key => l = m,
             \A v \in Workers : Waits(v) \/ Quiet(v) \/ (req'[v].pc = "store" /\ Linked(v)),
             \A p \in payments' : \/ p \in payments
                                  \/ Kind[p.purchase] = "hosted" => p.key \in offered
      PROVE  HostedInv'
  <2>1. \A v \in Workers : Linked(v)
    <3> SUFFICES ASSUME NEW v \in Workers, Waits(v) PROVE Linked(v)
        BY <1>1
    <3>1. Link(v)' = Link(v)
        BY DEF Link, Key
    <3> QED BY <1>1, <3>1 DEF HostedInv
  <2>2. \A v \in Workers : req'[v].pc = "offer" => \E o \in orders' : Holds(o, Key(v)')
    <3> SUFFICES ASSUME NEW v \in Workers, Waits(v), req'[v].pc = "offer"
                 PROVE  \E o \in orders' : Holds(o, Key(v)')
        BY <1>1
    <3>1. Key(v)' = Key(v)
        BY DEF Key
    <3> QED BY <1>1, <3>1 DEF HostedInv
  <2> QED BY <1>1, <2>1, <2>2 DEF HostedInv, Holds
<1>2. \A l, m \in links : l.key = m.key => l = m
    BY DEF HostedInv
<1> USE DEF TypeOK, Request, RequestsInPlace, WellPlaced, Becomes, Goes, Ends, square
<1>3. ASSUME NEW w \in Workers, NEW c \in Purchases, Submit(w, c) PROVE HostedInv'
    BY <1>1, <1>2, <1>3 DEF Submit, Idle
<1>4. ASSUME NEW w \in Workers, Number(w) PROVE HostedInv'
  <2>1. req'[w].pc = "store" => Kind[req'[w].purchase] # "hosted"
      BY <1>4 DEF Number
  <2>2. req'[w].pc # "offer" /\ \A v \in Workers : v # w => req'[v] = req[v]
      BY <1>4, PaymentsAssumption DEF Number, Kinds, PaymentsAssumption
  <2>3. \A v \in Workers : Waits(v) \/ Quiet(v) \/ (req'[v].pc = "store" /\ Linked(v))
      BY <2>1, <2>2
  <2> QED BY <1>1, <1>2, <1>4, <2>3 DEF Number
<1>5. ASSUME NEW w \in Workers, Charge(w) \/ ChargeAgain(w) \/ ChargeFails(w) PROVE HostedInv'
  <2>1. Kind[req[w].purchase] = "card" /\ payments' \in {payments, Charged(w)}
      BY <1>5 DEF Charge, ChargeAgain, ChargeFails
  <2>2. \A p \in payments' : p \in payments \/ Kind[p.purchase] = "card"
      BY <2>1 DEF Charged
  <2>3. UNCHANGED <<orders, offered, links>>
      BY <1>5 DEF Charge, ChargeAgain, ChargeFails
  <2>4. \A v \in Workers : v # w => req'[v] = req[v]
      BY <1>5 DEF Charge, ChargeAgain, ChargeFails, PaymentFailed
  <2>5. req'[w].pc = "store" => Kind[req'[w].purchase] = "card"
      BY <1>5, <2>1 DEF Charge, ChargeAgain, ChargeFails, PaymentFailed, Idle
  <2>6. req'[w].pc # "offer"
      BY <1>5 DEF Charge, ChargeAgain, ChargeFails, PaymentFailed, Idle
  <2>7. \A v \in Workers : Waits(v) \/ Quiet(v) \/ (req'[v].pc = "store" /\ Linked(v))
      BY <2>4, <2>5, <2>6
  <2> QED BY <1>1, <1>2, <2>2, <2>3, <2>7
<1>6. ASSUME NEW w \in Workers, CreateLink(w) PROVE HostedInv'
  <2>1. links' = links \cup {Link(w)} /\ \A l \in links : l.key = Link(w).key => l = Link(w)
      BY <1>6 DEF CreateLink, Linkable, Link
  <2>2. \A l, m \in links' : l.key = m.key => l = m
      BY <1>2, <2>1
  <2>3. Link(w)' = Link(w) /\ req'[w].pc = "store"
      BY <1>6 DEF CreateLink, Link, Key
  <2>4. \A v \in Workers : v # w => req'[v] = req[v]
      BY <1>6 DEF CreateLink
  <2>5. \A v \in Workers : Waits(v) \/ Quiet(v) \/ (req'[v].pc = "store" /\ Linked(v))
      BY <2>1, <2>3, <2>4
  <2>6. UNCHANGED <<orders, offered, payments>>
      BY <1>6 DEF CreateLink
  <2> QED BY <1>1, <2>1, <2>2, <2>5, <2>6
<1>7. ASSUME NEW w \in Workers, LinkFails(w) PROVE HostedInv'
  <2>1. \/ links' = links
        \/ /\ links' = links \cup {Link(w)}
           /\ \A l \in links : l.key = Link(w).key => l = Link(w)
      BY <1>7 DEF LinkFails, Linkable, Link
  <2>2. links \subseteq links' /\ \A l, m \in links' : l.key = m.key => l = m
      BY <1>2, <2>1
  <2>3. \A v \in Workers : Waits(v) \/ Quiet(v)
      BY <1>7 DEF LinkFails, Idle
  <2>4. UNCHANGED <<orders, offered, payments>>
      BY <1>7 DEF LinkFails
  <2> QED BY <1>1, <2>2, <2>3, <2>4
<1>8. ASSUME NEW w \in Workers, Store(w) PROVE HostedInv'
  <2> DEFINE new == OrderOf(w)
  <2>1. Kind[req[w].purchase] \in Kinds /\ req[w].purchase \in Purchases
      BY <1>8 DEF Store, PaymentsAssumption
  <2>2. /\ new.kind = Kind[req[w].purchase] /\ new.number = req[w].number
        /\ new.kind \in {"card", "hosted"} => Holds(new, Key(w))
        /\ new.kind = "manual" => new.payment.of = "none"
      BY <2>1 DEF OrderOf, Kinds, NoPayment, Holds
  <2>3. new.payment.of # "none" => new.kind = Kind[new.payment.key.purchase]
      BY <2>1, <2>2 DEF Kinds, Key, Holds
  <2>4. new.kind = "hosted" => [key |-> new.payment.key, number |-> new.number] \in links
      BY <1>8, <2>2 DEF Store, HostedInv, Link, Holds
  <2>5. orders' = orders \cup {new} /\ UNCHANGED <<payments, links, offered>>
      BY <1>8 DEF Store
  <2>6. \A v \in Workers : req'[v].pc = "store" => req'[v] = req[v]
      BY <1>8 DEF Store, Idle
  <2>7. \A v \in Workers : req'[v].pc = "store" => Link(v)' = Link(v)
      BY <2>6 DEF Link, Key
  <2>8. \A v \in Workers : req'[v].pc = "offer" => \E o \in orders' : Holds(o, Key(v)')
    <3> SUFFICES ASSUME NEW v \in Workers, req'[v].pc = "offer"
                 PROVE  \E o \in orders' : Holds(o, Key(v)')
        OBVIOUS
    <3>1. Key(v)' = Key(v)
        BY <1>8 DEF Store, Key, Idle
    <3>2. CASE v = w
        BY <1>8, <2>2, <2>5, <3>1, <3>2 DEF Store, Idle
    <3>3. CASE v # w
        BY <1>8, <2>5, <3>1, <3>3 DEF Store, HostedInv
    <3> QED BY <3>2, <3>3
  <2> HIDE DEF new
  <2> QED BY <2>3, <2>4, <2>5, <2>6, <2>7, <2>8 DEF HostedInv
<1>9. ASSUME NEW w \in Workers, StoreFails(w) \/ Dies(w) PROVE HostedInv'
  <2>1. \A v \in Workers : Waits(v) \/ Quiet(v)
      BY <1>9 DEF StoreFails, NotStored, Dies, Idle
  <2> QED BY <1>1, <1>2, <1>9, <2>1 DEF StoreFails, Dies
<1>10. ASSUME NEW w \in Workers, Offer(w) PROVE HostedInv'
  <2>1. offered' = offered \cup {Key(w)} /\ UNCHANGED <<orders, payments, links>>
      BY <1>10 DEF Offer
  <2>2. \E o \in orders : Holds(o, Key(w))
      BY <1>10 DEF Offer, HostedInv
  <2>3. \A v \in Workers : req'[v].pc \in {"store", "offer"} => req'[v] = req[v]
      BY <1>10 DEF Offer, Idle
  <2>4. \A v \in Workers : req'[v].pc \in {"store", "offer"} => Key(v)' = Key(v) /\ Link(v)' = Link(v)
      BY <2>3 DEF Key, Link
  <2> QED BY <2>1, <2>2, <2>3, <2>4 DEF HostedInv
<1>11. ASSUME NEW k \in offered, PayLink(k) PROVE HostedInv'
  <2>1. \A p \in payments' : p \in payments \/ p.key \in offered
      BY <1>11 DEF PayLink
  <2> QED BY <1>1, <1>2, <1>11, <2>1 DEF PayLink
<1>12. ASSUME NEW p \in payments, PaymentEvent(p) PROVE HostedInv'
  <2>1. PICK o \in orders :
          /\ Matches(p) = {o}
          /\ orders' = (orders \ {o}) \cup
               {[o EXCEPT !.status = "COMPLETED", !.payment.of = "payment"]}
          /\ UNCHANGED <<square, offered, submissions, req>>
      BY <1>12 DEF PaymentEvent
  <2> DEFINE new == [o EXCEPT !.status = "COMPLETED", !.payment.of = "payment"]
  <2>2. o.payment.of # "none"
      BY <2>1 DEF Matches
  <2>3. /\ new.number = o.number /\ new.kind = o.kind
        /\ new.payment.key = o.payment.key /\ new.payment.of # "none"
      BY DEF Order, NoPayment
  <2> HIDE DEF new
  <2>4. \A k : (\E a \in orders : Holds(a, k)) => (\E a \in orders' : Holds(a, k))
      BY <2>1, <2>2, <2>3 DEF Holds, new
  <2>5. \A a \in orders' : a.payment.of # "none" => a.kind = Kind[a.payment.key.purchase]
      BY <2>1, <2>2, <2>3 DEF HostedInv, new
  <2>6. \A a \in orders' :
          a.kind = "hosted" => [key |-> a.payment.key, number |-> a.number] \in links
      BY <2>1, <2>3 DEF HostedInv, new
  <2> QED BY <2>1, <2>4, <2>5, <2>6 DEF HostedInv, Key, Link
<1>13. CASE UNCHANGED vars
    BY <1>1, <1>2, <1>13 DEF vars
<1> QED BY <1>3, <1>4, <1>5, <1>6, <1>7, <1>8, <1>9, <1>10, <1>11, <1>12, <1>13 DEF Next

-----------------------------------------------------------------------------
\* The inductive invariant.
IInv ==
    TypeOK /\ RequestsInPlace /\ NumberInv /\ KeyInv /\ PaidInv /\ HostedInv

LEMMA IInvInit == PaymentsAssumption /\ Init => IInv
<1> SUFFICES ASSUME PaymentsAssumption, Init PROVE IInv
    OBVIOUS
<1>1. TypeOK /\ RequestsInPlace
    BY TypesInit
<1>2. NumberInv
  <2>1. IsFiniteSet(orders) /\ Cardinality(orders) = 0
      BY FS_EmptySet DEF Init
  <2>2. {o.number : o \in orders} = {} /\ 1..0 = {}
      BY DEF Init
  <2> QED BY <2>1, <2>2 DEF Init, Idle, NumberInv, CountedNumbers, NumbersWithoutGaps
<1>3. KeyInv /\ PaidInv
    BY DEF Init, Idle, KeyInv, PaidInv, PaidOrdersArePaid
<1>4. HostedInv
    BY DEF Init, Idle, HostedInv
<1> QED BY <1>1, <1>2, <1>3, <1>4 DEF IInv

LEMMA IInvNext == PaymentsAssumption /\ IInv /\ [Next]_vars => IInv'
<1> SUFFICES ASSUME PaymentsAssumption, IInv, [Next]_vars PROVE IInv'
    OBVIOUS
<1> USE DEF IInv
<1>1. TypeOK' /\ RequestsInPlace'
    BY TypesNext DEF NumberInv
<1>2. NumberInv'
    BY NumbersNext
<1>3. KeyInv'
    BY KeysNext
<1>4. PaidInv'
    BY PaidNext
<1>5. HostedInv'
    BY HostedNext
<1> QED BY <1>1, <1>2, <1>3, <1>4, <1>5

\* The order that holds an offered key is the only one: a second one would
\* have the same link, with the same number.
LEMMA OneOrderForAHostedPayment == IInv => HostedPaymentsFindTheirOrder
<1> SUFFICES ASSUME IInv, NEW p \in payments, Kind[p.purchase] = "hosted"
             PROVE  Cardinality(Matches(p)) = 1
    BY DEF HostedPaymentsFindTheirOrder
<1>1. PICK o \in orders : Holds(o, p.key)
    BY DEF IInv, HostedInv
<1>2. Kind[p.key.purchase] = "hosted"
  <2>1. p.key = KeyOf(p.purchase, p.submission)
      BY DEF IInv, KeyInv
  <2> QED BY <2>1 DEF KeyOf
<1>3. ASSUME NEW a \in Matches(p) PROVE a = o
  <2>1. a \in orders /\ Holds(a, p.key)
      BY DEF Matches, Holds
  <2>2. /\ [key |-> p.key, number |-> a.number] \in links
        /\ [key |-> p.key, number |-> o.number] \in links
      BY <1>1, <1>2, <2>1 DEF IInv, HostedInv, Holds
  <2>3. a.number = o.number
      BY <2>2 DEF IInv, HostedInv
  <2> QED BY <2>1, <2>3 DEF IInv, NumberInv
<1>4. Matches(p) = {o}
    BY <1>1, <1>3 DEF Matches, Holds
<1> QED BY <1>4, FS_Singleton

-----------------------------------------------------------------------------
\* Orders, payments, links and requests keep their types, however requests
\* overlap, fail or die.
THEOREM TypeCorrect == Spec => []TypeOK
<1>1. IInv => TypeOK
    BY DEF IInv
<1> QED BY PaymentsAssumption, IInvInit, IInvNext, <1>1, PTL DEF Spec

\* _next_order_number counts and the unique index refuses: together they
\* leave no gap, for any number of requests that counted before the others
\* stored their orders, and whichever of them fail.
THEOREM NoGaps == Spec => []NumbersWithoutGaps
<1>1. IInv => NumbersWithoutGaps
    BY DEF IInv, NumberInv
<1> QED BY PaymentsAssumption, IInvInit, IInvNext, <1>1, PTL DEF Spec

\* One key for all the tries of a card payment, and the client's key for all
\* the requests that carry it, mean one payment.
THEOREM NoDoubleCharge == Spec => []ChargedOnce
<1>1. IInv => ChargedOnce
  <2> SUFFICES ASSUME IInv, NEW p \in payments, NEW q \in payments,
                      p.purchase = q.purchase,
                      p.purchase \in Keyed \/ p.submission = q.submission
               PROVE  p = q
      BY DEF ChargedOnce
  <2>1. /\ p.key = KeyOf(p.purchase, p.submission)
        /\ q.key = KeyOf(q.purchase, q.submission)
      BY DEF IInv, KeyInv
  <2>2. p.key = q.key
      BY <2>1 DEF KeyOf
  <2> QED BY <2>2 DEF IInv, KeyInv
<1> QED BY PaymentsAssumption, IInvInit, IInvNext, <1>1, PTL DEF Spec

\* An order marked COMPLETED has a payment at Square behind it, stored so by
\* its request or marked so by an event.
THEOREM PaidIsPaid == Spec => []PaidOrdersArePaid
<1>1. IInv => PaidOrdersArePaid
    BY DEF IInv, PaidInv
<1> QED BY PaymentsAssumption, IInvInit, IInvNext, <1>1, PTL DEF Spec

\* A customer who pays at Square has one order, although several requests may
\* have counted the same number and only one of them stores it.
THEOREM HostedPaymentsMatch == Spec => []HostedPaymentsFindTheirOrder
<1>1. IInv => HostedPaymentsFindTheirOrder
    BY OneOrderForAHostedPayment
<1> QED BY PaymentsAssumption, IInvInit, IInvNext, <1>1, PTL DEF Spec
=============================================================================
