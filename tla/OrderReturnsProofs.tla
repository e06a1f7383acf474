--------------------------- MODULE OrderReturnsProofs ---------------------------
(***************************************************************************)
(* Proofs about OrderReturns, for any number of overlapping requests: the  *)
(* types, that return numbers have no gaps, how many open returns an order *)
(* can have, and that the stock is what orders and returns make it.        *)
(***************************************************************************)
EXTENDS OrderReturns, FiniteSetTheorems, TLAPS

OpenStatuses == {"requested", "approved", "received"}

\* A stored return request is one of an order.
RowsOfOrders == \A r \in Stored : returns[r].order \in Orders

\* A request that is about to change a return has read its order and its
\* units, which never change, in a status that its endpoint accepts.
InPlace(r, rows) ==
    /\ r.pc \in {"check", "count", "insert"} => r.order \in Orders
    /\ r.pc \in {"read", "read_stock", "commit"} => r.op \in DOMAIN Result /\ r.ret \in Returns
    /\ r.pc = "read_stock" => r.op = "complete"
    /\ r.pc \in {"read_stock", "commit"} =>
         /\ r.row.status \in From(r.op)
         /\ rows[r.ret].status # "none" => rows[r.ret].units = r.row.units

RequestsInPlace == \A w \in Workers : InPlace(req[w], returns)

\* A number that was counted is at most one more than the rows there are.
CountedNumbers ==
    ~deleted => \A w \in Workers : req[w].pc = "insert" => req[w].number \in 1..(Cardinality(Stored) + 1)

\* A return of the order is open, or a request is about to open it again.
Reopens(w, o) ==
    /\ req[w].pc = "commit" /\ req[w].op \in {"approve", "receive"}
    /\ req[w].ret \in Stored /\ returns[req[w].ret].order = o
MayBeOpen(o) == OpenReturns(o) \cup {req[w].ret : w \in {x \in Workers : Reopens(x, o)}}

\* The requests that have seen no open return of the order and will store one.
Storing(o) == {w \in Workers : req[w].pc \in {"count", "insert"} /\ req[w].order = o}

\* What is open, can be opened again and will be stored is never more than
\* there are requests at a time.
RoomForAll ==
    \A o \in Orders : Cardinality(MayBeOpen(o)) + Cardinality(Storing(o)) <= Cardinality(Workers)

TInv == TypeOK /\ RowsOfOrders /\ RequestsInPlace
IInv == TInv /\ CountedNumbers /\ NumbersWithoutGaps

-----------------------------------------------------------------------------
LEMMA NoUnitsType == NoUnits \in [Products -> 0..MaxUnits] /\ NoUnits \in [Products -> Nat]
BY ReturnsAssumption DEF NoUnits

LEMMA NoReturnType == NoReturn \in Row /\ NoReturn.status = "none"
<1>1. \A p \in Products : NoReturn.restock[p] <= NoReturn.units[p]
  BY DEF NoReturn, NoUnits
<1> QED
  BY <1>1, NoUnitsType DEF NoReturn, Row, ReturnStatuses

LEMMA IdleType == Idle \in Request /\ Idle.pc = "idle"
BY NoUnitsType, NoReturnType DEF Idle, Request

LEMMA StoredFinite ==
    IsFiniteSet(Stored) /\ Cardinality(Stored) \in Nat /\ Stored \subseteq Returns
BY ReturnsAssumption, FS_Subset, FS_CardinalityType DEF Stored

\* One request changes to something well placed; the rows that others named
\* keep their units.
LEMMA Replaced ==
    ASSUME TInv, NEW w \in Workers, NEW r \in Request, Becomes(w, r), InPlace(r, returns'),
           \A v \in Workers : req[v].ret \in Returns /\ returns'[req[v].ret].status # "none" =>
               /\ returns[req[v].ret].status # "none"
               /\ returns'[req[v].ret].units = returns[req[v].ret].units
    PROVE  req' \in [Workers -> Request] /\ RequestsInPlace'
<1>1. req' \in [Workers -> Request] /\ req'[w] = r /\ \A v \in Workers \ {w} : req'[v] = req[v]
  BY DEF TInv, TypeOK, Becomes
<1>2. ASSUME NEW v \in Workers PROVE InPlace(req'[v], returns')
  <2>1. CASE v = w
    BY <1>1, <2>1
  <2>2. CASE v # w
    <3>1. InPlace(req[v], returns)
      BY DEF TInv, RequestsInPlace
    <3>2. InPlace(req[v], returns')
      BY <3>1 DEF InPlace
    <3> QED
      BY <1>1, <2>2, <3>2
  <2> QED
    BY <2>1, <2>2
<1> QED
  BY <1>1, <1>2 DEF RequestsInPlace, InPlace

LEMMA InitIInv == Init => IInv
<1> SUFFICES ASSUME Init PROVE IInv
  OBVIOUS
<1>1. Stored = {}
  BY NoReturnType DEF Init, Stored
<1>2. Cardinality({}) = 0
  BY FS_EmptySet
<1>3. TypeOK
  <2>1. created \in 0..MaxCreated /\ stock \in [Products -> Nat]
    BY ReturnsAssumption DEF Init
  <2>2. status \in [Orders -> Open \cup Closed \cup {"shipped", "delivered"}]
    BY DEF Init
  <2>3. returns \in [Returns -> Row] /\ req \in [Workers -> Request]
    BY NoReturnType, IdleType DEF Init
  <2> QED
    BY <2>1, <2>2, <2>3 DEF Init, TypeOK
<1>4. RowsOfOrders /\ NumbersWithoutGaps
  BY <1>1, <1>2 DEF RowsOfOrders, NumbersWithoutGaps
<1>5. RequestsInPlace /\ CountedNumbers
  BY IdleType DEF Init, RequestsInPlace, InPlace, CountedNumbers
<1> QED
  BY <1>3, <1>4, <1>5 DEF IInv, TInv

\* A step of a request that only reads.
LEMMA QuietStep ==
    ASSUME IInv, NEW w \in Workers, NEW r \in Request, Becomes(w, r), InPlace(r, returns),
           UNCHANGED <<shop, returns, history>>,
           r.pc = "insert" => r.number \in 1..(Cardinality(Stored) + 1)
    PROVE  IInv'
<1>1. returns' = returns /\ deleted' = deleted /\ stale' = stale /\ Stored' = Stored
  BY DEF history, Stored
<1>2. req' \in [Workers -> Request] /\ RequestsInPlace'
  BY <1>1, Replaced DEF IInv
<1>3. TypeOK' /\ RowsOfOrders'
  BY <1>1, <1>2 DEF IInv, TInv, TypeOK, RowsOfOrders, shop, history
<1>4. CountedNumbers'
  BY <1>1 DEF IInv, TInv, TypeOK, CountedNumbers, Becomes
<1>5. NumbersWithoutGaps'
  BY <1>1 DEF IInv, NumbersWithoutGaps
<1> QED
  BY <1>2, <1>3, <1>4, <1>5 DEF IInv, TInv

LEMMA IInvReads ==
    ASSUME IInv, NEW w \in Workers,
           \/ \E o \in Orders : \E units \in Asked(o) : CallCreate(w, o, units)
           \/ \E op \in DOMAIN Result, r \in Returns : CallReturn(w, op, r)
           \/ Check(w) \/ Count(w) \/ ReadReturn(w) \/ ReadStock(w) \/ Abort(w)
    PROVE  IInv'
<1> USE DEF IInv, TInv
<1>1. req[w] \in Request /\ InPlace(req[w], returns)
  BY DEF TypeOK, RequestsInPlace
<1>2. ASSUME Becomes(w, Idle), UNCHANGED <<shop, returns, history>> PROVE IInv'
  BY <1>2, IdleType, QuietStep DEF InPlace
<1>3. ASSUME NEW o \in Orders, NEW units \in Asked(o), CallCreate(w, o, units) PROVE IInv'
  <2> DEFINE r == [Idle EXCEPT !.pc = "check", !.op = "create", !.order = o, !.units = units]
  <2>1. units \in [Products -> 0..MaxUnits]
    BY DEF Asked
  <2>2. r \in Request /\ r.pc = "check" /\ r.order = o
    BY <2>1, IdleType DEF Request
  <2>3. Becomes(w, r) /\ UNCHANGED <<shop, returns, history>>
    BY <1>3 DEF CallCreate
  <2> HIDE DEF r
  <2> QED
    BY <2>2, <2>3, QuietStep DEF InPlace
<1>4. ASSUME NEW op \in DOMAIN Result, NEW x \in Returns, CallReturn(w, op, x) PROVE IInv'
  <2> DEFINE r == [Idle EXCEPT !.pc = "read", !.op = op, !.ret = x]
  <2>1. r \in Request /\ r.pc = "read" /\ r.op = op /\ r.ret = x
    BY IdleType DEF Request
  <2>2. Becomes(w, r) /\ UNCHANGED <<shop, returns, history>>
    BY <1>4 DEF CallReturn
  <2> HIDE DEF r
  <2> QED
    BY <2>1, <2>2, QuietStep DEF InPlace
<1>5. CASE Check(w)
  <2> DEFINE r == [req[w] EXCEPT !.pc = "count"]
  <2>1. CASE Returnable(req[w].order)
    <3>1. Becomes(w, r) /\ UNCHANGED <<shop, returns, history>> /\ req[w].pc = "check"
      BY <1>5, <2>1 DEF Check, Goes
    <3>2. r \in Request /\ r.pc = "count" /\ r.order = req[w].order
      BY <1>1 DEF Request
    <3> HIDE DEF r
    <3> QED
      BY <1>1, <3>1, <3>2, QuietStep DEF InPlace
  <2>2. CASE ~Returnable(req[w].order)
    BY <1>2, <1>5, <2>2 DEF Check
  <2> QED
    BY <2>1, <2>2
<1>6. CASE Count(w)
  <2> DEFINE r == [req[w] EXCEPT !.number = NextNumber, !.pc = "insert"]
  <2>1. NextNumber \in 1..(Cardinality(Stored) + 1) /\ NextNumber \in Nat
    BY StoredFinite DEF NextNumber
  <2>2. r \in Request /\ r.pc = "insert" /\ r.order = req[w].order /\ r.number = NextNumber
    BY <1>1, <2>1 DEF Request
  <2>3. Becomes(w, r) /\ UNCHANGED <<shop, returns, history>> /\ req[w].pc = "count"
    BY <1>6 DEF Count
  <2> HIDE DEF r
  <2>4. InPlace(r, returns)
    BY <1>1, <2>2, <2>3 DEF InPlace
  <2> QED
    BY <2>1, <2>2, <2>3, <2>4, QuietStep
<1>7. CASE ReadReturn(w)
  <2> DEFINE row == returns[req[w].ret]
             r == [req[w] EXCEPT !.row = row, !.pc = IF req[w].op = "complete" THEN "read_stock" ELSE "commit"]
  <2>1. CASE row.status \in From(req[w].op)
    <3>1. Becomes(w, r) /\ UNCHANGED <<shop, returns, history>> /\ req[w].pc = "read"
      BY <1>7, <2>1 DEF ReadReturn
    <3>2. row \in Row /\ req[w].op \in DOMAIN Result /\ req[w].ret \in Returns
      BY <1>1, <3>1 DEF InPlace, TypeOK
    <3>4. r \in Request /\ r.pc = (IF r.op = "complete" THEN "read_stock" ELSE "commit") /\ r.row = row /\ r.op = req[w].op /\ r.ret = req[w].ret
      BY <1>1, <3>2 DEF Request
    <3> HIDE DEF r
    <3>5. InPlace(r, returns)
      BY <2>1, <3>2, <3>4 DEF InPlace
    <3> QED
      BY <3>1, <3>4, <3>5, QuietStep
  <2>2. CASE row.status \notin From(req[w].op)
    BY <1>2, <1>7, <2>2 DEF ReadReturn
  <2> QED
    BY <2>1, <2>2
<1>8. CASE ReadStock(w)
  <2> DEFINE r == [req[w] EXCEPT !.stock = stock, !.pc = "commit"]
  <2>1. Becomes(w, r) /\ UNCHANGED <<shop, returns, history>> /\ req[w].pc = "read_stock"
    BY <1>8 DEF ReadStock
  <2>2. /\ r \in Request /\ r.pc = "commit" /\ r.row = req[w].row /\ r.op = req[w].op /\ r.ret = req[w].ret
    BY <1>1 DEF Request, TypeOK
  <2> HIDE DEF r
  <2>3. InPlace(r, returns)
    BY <1>1, <2>1, <2>2 DEF InPlace
  <2> QED
    BY <2>1, <2>2, <2>3, QuietStep
<1>9. CASE Abort(w)
  BY <1>2, <1>9 DEF Abort
<1> QED
  BY <1>3, <1>4, <1>5, <1>6, <1>7, <1>8, <1>9

-----------------------------------------------------------------------------
\* The next number after a row is stored.
LEMMA OneMoreNumber ==
    ASSUME NEW k \in Nat, NEW n \in 1..(k + 1), n \notin 1..k
    PROVE  n = k + 1 /\ (1..k) \cup {n} = 1..(k + 1)
OBVIOUS

LEMMA IInvInsert == ASSUME IInv, NEW w \in Workers, Insert(w) PROVE IInv'
<1> USE DEF IInv, TInv
<1> DEFINE o == req[w].order
           n == req[w].number
<1>1. /\ req[w] \in Request /\ InPlace(req[w], returns) /\ req[w].pc = "insert"
      /\ o \in Orders /\ Becomes(w, Idle)
  BY DEF TypeOK, RequestsInPlace, InPlace, Insert
<1>2. UNCHANGED shop /\ deleted' = deleted /\ stale' = stale
  BY DEF Insert
<1>3. CASE Taken(n)
  <2>1. UNCHANGED <<shop, returns, history>>
    BY <1>3 DEF Insert, history
  <2> QED
    BY <1>1, <2>1, IdleType, QuietStep DEF InPlace
<1>4. CASE ~Taken(n)
  <2> DEFINE row == [status |-> "requested", order |-> o, units |-> req[w].units,
                     restock |-> req[w].units, number |-> n]
  <2>1. PICK r \in Returns \ Stored :
          /\ \A v \in Workers : req[v].ret # r
          /\ returns' = [returns EXCEPT ![r] = row]
    BY <1>4 DEF Insert
  <2>2. created < MaxCreated /\ created' = created + 1
    BY <1>4 DEF Insert
  <2>3. row \in Row
    <3>1. req[w].units \in [Products -> 0..MaxUnits] /\ req[w].number \in Nat /\ row.restock = row.units
      BY <1>1 DEF Request
    <3>2. \A p \in Products : row.restock[p] <= row.units[p]
      BY <3>1
    <3> QED
      BY <1>1, <3>1, <3>2 DEF Row, ReturnStatuses
  <2>4. row.status = "requested" /\ row.order = o /\ row.number = n
    OBVIOUS
  <2> HIDE DEF row
  <2>5. /\ returns' \in [Returns -> Row] /\ returns'[r] = row /\ returns[r].status = "none"
        /\ \A x \in Returns \ {r} : returns'[x] = returns[x]
    BY <2>1, <2>3 DEF TypeOK, Stored
  <2>6. Stored' = Stored \cup {r}
    BY <2>1, <2>4, <2>5 DEF Stored
  <2>7. Cardinality(Stored') = Cardinality(Stored) + 1
    BY <2>1, <2>6, StoredFinite, FS_AddElement
  <2>8. req' \in [Workers -> Request] /\ RequestsInPlace'
    BY <1>1, <2>1, <2>5, IdleType, Replaced DEF InPlace
  <2>9. TypeOK'
    <3>1. created' \in 0..MaxCreated
      BY <2>2, ReturnsAssumption DEF TypeOK
    <3> QED
      BY <1>1, <1>2, <2>2, <2>5, <2>8, <3>1 DEF TypeOK, shop
  <2>10. RowsOfOrders'
    BY <1>1, <2>4, <2>5, <2>6 DEF RowsOfOrders, Stored
  <2>11. NumbersWithoutGaps' /\ CountedNumbers'
    <3> SUFFICES ASSUME ~deleted
                 PROVE  /\ {returns'[x].number : x \in Stored'} = 1..Cardinality(Stored')
                        /\ \A v \in Workers : req'[v].pc = "insert" =>
                               req'[v].number \in 1..(Cardinality(Stored') + 1)
      BY <1>2 DEF NumbersWithoutGaps, CountedNumbers
    <3>1. {returns[x].number : x \in Stored} = 1..Cardinality(Stored)
      BY DEF NumbersWithoutGaps
    <3>2. n \notin 1..Cardinality(Stored)
      BY <1>4, <3>1 DEF Taken
    <3>3. n \in 1..(Cardinality(Stored) + 1)
      BY <1>1 DEF CountedNumbers
    <3>4. {returns'[x].number : x \in Stored'} = (1..Cardinality(Stored)) \cup {n}
      <4>1. \A x \in Stored : returns'[x] = returns[x]
        BY <2>1, <2>5, StoredFinite
      <4>2. returns'[r].number = n
        BY <2>4, <2>5
      <4> QED
        BY <2>6, <3>1, <4>1, <4>2
    <3>5. (1..Cardinality(Stored)) \cup {n} = 1..(Cardinality(Stored) + 1)
      BY <3>2, <3>3, StoredFinite, OneMoreNumber
    <3>6. ASSUME NEW v \in Workers, req'[v].pc = "insert"
          PROVE  req'[v].number \in 1..(Cardinality(Stored') + 1)
      <4>1. req'[v] = req[v]
        BY <1>1, <3>6, IdleType DEF Becomes, TypeOK
      <4>2. req[v].number \in 1..(Cardinality(Stored) + 1)
        BY <3>6, <4>1 DEF CountedNumbers
      <4> QED
        BY <2>7, <4>1, <4>2, StoredFinite
    <3> QED
      BY <2>7, <3>4, <3>5, <3>6
  <2> QED
    BY <2>8, <2>9, <2>10, <2>11
<1> QED
  BY <1>3, <1>4

\* What a commit makes of the row that it names.
LEMMA AfterType ==
    ASSUME IInv, NEW w \in Workers, req[w].pc = "commit", req[w].ret \in Stored,
           NEW usable \in Usable(req[w].row)
    PROVE  LET new == After(w, usable)
               row == returns[req[w].ret]
           IN  /\ new \in Row
               /\ req[w].op = "delete" => new = NoReturn
               /\ req[w].op # "delete" =>
                    /\ new.status = Result[req[w].op] /\ new.status # "none"
                    /\ new.order = row.order /\ new.units = row.units /\ new.number = row.number
               /\ req[w].op # "receive" => new = NoReturn \/ new.restock = row.restock
<1> USE DEF IInv, TInv
<1>1. /\ req[w] \in Request /\ req[w].op \in DOMAIN Result /\ req[w].ret \in Returns
      /\ returns[req[w].ret] \in Row /\ returns[req[w].ret].units = req[w].row.units
  BY DEF TypeOK, RequestsInPlace, InPlace, Stored
<1>2. Result[req[w].op] \in ReturnStatuses
  BY <1>1 DEF ReturnStatuses
<1>3. CASE req[w].op = "delete"
  BY <1>3, NoReturnType DEF After
<1>4. CASE req[w].op = "receive"
  <2> DEFINE row == returns[req[w].ret]
  <2>1. After(w, usable) = [row EXCEPT !.status = "received", !.restock = usable]
    BY <1>1, <1>4 DEF After
  <2>2. usable \in [Products -> 0..MaxUnits] /\ \A p \in Products : usable[p] <= row.units[p]
    BY <1>1 DEF Usable
  <2>3. row \in Row /\ "received" \in ReturnStatuses
    BY <1>1, <1>2, <1>4 DEF Result
  <2> HIDE DEF row
  <2>4. LET new == After(w, usable)
        IN  /\ new \in Row /\ new.status = "received"
            /\ new.order = row.order /\ new.units = row.units /\ new.number = row.number
    BY <2>1, <2>2, <2>3 DEF Row
  <2> QED
    BY <1>4, <2>4 DEF row, Result
<1>5. CASE req[w].op \notin {"delete", "receive"}
  <2>1. After(w, usable) = [returns[req[w].ret] EXCEPT !.status = Result[req[w].op]]
    BY <1>1, <1>5 DEF After
  <2> QED
    BY <1>1, <1>2, <1>5, <2>1 DEF Row, Result
<1> QED
  BY <1>3, <1>4, <1>5

\* The row that a commit leaves, beside the others.
LEMMA CommitRow ==
    ASSUME IInv, NEW w \in Workers, Commit(w), req[w].ret \in Stored
    PROVE  /\ returns' \in [Returns -> Row]
           /\ \A x \in Returns \ {req[w].ret} : returns'[x] = returns[x]
           /\ req[w].op = "delete" => returns'[req[w].ret] = NoReturn /\ deleted'
           /\ req[w].op # "delete" =>
                /\ returns'[req[w].ret].status = Result[req[w].op]
                /\ returns'[req[w].ret].status # "none"
                /\ returns'[req[w].ret].order = returns[req[w].ret].order
                /\ returns'[req[w].ret].units = returns[req[w].ret].units
                /\ returns'[req[w].ret].number = returns[req[w].ret].number
                /\ deleted' = deleted
           /\ req[w].op \notin {"delete", "receive"} =>
                returns'[req[w].ret].restock = returns[req[w].ret].restock
<1> USE DEF IInv, TInv
<1>1. PICK usable \in Usable(req[w].row) :
        returns' = [returns EXCEPT ![req[w].ret] = After(w, usable)]
  BY DEF Commit
<1> DEFINE new == After(w, usable)
<1>2. req[w].ret \in Returns /\ req[w].pc = "commit"
  BY DEF Commit, Stored
<1>3. /\ new \in Row
      /\ req[w].op = "delete" => new = NoReturn
      /\ req[w].op # "delete" =>
           /\ new.status = Result[req[w].op] /\ new.status # "none"
           /\ new.order = returns[req[w].ret].order /\ new.units = returns[req[w].ret].units
           /\ new.number = returns[req[w].ret].number
      /\ req[w].op # "receive" => new = NoReturn \/ new.restock = returns[req[w].ret].restock
  BY <1>2, AfterType
<1>4. deleted' = (deleted \/ req[w].op = "delete")
  BY DEF Commit
<1> HIDE DEF new
<1>5. returns' \in [Returns -> Row] /\ returns'[req[w].ret] = new
      /\ \A x \in Returns \ {req[w].ret} : returns'[x] = returns[x]
  BY <1>1, <1>2, <1>3 DEF TypeOK, new
<1> QED
  BY <1>3, <1>4, <1>5, NoReturnType DEF TypeOK

LEMMA OvertakenType ==
    ASSUME IInv, NEW w \in Workers, req[w].pc = "commit"
    PROVE  /\ Overtaken(w) \subseteq Products
           /\ Restocks(w) \subseteq Lines(req[w].row)
           /\ returns[req[w].ret] # req[w].row => Lines(req[w].row) \subseteq Overtaken(w)
<1>1. req[w].row \in Row
  BY DEF IInv, TInv, TypeOK, Request
<1>2. Lines(req[w].row) \subseteq Products /\ Restocks(w) \subseteq Lines(req[w].row)
  BY <1>1 DEF Lines, Restocks, Row
<1> QED
  BY <1>2 DEF Overtaken, Restocks

LEMMA IInvCommit == ASSUME IInv, NEW w \in Workers, Commit(w) PROVE IInv'
<1> USE DEF IInv, TInv
<1> DEFINE x == req[w].ret
<1>1. /\ req[w] \in Request /\ InPlace(req[w], returns) /\ req[w].pc = "commit"
      /\ x \in Returns /\ req[w].op \in DOMAIN Result /\ Becomes(w, Idle)
  BY DEF TypeOK, RequestsInPlace, InPlace, Commit
<1>2. UNCHANGED <<status, fulfilled, created>>
  BY DEF Commit
<1>3. CASE x \notin Stored
  <2>1. UNCHANGED <<shop, returns, history>>
    BY <1>2, <1>3 DEF Commit, history, shop
  <2> QED
    BY <1>1, <2>1, IdleType, QuietStep DEF InPlace
<1>4. CASE x \in Stored
  <2>1. /\ stock' = [p \in Products |-> IF p \in Restocks(w) THEN Restock(w, p) ELSE stock[p]]
        /\ stale' = stale \cup Overtaken(w)
    BY <1>4 DEF Commit
  <2>2. /\ returns' \in [Returns -> Row]
        /\ \A y \in Returns \ {x} : returns'[y] = returns[y]
        /\ req[w].op = "delete" => returns'[x] = NoReturn /\ deleted'
        /\ req[w].op # "delete" =>
             /\ returns'[x].status = Result[req[w].op]
             /\ returns'[x].status # "none"
             /\ returns'[x].order = returns[x].order
             /\ returns'[x].units = returns[x].units
             /\ returns'[x].number = returns[x].number
             /\ deleted' = deleted
    BY <1>4, CommitRow
  <2>3. Overtaken(w) \subseteq Products
    BY <1>1, OvertakenType
  <2>4. req' \in [Workers -> Request] /\ RequestsInPlace'
    <3>1. \A y \in Returns : returns'[y].status # "none" =>
            /\ returns[y].status # "none"
            /\ returns'[y].units = returns[y].units
      BY <1>4, <2>2, NoReturnType DEF Stored
    <3> QED
      BY <1>1, <3>1, IdleType, Replaced DEF InPlace
  <2>5. stock' \in [Products -> Nat]
    <3>1. \A p \in Products : Restock(w, p) \in Nat
      BY <1>1 DEF Restock, Request, Row
    <3> QED
      BY <2>1, <3>1 DEF TypeOK
  <2>6. deleted' \in BOOLEAN
    BY <1>4 DEF Commit, TypeOK
  <2>7. TypeOK'
    BY <1>2, <2>1, <2>2, <2>3, <2>4, <2>5, <2>6 DEF TypeOK
  <2>8. RowsOfOrders'
    BY <1>4, <2>2, NoReturnType DEF RowsOfOrders, Stored
  <2>9. NumbersWithoutGaps' /\ CountedNumbers'
    <3>1. CASE req[w].op = "delete"
      BY <2>2, <3>1 DEF NumbersWithoutGaps, CountedNumbers
    <3>2. CASE req[w].op # "delete"
      <4>1. Stored' = Stored
        BY <1>4, <2>2, <3>2 DEF Stored
      <4>2. \A y \in Stored : returns'[y].number = returns[y].number
        BY <2>2, <3>2, StoredFinite
      <4>3. {returns'[y].number : y \in Stored} = {returns[y].number : y \in Stored}
        BY <4>2
      <4>4. deleted' = deleted
        BY <2>2, <3>2
      <4>5. NumbersWithoutGaps'
        BY <4>1, <4>3, <4>4 DEF NumbersWithoutGaps
      <4>6. \A v \in Workers : req'[v].pc = "insert" => req'[v] = req[v]
        BY <1>1, IdleType DEF Becomes, TypeOK
      <4>7. CountedNumbers'
        BY <4>1, <4>4, <4>6 DEF CountedNumbers
      <4> QED
        BY <4>5, <4>7
    <3> QED
      BY <3>1, <3>2
  <2> QED
    BY <2>4, <2>7, <2>8, <2>9
<1> QED
  BY <1>3, <1>4

LEMMA OrderStepType ==
    ASSUME IInv, OrderStep
    PROVE  /\ UNCHANGED <<returns, req, history>>
           /\ stock' \in [Products -> Nat]
           /\ status' \in [Orders -> Open \cup Closed \cup {"shipped", "delivered"}]
           /\ fulfilled' \in [Orders -> BOOLEAN]
           /\ \/ UNCHANGED <<stock, fulfilled>>
              \/ \E o \in Orders :
                   /\ ~fulfilled[o] /\ fulfilled' = [fulfilled EXCEPT ![o] = TRUE]
                   /\ stock' = [p \in Products |-> stock[p] - Quantity[o][p]]
              \/ \E o \in Orders :
                   /\ fulfilled[o] /\ fulfilled' = [fulfilled EXCEPT ![o] = FALSE]
                   /\ stock' = [p \in Products |-> stock[p] + Quantity[o][p]]
<1> USE DEF IInv, TInv
<1>1. PICK o \in Orders :
        \/ Shop!Fulfill(o) \/ Shop!Ship(o) \/ Shop!Deliver(o) \/ Shop!Cancel(o) \/ Shop!Refund(o) \/ Shop!RefundEvent(o)
        \/ \E s \in PatchStatuses : Shop!Patch(o, s)
  BY DEF OrderStep, Shop!Next
<1>2. \A p \in Products : Quantity[o][p] \in Nat /\ stock[p] \in Nat
  BY ReturnsAssumption DEF TypeOK
<1>3. status' \in [Orders -> Open \cup Closed \cup {"shipped", "delivered"}]
  BY <1>1, ReturnsAssumption DEF TypeOK, Shop!Fulfill, Shop!Ship, Shop!Deliver, Shop!Cancel, Shop!Refund,
       Shop!RefundEvent, Shop!Patch, Shop!Moves, Closed
<1>4. \/ UNCHANGED <<stock, fulfilled>> \/ Shop!Take(o) \/ Shop!PutBack(o)
  BY <1>1 DEF Shop!Fulfill, Shop!Ship, Shop!Deliver, Shop!Cancel, Shop!Refund,
       Shop!RefundEvent, Shop!Patch
<1>5. CASE UNCHANGED <<stock, fulfilled>>
  BY <1>3, <1>5 DEF OrderStep, TypeOK
<1>6. CASE Shop!Take(o)
  <2>1. /\ ~fulfilled[o] /\ fulfilled' = [fulfilled EXCEPT ![o] = TRUE]
        /\ stock' = [p \in Products |-> stock[p] - Quantity[o][p]]
        /\ \A p \in Products : Quantity[o][p] <= stock[p]
    BY <1>6 DEF Shop!Take, Shop!InStock
  <2>2. stock' \in [Products -> Nat]
    BY <1>2, <2>1
  <2>3. fulfilled' \in [Orders -> BOOLEAN]
    BY <2>1 DEF TypeOK
  <2> QED
    BY <1>3, <2>1, <2>2, <2>3 DEF OrderStep
<1>7. CASE Shop!PutBack(o) /\ fulfilled[o]
  <2>1. /\ fulfilled[o] /\ fulfilled' = [fulfilled EXCEPT ![o] = FALSE]
        /\ stock' = [p \in Products |-> stock[p] + Quantity[o][p]]
    BY <1>7 DEF Shop!PutBack
  <2>2. stock' \in [Products -> Nat]
    BY <1>2, <2>1
  <2>3. fulfilled' \in [Orders -> BOOLEAN]
    BY <2>1 DEF TypeOK
  <2> QED
    BY <1>3, <2>1, <2>2, <2>3 DEF OrderStep
<1>8. CASE Shop!PutBack(o) /\ ~fulfilled[o]
  BY <1>3, <1>8 DEF OrderStep, TypeOK, Shop!PutBack
<1> QED
  BY <1>4, <1>5, <1>6, <1>7, <1>8

LEMMA IInvOrderStep == ASSUME IInv, OrderStep PROVE IInv'
<1>1. /\ returns' = returns /\ req' = req /\ created' = created /\ deleted' = deleted /\ stale' = stale
      /\ Stored' = Stored
  BY OrderStepType DEF history, Stored
<1>2. TypeOK'
  BY <1>1, OrderStepType DEF IInv, TInv, TypeOK
<1>3. RowsOfOrders' /\ RequestsInPlace' /\ CountedNumbers'
  BY <1>1 DEF IInv, TInv, RowsOfOrders, RequestsInPlace, CountedNumbers
<1>4. NumbersWithoutGaps'
  BY <1>1 DEF IInv, NumbersWithoutGaps
<1> QED
  BY <1>2, <1>3, <1>4 DEF IInv, TInv

LEMMA IInvNext == IInv /\ [Next]_vars => IInv'
<1> SUFFICES ASSUME IInv, [Next]_vars PROVE IInv'
  OBVIOUS
<1>1. CASE UNCHANGED vars
  <2>1. /\ returns' = returns /\ req' = req /\ deleted' = deleted /\ stale' = stale /\ Stored' = Stored
    BY <1>1 DEF vars, history, Stored
  <2>2. TypeOK'
    BY <1>1 DEF vars, shop, history, IInv, TInv, TypeOK
  <2>3. RowsOfOrders' /\ RequestsInPlace' /\ CountedNumbers' /\ NumbersWithoutGaps'
    BY <2>1 DEF IInv, TInv, RowsOfOrders, RequestsInPlace, CountedNumbers, NumbersWithoutGaps
  <2> QED
    BY <2>2, <2>3 DEF IInv, TInv
<1>2. ASSUME NEW w \in Workers,
             \/ \E o \in Orders : \E units \in Asked(o) : CallCreate(w, o, units)
             \/ \E op \in DOMAIN Result, r \in Returns : CallReturn(w, op, r)
             \/ Check(w) \/ Count(w) \/ Insert(w)
             \/ ReadReturn(w) \/ ReadStock(w) \/ Commit(w) \/ Abort(w)
      PROVE  IInv'
  BY <1>2, IInvReads, IInvInsert, IInvCommit
<1> QED
  BY <1>1, <1>2, IInvOrderStep DEF Next

LEMMA AlwaysIInv == Spec => []IInv
BY InitIInv, IInvNext, PTL DEF Spec

\* Return requests keep their types, whatever requests overlap.
THEOREM TypeCorrect == Spec => []TypeOK
<1>1. IInv => TypeOK
  BY DEF IInv, TInv
<1> QED
  BY <1>1, AlwaysIInv, PTL

\* generate_rma_number counts and uq_return_request_tenant_rma refuses: until a
\* row is deleted the numbers of the stored returns run from 1 without a gap,
\* also when several are being stored at once.
THEOREM NoGaps == Spec => []NumbersWithoutGaps
<1>1. IInv => NumbersWithoutGaps
  BY DEF IInv
<1> QED
  BY <1>1, AlwaysIInv, PTL

-----------------------------------------------------------------------------
\* How many returns of an order are open.
LEMMA RoomFinite ==
    \A o : /\ IsFiniteSet(MayBeOpen(o)) /\ Cardinality(MayBeOpen(o)) \in Nat
           /\ IsFiniteSet(Storing(o)) /\ Cardinality(Storing(o)) \in Nat
           /\ Cardinality(Workers) \in Nat
<1> SUFFICES ASSUME NEW o PROVE IsFiniteSet(MayBeOpen(o)) /\ IsFiniteSet(Storing(o)) /\ IsFiniteSet(Workers)
  BY FS_CardinalityType
<1>1. MayBeOpen(o) \subseteq Returns /\ Storing(o) \subseteq Workers
  BY DEF MayBeOpen, OpenReturns, Reopens, Stored, Storing
<1> QED
  BY <1>1, ReturnsAssumption, FS_Subset

\* Nothing more is open or about to be, and nobody more stores one.
LEMMA NoMoreRoom ==
    ASSUME NEW o \in Orders, RoomForAll,
           MayBeOpen(o)' \subseteq MayBeOpen(o), Storing(o)' \subseteq Storing(o)
    PROVE  Cardinality(MayBeOpen(o)') + Cardinality(Storing(o)') <= Cardinality(Workers)
<1>1. /\ Cardinality(MayBeOpen(o)') \in Nat /\ Cardinality(MayBeOpen(o)') <= Cardinality(MayBeOpen(o))
      /\ Cardinality(Storing(o)') \in Nat /\ Cardinality(Storing(o)') <= Cardinality(Storing(o))
  BY RoomFinite, FS_Subset, FS_CardinalityType
<1>2. Cardinality(MayBeOpen(o)) + Cardinality(Storing(o)) <= Cardinality(Workers)
  BY DEF RoomForAll
<1> QED
  BY <1>1, <1>2, RoomFinite

\* A request that does not decide on a return and stores none, and rows that do
\* not change.
LEMMA RoomKept ==
    ASSUME TypeOK, RoomForAll, NEW w \in Workers, NEW r, Becomes(w, r), UNCHANGED returns,
           \/ r.pc \notin {"count", "insert"}
           \/ req[w].pc \in {"count", "insert"} /\ r.order = req[w].order,
           \/ r.pc # "commit" \/ r.op \notin {"approve", "receive"}
           \/ \A o : returns[r.ret].order = o => r.ret \in OpenReturns(o)
    PROVE  RoomForAll'
<1> SUFFICES ASSUME NEW o \in Orders
             PROVE  Cardinality(MayBeOpen(o)') + Cardinality(Storing(o)') <= Cardinality(Workers)
  BY DEF RoomForAll
<1>1. req'[w] = r /\ \A v \in Workers \ {w} : req'[v] = req[v]
  BY DEF TypeOK, Becomes
<1>2. OpenReturns(o)' = OpenReturns(o) /\ Stored' = Stored
  BY DEF OpenReturns, Stored
<1>3. Storing(o)' \subseteq Storing(o)
  BY <1>1 DEF Storing
<1>4. ASSUME NEW v \in Workers, Reopens(v, o)' PROVE req'[v].ret \in MayBeOpen(o)
  <2>1. CASE v = w
    BY <1>1, <1>4, <2>1 DEF Reopens, MayBeOpen
  <2>2. CASE v # w
    BY <1>1, <1>2, <1>4, <2>2 DEF Reopens, MayBeOpen
  <2> QED
    BY <2>1, <2>2
<1>5. MayBeOpen(o)' \subseteq MayBeOpen(o)
  BY <1>2, <1>4 DEF MayBeOpen
<1> QED
  BY <1>3, <1>5, NoMoreRoom

\* Who is about to open a return again, stores none: with none open, there is
\* room for one more request.
LEMMA RoomForOne ==
    ASSUME NEW o \in Orders, NEW w \in Workers, req[w].pc = "check", OpenReturns(o) = {}
    PROVE  Cardinality(MayBeOpen(o)) + Cardinality(Storing(o) \cup {w}) <= Cardinality(Workers)
<1> DEFINE R == {x \in Workers : Reopens(x, o)}
           S == Storing(o) \cup {w}
           f == [x \in R |-> req[x].ret]
<1>1. R \subseteq Workers /\ S \subseteq Workers /\ R \cap S = {}
  BY DEF Reopens, Storing
<1>2. MayBeOpen(o) = {req[x].ret : x \in R}
  BY DEF MayBeOpen
<1>3. f \in Surjection(R, MayBeOpen(o))
  BY <1>2 DEF Surjection
<1> HIDE DEF R, S, f
<1>4. IsFiniteSet(R) /\ IsFiniteSet(S) /\ IsFiniteSet(Workers)
  BY <1>1, ReturnsAssumption, FS_Subset
<1>5. Cardinality(MayBeOpen(o)) <= Cardinality(R)
  BY <1>3, <1>4, FS_Surjection
<1>6. Cardinality(R \cup S) = Cardinality(R) + Cardinality(S)
  <2>1. Cardinality(R \cup S) = Cardinality(R) + Cardinality(S) - Cardinality(R \cap S)
    BY <1>4, FS_Union
  <2>2. Cardinality(R \cap S) = 0
    BY <1>1, FS_EmptySet
  <2>3. Cardinality(R) \in Nat /\ Cardinality(S) \in Nat
    BY <1>4, FS_CardinalityType
  <2> QED
    BY <2>1, <2>2, <2>3
<1>7. Cardinality(R \cup S) <= Cardinality(Workers)
  BY <1>1, <1>4, FS_Subset
<1>8. Cardinality(R) \in Nat /\ Cardinality(S) \in Nat
  BY <1>4, FS_CardinalityType
<1> QED
  BY <1>5, <1>6, <1>7, <1>8, RoomFinite DEF S

LEMMA RoomReads ==
    ASSUME IInv, RoomForAll, NEW w \in Workers,
           \/ \E o \in Orders : \E units \in Asked(o) : CallCreate(w, o, units)
           \/ \E op \in DOMAIN Result, r \in Returns : CallReturn(w, op, r)
           \/ Check(w) \/ Count(w) \/ ReadReturn(w) \/ ReadStock(w) \/ Abort(w)
    PROVE  RoomForAll'
<1>1. TypeOK /\ InPlace(req[w], returns) /\ req[w] \in Request
  BY DEF IInv, TInv, TypeOK, RequestsInPlace
<1>2. returns' = returns
  BY DEF CallCreate, CallReturn, Check, Count, ReadReturn, ReadStock, Abort
<1>3. ASSUME Becomes(w, Idle) PROVE RoomForAll'
  BY <1>1, <1>2, <1>3, IdleType, RoomKept
<1>4. ASSUME NEW o \in Orders, NEW units \in Asked(o), CallCreate(w, o, units) PROVE RoomForAll'
  BY <1>1, <1>2, <1>4, RoomKept DEF CallCreate, Idle
<1>5. ASSUME NEW op \in DOMAIN Result, NEW x \in Returns, CallReturn(w, op, x) PROVE RoomForAll'
  BY <1>1, <1>2, <1>5, RoomKept DEF CallReturn, Idle
<1>6. CASE Check(w)
  <2>1. CASE Returnable(req[w].order)
    <3> SUFFICES ASSUME NEW o \in Orders
                 PROVE  Cardinality(MayBeOpen(o)') + Cardinality(Storing(o)') <= Cardinality(Workers)
      BY DEF RoomForAll
    <3>1. /\ req'[w] = [req[w] EXCEPT !.pc = "count"] /\ req[w].pc = "check"
          /\ \A v \in Workers \ {w} : req'[v] = req[v]
      BY <1>1, <1>6, <2>1 DEF Check, Goes, Becomes, TypeOK
    <3>2. req'[w].pc = "count" /\ req'[w].order = req[w].order
      BY <1>1, <3>1 DEF Request
    <3>3. MayBeOpen(o)' \subseteq MayBeOpen(o)
      <4>1. ASSUME NEW v \in Workers, Reopens(v, o)' PROVE req'[v].ret \in MayBeOpen(o)
        <5>1. v # w
          BY <3>2, <4>1 DEF Reopens
        <5> QED
          BY <1>2, <3>1, <4>1, <5>1 DEF Reopens, MayBeOpen, Stored
      <4> QED
        BY <1>2, <4>1 DEF MayBeOpen, OpenReturns
    <3>4. CASE o = req[w].order
      <4>1. OpenReturns(o) = {}
        BY <2>1, <3>4 DEF Returnable
      <4>2. Cardinality(MayBeOpen(o)) + Cardinality(Storing(o) \cup {w}) <= Cardinality(Workers)
        BY <3>1, <4>1, RoomForOne
      <4>3. Storing(o)' = Storing(o) \cup {w}
        BY <3>1, <3>2, <3>4 DEF Storing
      <4>4. Cardinality(MayBeOpen(o)') <= Cardinality(MayBeOpen(o)) /\ Cardinality(MayBeOpen(o)') \in Nat
        BY <3>3, RoomFinite, FS_Subset, FS_CardinalityType
      <4>5. Cardinality(Storing(o) \cup {w}) \in Nat
        BY RoomFinite, FS_AddElement, FS_CardinalityType
      <4> QED
        BY <4>2, <4>3, <4>4, <4>5, RoomFinite
    <3>5. CASE o # req[w].order
      <4>1. Storing(o)' \subseteq Storing(o)
        BY <3>1, <3>2, <3>5 DEF Storing
      <4> QED
        BY <3>3, <4>1, NoMoreRoom
    <3> QED
      BY <3>4, <3>5
  <2>2. CASE ~Returnable(req[w].order)
    BY <1>3, <1>6, <2>2 DEF Check
  <2> QED
    BY <2>1, <2>2
<1>7. CASE Count(w)
  <2> DEFINE r == [req[w] EXCEPT !.number = NextNumber, !.pc = "insert"]
  <2>1. r.order = req[w].order /\ r.pc = "insert" /\ req[w].pc = "count" /\ Becomes(w, r)
    BY <1>1, <1>7 DEF Count, Request
  <2> HIDE DEF r
  <2> QED
    BY <1>1, <1>2, <2>1, RoomKept
<1>8. CASE ReadReturn(w)
  <2> DEFINE row == returns[req[w].ret]
             r == [req[w] EXCEPT !.row = row, !.pc = IF req[w].op = "complete" THEN "read_stock" ELSE "commit"]
  <2>1. CASE row.status \in From(req[w].op)
    <3>1. /\ Becomes(w, r) /\ r.pc \in {"read_stock", "commit"} /\ r.op = req[w].op /\ r.ret = req[w].ret
          /\ req[w].pc = "read"
      BY <1>1, <1>8, <2>1 DEF ReadReturn, Request
    <3>2. req[w].op \in {"approve", "receive"} => \A o : row.order = o => req[w].ret \in OpenReturns(o)
      BY <1>1, <2>1, <3>1 DEF From, InPlace, OpenReturns
    <3> HIDE DEF r
    <3> QED
      BY <1>1, <1>2, <3>1, <3>2, RoomKept
  <2>2. CASE row.status \notin From(req[w].op)
    BY <1>3, <1>8, <2>2 DEF ReadReturn
  <2> QED
    BY <2>1, <2>2
<1>9. CASE ReadStock(w)
  <2> DEFINE r == [req[w] EXCEPT !.stock = stock, !.pc = "commit"]
  <2>1. Becomes(w, r) /\ r.pc = "commit" /\ r.op = req[w].op /\ req[w].op = "complete"
    BY <1>1, <1>9 DEF ReadStock, Request, InPlace
  <2> HIDE DEF r
  <2> QED
    BY <1>1, <1>2, <2>1, RoomKept
<1>10. CASE Abort(w)
  BY <1>3, <1>10 DEF Abort
<1> QED
  BY <1>4, <1>5, <1>6, <1>7, <1>8, <1>9, <1>10

\* A stored return takes the place of the request that stored it.
LEMMA RoomInsert == ASSUME IInv, RoomForAll, NEW w \in Workers, Insert(w) PROVE RoomForAll'
<1>1. TypeOK /\ req[w].pc = "insert" /\ Becomes(w, Idle)
  BY DEF IInv, TInv, Insert
<1>2. CASE Taken(req[w].number)
  BY <1>1, <1>2, IdleType, RoomKept DEF Insert
<1>3. CASE ~Taken(req[w].number)
  <2> DEFINE row == [status |-> "requested", order |-> req[w].order, units |-> req[w].units,
                     restock |-> req[w].units, number |-> req[w].number]
  <2>1. PICK r \in Returns \ Stored :
          /\ \A v \in Workers : req[v].ret # r
          /\ returns' = [returns EXCEPT ![r] = row]
    BY <1>3 DEF Insert
  <2>2. row.order = req[w].order /\ row.status = "requested"
    OBVIOUS
  <2> HIDE DEF row
  <2>3. returns'[r] = row /\ \A x \in Returns \ {r} : returns'[x] = returns[x]
    BY <1>1, <2>1 DEF TypeOK
  <2>4. req'[w] = Idle /\ \A v \in Workers \ {w} : req'[v] = req[v]
    BY <1>1 DEF Becomes, TypeOK
  <2> SUFFICES ASSUME NEW o \in Orders
               PROVE  Cardinality(MayBeOpen(o)') + Cardinality(Storing(o)') <= Cardinality(Workers)
    BY DEF RoomForAll
  <2>5. \A v \in Workers : Reopens(v, o)' => Reopens(v, o) /\ req'[v].ret = req[v].ret
    BY <2>1, <2>3, <2>4, IdleType DEF Reopens, Stored
  <2>6. CASE o = req[w].order
    <3>1. MayBeOpen(o)' \subseteq MayBeOpen(o) \cup {r}
      BY <2>3, <2>5 DEF MayBeOpen, OpenReturns
    <3>2. Storing(o)' = Storing(o) \ {w} /\ w \in Storing(o)
      BY <1>1, <2>4, <2>6, IdleType DEF Storing
    <3>3. /\ Cardinality(MayBeOpen(o)') <= Cardinality(MayBeOpen(o) \cup {r})
          /\ Cardinality(MayBeOpen(o) \cup {r}) <= Cardinality(MayBeOpen(o)) + 1
          /\ Cardinality(MayBeOpen(o) \cup {r}) \in Nat /\ Cardinality(MayBeOpen(o)') \in Nat
      <4>1. IsFiniteSet(MayBeOpen(o) \cup {r})
        BY RoomFinite, FS_AddElement
      <4>2. Cardinality(MayBeOpen(o) \cup {r}) <= Cardinality(MayBeOpen(o)) + 1
        <5>1. Cardinality(MayBeOpen(o) \cup {r})
                = IF r \in MayBeOpen(o) THEN Cardinality(MayBeOpen(o)) ELSE Cardinality(MayBeOpen(o)) + 1
          BY RoomFinite, FS_AddElement
        <5>2. Cardinality(MayBeOpen(o)) \in Nat
          BY RoomFinite
        <5> HIDE DEF MayBeOpen
        <5> QED
          BY <5>1, <5>2
      <4> QED
        BY <3>1, <4>1, <4>2, FS_Subset, FS_CardinalityType
    <3>4. Cardinality(Storing(o)') = Cardinality(Storing(o)) - 1
      BY <3>2, RoomFinite, FS_RemoveElement
    <3>5. Cardinality(MayBeOpen(o)) + Cardinality(Storing(o)) <= Cardinality(Workers)
      BY DEF RoomForAll
    <3> QED
      BY <3>3, <3>4, <3>5, RoomFinite
  <2>7. CASE o # req[w].order
    <3>1. MayBeOpen(o)' \subseteq MayBeOpen(o)
      BY <2>2, <2>3, <2>5, <2>7 DEF MayBeOpen, OpenReturns
    <3>2. Storing(o)' \subseteq Storing(o)
      BY <2>4, IdleType DEF Storing
    <3> QED
      BY <3>1, <3>2, NoMoreRoom
  <2> QED
    BY <2>6, <2>7
<1> QED
  BY <1>2, <1>3

\* A commit opens only what its request was about to open.
LEMMA RoomCommit == ASSUME IInv, RoomForAll, NEW w \in Workers, Commit(w) PROVE RoomForAll'
<1> DEFINE x == req[w].ret
<1>1. /\ TypeOK /\ InPlace(req[w], returns) /\ req[w].pc = "commit" /\ Becomes(w, Idle)
      /\ x \in Returns /\ req[w].op \in DOMAIN Result
  BY DEF IInv, TInv, RequestsInPlace, InPlace, Commit
<1>2. CASE x \notin Stored
  BY <1>1, <1>2, IdleType, RoomKept DEF Commit
<1>3. CASE x \in Stored
  <2>1. /\ \A y \in Returns \ {x} : returns'[y] = returns[y]
        /\ req[w].op = "delete" => returns'[x] = NoReturn
        /\ req[w].op # "delete" =>
             returns'[x].status = Result[req[w].op] /\ returns'[x].order = returns[x].order
    BY <1>3, CommitRow
  <2>2. req'[w] = Idle /\ \A v \in Workers \ {w} : req'[v] = req[v]
    BY <1>1 DEF Becomes, TypeOK
  <2> SUFFICES ASSUME NEW o \in Orders
               PROVE  Cardinality(MayBeOpen(o)') + Cardinality(Storing(o)') <= Cardinality(Workers)
    BY DEF RoomForAll
  <2>3. \A y \in Stored' : y \in Stored /\ returns'[y].order = returns[y].order
    BY <1>3, <2>1, NoReturnType DEF Stored
  <2>4. OpenReturns(o)' \subseteq MayBeOpen(o)
    <3> SUFFICES ASSUME NEW y \in OpenReturns(o)' PROVE y \in MayBeOpen(o)
      OBVIOUS
    <3>1. CASE y # x
      BY <2>1, <3>1 DEF OpenReturns, MayBeOpen
    <3>2. CASE y = x
      <4>1. req[w].op \in {"approve", "receive"} /\ returns[x].order = o
        BY <1>1, <2>1, <3>2, NoReturnType DEF OpenReturns, Result
      <4> QED
        BY <1>1, <1>3, <3>2, <4>1 DEF Reopens, MayBeOpen
    <3> QED
      BY <3>1, <3>2
  <2>5. \A v \in Workers : Reopens(v, o)' => req'[v].ret \in MayBeOpen(o)
    BY <2>2, <2>3, IdleType DEF Reopens, MayBeOpen
  <2>6. MayBeOpen(o)' \subseteq MayBeOpen(o)
    BY <2>4, <2>5 DEF MayBeOpen
  <2>7. Storing(o)' \subseteq Storing(o)
    BY <2>2, IdleType DEF Storing
  <2> QED
    BY <2>6, <2>7, NoMoreRoom
<1> QED
  BY <1>2, <1>3

\* create_return_request looks for an open return and then stores one, and a
\* decision taken on an old read opens a closed one again: however requests
\* overlap, an order has no more open returns than requests are served at once.
THEOREM OpenBounded == Spec => []OpenReturnsBounded
<1>1. Init => RoomForAll
  <2> SUFFICES ASSUME Init, NEW o \in Orders
               PROVE  Cardinality(MayBeOpen(o)) + Cardinality(Storing(o)) <= Cardinality(Workers)
    BY DEF RoomForAll
  <2>1. MayBeOpen(o) = {} /\ Storing(o) = {}
    BY NoReturnType, IdleType DEF Init, MayBeOpen, OpenReturns, Reopens, Storing
  <2> QED
    BY <2>1, RoomFinite, FS_EmptySet
<1>2. IInv /\ RoomForAll /\ [Next]_vars => RoomForAll'
  <2> SUFFICES ASSUME IInv, RoomForAll, [Next]_vars PROVE RoomForAll'
    OBVIOUS
  <2>1. ASSUME UNCHANGED <<returns, req>> PROVE RoomForAll'
    BY <2>1 DEF RoomForAll, MayBeOpen, OpenReturns, Reopens, Storing, Stored
  <2>2. CASE UNCHANGED vars
    BY <2>1, <2>2 DEF vars
  <2>3. CASE OrderStep
    BY <2>1, <2>3 DEF OrderStep
  <2> QED
    BY <2>2, <2>3, RoomReads, RoomInsert, RoomCommit DEF Next
<1>3. RoomForAll => OpenReturnsBounded
  <2> SUFFICES ASSUME RoomForAll, NEW o \in Orders
               PROVE  Cardinality(OpenReturns(o)) <= Cardinality(Workers)
    BY DEF OpenReturnsBounded
  <2>1. OpenReturns(o) \subseteq MayBeOpen(o)
    BY DEF MayBeOpen
  <2>2. Cardinality(OpenReturns(o)) <= Cardinality(MayBeOpen(o)) /\ Cardinality(OpenReturns(o)) \in Nat
    BY <2>1, RoomFinite, FS_Subset, FS_CardinalityType
  <2>3. Cardinality(MayBeOpen(o)) + Cardinality(Storing(o)) <= Cardinality(Workers)
    BY DEF RoomForAll
  <2> QED
    BY <2>2, <2>3, RoomFinite
<1> QED
  BY AlwaysIInv, <1>1, <1>2, <1>3, PTL DEF Spec

-----------------------------------------------------------------------------
\* Units.  q[x] units for each x of a finite set F, and what one more adds.
UnitsBy(F, q) == UNION {{x} \X (1..q[x]) : x \in F}

LEMMA UnitsOfOne ==
    ASSUME NEW x, NEW n \in Nat
    PROVE  IsFiniteSet({x} \X (1..n)) /\ Cardinality({x} \X (1..n)) = n
<1>1. IsFiniteSet(1..n) /\ Cardinality(1..n) = n
  <2>1. IsFiniteSet(1..n) /\ Cardinality(1..n) = IF 1 > n THEN 0 ELSE n - 1 + 1
    BY FS_Interval
  <2> QED
    BY <2>1
<1>2. IsFiniteSet({x}) /\ Cardinality({x}) = 1
  BY FS_Singleton
<1>3. IsFiniteSet({x} \X (1..n)) /\ Cardinality({x} \X (1..n)) = 1 * n
  BY <1>1, <1>2, FS_Product
<1> QED
  BY <1>3

LEMMA UnitsFinite ==
    ASSUME NEW F, IsFiniteSet(F), NEW q, \A x \in F : q[x] \in Nat
    PROVE  IsFiniteSet(UnitsBy(F, q)) /\ Cardinality(UnitsBy(F, q)) \in Nat
<1> DEFINE T == {{x} \X (1..q[x]) : x \in F}
           f == [x \in F |-> {x} \X (1..q[x])]
<1>1. f \in Surjection(F, T)
  BY DEF Surjection
<1>2. IsFiniteSet(T)
  <2> HIDE DEF f, T
  <2> QED BY <1>1, FS_Surjection
<1>3. ASSUME NEW x \in F PROVE IsFiniteSet({x} \X (1..q[x]))
  <2>1. q[x] \in Nat
    OBVIOUS
  <2> QED
    BY <2>1, UnitsOfOne
<1>4. IsFiniteSet(UNION T)
  <2>1. \A U \in T : IsFiniteSet(U)
    BY <1>3
  <2> HIDE DEF T
  <2> QED BY <1>2, <2>1, FS_UNION
<1> QED
  BY <1>4, FS_CardinalityType DEF UnitsBy

LEMMA OneMore ==
    ASSUME NEW F, IsFiniteSet(F), NEW q, \A x \in F : q[x] \in Nat,
           NEW y, y \notin F, NEW r, \A x \in F : r[x] = q[x], r[y] \in Nat
    PROVE  Cardinality(UnitsBy(F \cup {y}, r)) = Cardinality(UnitsBy(F, q)) + r[y]
<1> DEFINE new == {y} \X (1..r[y])
           old == UnitsBy(F, q)
<1>1. IsFiniteSet(new) /\ Cardinality(new) = r[y]
  BY UnitsOfOne
<1>2. IsFiniteSet(old) /\ Cardinality(old) \in Nat
  BY UnitsFinite
<1>3. UnitsBy(F \cup {y}, r) = old \cup new
  BY DEF UnitsBy
<1>4. old \cap new = {}
  BY DEF UnitsBy
<1>5. Cardinality(old \cap new) = 0
  BY <1>4, FS_EmptySet
<1>6. Cardinality(old \cup new) = Cardinality(old) + Cardinality(new) - Cardinality(old \cap new)
  <2> HIDE DEF old, new
  <2> QED BY <1>1, <1>2, FS_Union
<1> HIDE DEF old, new
<1>7. Cardinality(old \cup new) = Cardinality(old) + r[y]
  BY <1>1, <1>2, <1>5, <1>6
<1> QED
  BY <1>3, <1>7 DEF old

\* The orders that hold a product's units, and the returns that put them back.
Holding(f) == {o \in Orders : f[o]}
Ordered(p) == [o \in Orders |-> Quantity[o][p]]
Restocking(rows) == {r \in Returns : rows[r].status = "completed"}
Returned(rows, p) == [r \in Returns |-> rows[r].restock[p]]

LEMMA UnitsAre ==
    ASSUME NEW p
    PROVE  /\ UnitsTaken(p) = Cardinality(UnitsBy(Holding(fulfilled), Ordered(p)))
           /\ Restocked(p) = Cardinality(UnitsBy(Restocking(returns), Returned(returns, p)))
           /\ UnitsTaken(p)' = Cardinality(UnitsBy(Holding(fulfilled'), Ordered(p)))
           /\ Restocked(p)' = Cardinality(UnitsBy(Restocking(returns'), Returned(returns', p)))
<1>1. /\ {{o} \X (1..Quantity[o][p]) : o \in Holding(fulfilled)}
           = {{o} \X (1..Ordered(p)[o]) : o \in Holding(fulfilled)}
      /\ {{o} \X (1..Quantity[o][p]) : o \in Holding(fulfilled')}
           = {{o} \X (1..Ordered(p)[o]) : o \in Holding(fulfilled')}
  BY DEF Holding, Ordered
<1>2. /\ {{r} \X (1..returns[r].restock[p]) : r \in Restocking(returns)}
           = {{r} \X (1..Returned(returns, p)[r]) : r \in Restocking(returns)}
      /\ {{r} \X (1..returns'[r].restock[p]) : r \in Restocking(returns')}
           = {{r} \X (1..Returned(returns', p)[r]) : r \in Restocking(returns')}
  BY DEF Restocking, Returned
<1> QED
  BY <1>1, <1>2 DEF UnitsTaken, Restocked, UnitsBy, Holding, Restocking

LEMMA UnitsType ==
    ASSUME TypeOK, NEW p \in Products
    PROVE  /\ UnitsTaken(p) \in Nat /\ Restocked(p) \in Nat
           /\ IsFiniteSet(Holding(fulfilled)) /\ Ordered(p) \in [Orders -> Nat]
           /\ IsFiniteSet(Restocking(returns)) /\ Returned(returns, p) \in [Returns -> Nat]
<1>1. IsFiniteSet(Holding(fulfilled)) /\ IsFiniteSet(Restocking(returns))
  BY ReturnsAssumption, FS_Subset DEF Holding, Restocking
<1>2. Ordered(p) \in [Orders -> Nat]
  BY ReturnsAssumption DEF Ordered
<1>3. Returned(returns, p) \in [Returns -> Nat]
  BY DEF Returned, TypeOK, Row
<1>4. /\ \A o \in Holding(fulfilled) : Ordered(p)[o] \in Nat
      /\ \A r \in Restocking(returns) : Returned(returns, p)[r] \in Nat
  BY <1>2, <1>3 DEF Holding, Restocking
<1> QED
  BY <1>1, <1>2, <1>3, <1>4, UnitsFinite, UnitsAre

\* The stock after the order steps: what a step takes, it books as taken.
LEMMA OrderStepAccounts ==
    ASSUME IInv, OrderStep, NEW p \in Products,
           stock[p] + UnitsTaken(p) = Opening[p] + Restocked(p)
    PROVE  stock'[p] + UnitsTaken(p)' = Opening[p] + Restocked(p)'
<1> DEFINE Units(f) == Cardinality(UnitsBy(Holding(f), Ordered(p)))
<1>1. /\ fulfilled \in [Orders -> BOOLEAN] /\ fulfilled' \in [Orders -> BOOLEAN]
      /\ TypeOK /\ stock[p] \in Nat /\ Opening[p] \in Nat
  BY OrderStepType, ReturnsAssumption DEF IInv, TInv, TypeOK
<1>2. UnitsTaken(p) = Units(fulfilled) /\ UnitsTaken(p)' = Units(fulfilled')
  BY UnitsAre
<1>3. Restocked(p)' = Restocked(p) /\ Restocked(p) \in Nat
  BY <1>1, OrderStepType, UnitsAre, UnitsType
<1>4. ASSUME NEW f \in [Orders -> BOOLEAN], NEW o \in Orders, ~f[o]
      PROVE  /\ Units([f EXCEPT ![o] = TRUE]) = Units(f) + Quantity[o][p]
             /\ Units(f) \in Nat /\ Quantity[o][p] \in Nat
  <2>1. Holding([f EXCEPT ![o] = TRUE]) = Holding(f) \cup {o} /\ o \notin Holding(f)
    BY <1>4 DEF Holding
  <2>2. IsFiniteSet(Holding(f)) /\ Holding(f) \subseteq Orders
    BY ReturnsAssumption, FS_Subset DEF Holding
  <2>3. Ordered(p) \in [Orders -> Nat] /\ Ordered(p)[o] = Quantity[o][p]
    BY <1>1, UnitsType DEF Ordered
  <2>4. \A x \in Holding(f) : Ordered(p)[x] \in Nat
    BY <2>2, <2>3
  <2>5. Cardinality(UnitsBy(Holding(f) \cup {o}, Ordered(p))) = Units(f) + Ordered(p)[o]
    BY <2>1, <2>2, <2>3, <2>4, OneMore
  <2> QED
    BY <2>1, <2>2, <2>3, <2>4, <2>5, UnitsFinite
<1> HIDE DEF Units
<1>5. CASE UNCHANGED <<stock, fulfilled>>
  BY <1>2, <1>3, <1>5
<1>6. ASSUME NEW o \in Orders, ~fulfilled[o], fulfilled' = [fulfilled EXCEPT ![o] = TRUE],
             stock' = [x \in Products |-> stock[x] - Quantity[o][x]]
      PROVE  stock'[p] + UnitsTaken(p)' = Opening[p] + Restocked(p)'
  <2>1. stock'[p] = stock[p] - Quantity[o][p]
    BY <1>6
  <2>2. Units(fulfilled') = Units(fulfilled) + Quantity[o][p] /\ Units(fulfilled) \in Nat /\ Quantity[o][p] \in Nat
    BY <1>1, <1>4, <1>6
  <2> QED
    BY <1>1, <1>2, <1>3, <2>1, <2>2
<1>7. ASSUME NEW o \in Orders, fulfilled[o], fulfilled' = [fulfilled EXCEPT ![o] = FALSE],
             stock' = [x \in Products |-> stock[x] + Quantity[o][x]]
      PROVE  stock'[p] + UnitsTaken(p)' = Opening[p] + Restocked(p)'
  <2>1. stock'[p] = stock[p] + Quantity[o][p]
    BY <1>7
  <2>2. fulfilled = [fulfilled' EXCEPT ![o] = TRUE] /\ ~fulfilled'[o]
    BY <1>1, <1>7
  <2>3. Units(fulfilled) = Units(fulfilled') + Quantity[o][p] /\ Units(fulfilled') \in Nat /\ Quantity[o][p] \in Nat
    BY <1>1, <1>4, <2>2
  <2> QED
    BY <1>1, <1>2, <1>3, <2>1, <2>3
<1> QED
  BY <1>5, <1>6, <1>7, OrderStepType

\* Rows that change without being completed returns leave what was put back.
LEMMA SameRestocked ==
    ASSUME NEW p, Restocking(returns') = Restocking(returns),
           \A r \in Restocking(returns) : returns'[r].restock[p] = returns[r].restock[p]
    PROVE  Restocked(p)' = Restocked(p)
<1>1. {{r} \X (1..returns'[r].restock[p]) : r \in Restocking(returns')}
        = {{r} \X (1..returns[r].restock[p]) : r \in Restocking(returns)}
  OBVIOUS
<1> QED
  BY <1>1 DEF Restocked, Restocking

LEMMA InsertAccounts ==
    ASSUME IInv, NEW w \in Workers, Insert(w), NEW p
    PROVE  stock' = stock /\ fulfilled' = fulfilled /\ Restocked(p)' = Restocked(p) /\ stale' = stale
<1>1. stock' = stock /\ fulfilled' = fulfilled /\ stale' = stale
  BY DEF Insert, shop
<1>2. CASE returns' = returns
  BY <1>1, <1>2 DEF Restocked
<1>3. CASE returns' # returns
  <2> DEFINE row == [status |-> "requested", order |-> req[w].order, units |-> req[w].units,
                     restock |-> req[w].units, number |-> req[w].number]
  <2>1. PICK r \in Returns \ Stored : returns' = [returns EXCEPT ![r] = row]
    BY <1>3 DEF Insert
  <2>2. row.status = "requested"
    OBVIOUS
  <2> HIDE DEF row
  <2>3. /\ returns'[r] = row /\ returns[r].status = "none"
        /\ \A x \in Returns \ {r} : returns'[x] = returns[x]
    BY <2>1 DEF IInv, TInv, TypeOK, Stored
  <2>4. Restocking(returns') = Restocking(returns) /\ r \notin Restocking(returns)
    BY <2>2, <2>3 DEF Restocking
  <2>5. \A x \in Restocking(returns) : returns'[x].restock[p] = returns[x].restock[p]
    BY <2>3, <2>4 DEF Restocking
  <2> QED
    BY <1>1, <2>4, <2>5, SameRestocked
<1> QED
  BY <1>1, <1>2, <1>3
\* The stock after a commit: a completion puts the units of the row that it
\* read back on the stock that it read, unless either was overtaken.
LEMMA CommitAccounts ==
    ASSUME IInv, NEW w \in Workers, Commit(w), NEW p \in Products \ stale',
           stock[p] + UnitsTaken(p) = Opening[p] + Restocked(p)
    PROVE  stock'[p] + UnitsTaken(p)' = Opening[p] + Restocked(p)'
<1> DEFINE ret == req[w].ret
           row == req[w].row
<1>1. /\ TypeOK /\ req[w].pc = "commit" /\ req[w].op \in DOMAIN Result /\ ret \in Returns
      /\ row.status \in From(req[w].op) /\ row \in Row /\ stock[p] \in Nat
      /\ returns[ret] \in Row
      /\ returns[ret].status # "none" => returns[ret].units = row.units
  BY DEF IInv, TInv, TypeOK, RequestsInPlace, InPlace, Commit, Request
<1>2. fulfilled' = fulfilled /\ UnitsTaken(p)' = UnitsTaken(p)
  BY DEF Commit, UnitsTaken
<1>3. CASE ret \notin Stored
  BY <1>2, <1>3 DEF Commit, Restocked
<1>4. CASE ret \in Stored
  <2>1. /\ stock' = [x \in Products |-> IF x \in Restocks(w) THEN Restock(w, x) ELSE stock[x]]
        /\ p \notin Overtaken(w)
    BY <1>4 DEF Commit
  <2> DEFINE Left(new) ==
               /\ \A x \in Returns \ {ret} : new[x] = returns[x]
               /\ req[w].op = "delete" => new[ret] = NoReturn
               /\ req[w].op # "delete" => new[ret].status = Result[req[w].op] /\ new[ret].units = row.units
               /\ req[w].op \notin {"delete", "receive"} => new[ret].restock = returns[ret].restock
  <2>2. Left(returns')
    BY <1>1, <1>4, CommitRow DEF Stored
  <2>2a. returns' \in [Returns -> Row]
    BY <1>4, CommitRow
  <2>3. row.restock[p] \in Nat /\ row.units[p] \in Nat /\ row.restock[p] <= row.units[p]
    BY <1>1, ReturnsAssumption DEF Row
  <2>4. ASSUME p \in Lines(row) PROVE returns[ret] = row /\ ret \notin Restocking(returns)
    <3>1. returns[ret] = row
      BY <1>1, <2>1, <2>4, OvertakenType
    <3>2. row.status # "completed"
      BY <1>1 DEF From, Result
    <3> QED
      BY <3>1, <3>2 DEF Restocking
  <2>5. CASE p \in Lines(row) /\ req[w].op = "complete"
    <3>1. stock'[p] = stock[p] + row.restock[p]
      <4>1. CASE p \in Restocks(w)
        BY <1>1, <2>1, <4>1 DEF Restock, Overtaken
      <4>2. CASE p \notin Restocks(w)
        <5>1. row.restock[p] = 0
          BY <2>3, <2>5, <4>2 DEF Restocks
        <5> QED
          BY <1>1, <2>1, <4>2, <5>1
      <4> QED
        BY <4>1, <4>2
    <3>2. returns'[ret].status = "completed" /\ returns'[ret].restock = row.restock
      BY <2>2, <2>4, <2>5 DEF Result
    <3>3. ret \notin Restocking(returns) /\ Restocking(returns') = Restocking(returns) \cup {ret}
      BY <1>1, <2>2, <2>4, <2>5, <3>2 DEF Restocking
    <3>4. IsFiniteSet(Restocking(returns)) /\ Restocking(returns) \subseteq Returns
          /\ \A x \in Restocking(returns) : Returned(returns, p)[x] \in Nat
      BY <1>1, UnitsType DEF Restocking
    <3>5. Returned(returns', p)[ret] = row.restock[p]
          /\ \A x \in Restocking(returns) : Returned(returns', p)[x] = Returned(returns, p)[x]
      BY <1>1, <2>2, <3>2, <3>3, <3>4 DEF Returned
    <3>6. Cardinality(UnitsBy(Restocking(returns) \cup {ret}, Returned(returns', p)))
            = Cardinality(UnitsBy(Restocking(returns), Returned(returns, p))) + Returned(returns', p)[ret]
      <4>1. PICK F, q, r, y :
              /\ F = Restocking(returns) /\ q = Returned(returns, p)
              /\ r = Returned(returns', p) /\ y = ret
        OBVIOUS
      <4>2. /\ IsFiniteSet(F) /\ \A x \in F : q[x] \in Nat
            /\ y \notin F /\ r[y] \in Nat /\ \A x \in F : r[x] = q[x]
        BY <2>3, <3>3, <3>4, <3>5, <4>1
      <4>3. Cardinality(UnitsBy(F \cup {y}, r)) = Cardinality(UnitsBy(F, q)) + r[y]
        BY <4>2, OneMore
      <4> QED
        BY <4>1, <4>3
    <3>7. Restocked(p)' = Restocked(p) + row.restock[p]
      BY <3>3, <3>5, <3>6, UnitsAre
    <3>8. UnitsTaken(p) \in Nat /\ Restocked(p) \in Nat /\ Opening[p] \in Nat
      BY <1>1, UnitsType, ReturnsAssumption
    <3> QED
      BY <1>1, <1>2, <2>3, <3>1, <3>7, <3>8
  <2>6. CASE p \in Lines(row) /\ req[w].op # "complete"
    <3>1. stock'[p] = stock[p]
      BY <2>1, <2>6 DEF Restocks
    <3>2. ret \notin Restocking(returns')
      BY <1>1, <2>2, <2>6, NoReturnType DEF Result, Restocking
    <3>3. Restocking(returns') = Restocking(returns)
      BY <2>2, <2>4, <2>6, <3>2 DEF Restocking
    <3>4. \A x \in Restocking(returns) : returns'[x].restock[p] = returns[x].restock[p]
      BY <2>2, <2>4, <2>6 DEF Restocking
    <3>5. Restocked(p)' = Restocked(p)
      BY <3>3, <3>4, SameRestocked
    <3> QED
      BY <1>2, <3>1, <3>5
  <2>7. CASE p \notin Lines(row)
    <3>1. row.units[p] = 0 /\ row.restock[p] = 0
      BY <2>3, <2>7 DEF Lines
    <3>2. stock'[p] = stock[p]
      BY <2>1, <3>1 DEF Restocks
    <3>3. returns[ret].units[p] = 0 /\ returns'[ret].units[p] = 0
      <4>1. NoReturn.units[p] = 0
        BY DEF NoReturn, NoUnits
      <4>2. returns[ret].units = row.units
        BY <1>1, <1>4 DEF Stored
      <4> QED
        BY <2>2, <3>1, <4>1, <4>2
    <3>4. returns[ret].restock[p] = 0 /\ returns'[ret].restock[p] = 0
      <4>1. \A any \in Row : any.units[p] = 0 => any.restock[p] = 0
        BY ReturnsAssumption DEF Row
      <4>2. returns'[ret] \in Row
        BY <1>1, <2>2a
      <4> QED
        BY <1>1, <3>3, <4>1, <4>2
    <3>5. {ret} \X (1..0) = {}
      OBVIOUS
    <3>6. UnitsBy(Restocking(returns'), Returned(returns', p))
            = UnitsBy(Restocking(returns') \ {ret}, Returned(returns', p))
      BY <1>1, <3>4, <3>5 DEF UnitsBy, Returned
    <3>7. UnitsBy(Restocking(returns), Returned(returns, p))
            = UnitsBy(Restocking(returns) \ {ret}, Returned(returns, p))
      BY <1>1, <3>4, <3>5 DEF UnitsBy, Returned
    <3>8. UnitsBy(Restocking(returns') \ {ret}, Returned(returns', p))
            = UnitsBy(Restocking(returns) \ {ret}, Returned(returns, p))
      <4>1. Restocking(returns') \ {ret} = Restocking(returns) \ {ret}
        BY <2>2 DEF Restocking
      <4>2. \A x \in Restocking(returns) \ {ret} : Returned(returns', p)[x] = Returned(returns, p)[x]
        BY <2>2 DEF Restocking, Returned
      <4> QED
        BY <4>1, <4>2 DEF UnitsBy
    <3>9. Restocked(p)' = Restocked(p)
      BY <3>6, <3>7, <3>8, UnitsAre
    <3> QED
      BY <1>2, <3>2, <3>9
  <2> QED
    BY <2>5, <2>6, <2>7
<1> QED
  BY <1>3, <1>4

LEMMA AccountsStep ==
    ASSUME IInv, StockAccountsForReturns, [Next]_vars
    PROVE  StockAccountsForReturns'
<1> SUFFICES ASSUME NEW p \in Products \ stale'
             PROVE  stock'[p] + UnitsTaken(p)' = Opening[p] + Restocked(p)'
  BY DEF StockAccountsForReturns
<1>1. p \notin stale => stock[p] + UnitsTaken(p) = Opening[p] + Restocked(p)
  BY DEF StockAccountsForReturns
<1>2. ASSUME UNCHANGED <<stock, fulfilled, returns, stale>>
      PROVE  stock'[p] + UnitsTaken(p)' = Opening[p] + Restocked(p)'
  BY <1>1, <1>2 DEF UnitsTaken, Restocked
<1>3. CASE UNCHANGED vars
  BY <1>2, <1>3 DEF vars, shop, history
<1>4. ASSUME NEW w \in Workers,
             \/ \E o \in Orders : \E units \in Asked(o) : CallCreate(w, o, units)
             \/ \E op \in DOMAIN Result, r \in Returns : CallReturn(w, op, r)
             \/ Check(w) \/ Count(w) \/ ReadReturn(w) \/ ReadStock(w) \/ Abort(w)
      PROVE  stock'[p] + UnitsTaken(p)' = Opening[p] + Restocked(p)'
  BY <1>2, <1>4 DEF CallCreate, CallReturn, Check, Count, ReadReturn, ReadStock, Abort, shop, history
<1>5. ASSUME NEW w \in Workers, Insert(w)
      PROVE  stock'[p] + UnitsTaken(p)' = Opening[p] + Restocked(p)'
  <2>1. stock' = stock /\ fulfilled' = fulfilled /\ Restocked(p)' = Restocked(p) /\ stale' = stale
    BY <1>5, InsertAccounts
  <2> QED
    BY <1>1, <2>1 DEF UnitsTaken
<1>6. ASSUME NEW w \in Workers, Commit(w)
      PROVE  stock'[p] + UnitsTaken(p)' = Opening[p] + Restocked(p)'
  <2>1. stale \subseteq stale'
    BY <1>6 DEF Commit
  <2> QED
    BY <1>1, <1>6, <2>1, CommitAccounts
<1>7. CASE OrderStep
  <2>1. stale' = stale
    BY <1>7, OrderStepType DEF history
  <2> QED
    BY <1>1, <1>7, <2>1, OrderStepAccounts
<1> QED
  BY <1>3, <1>4, <1>5, <1>6, <1>7 DEF Next

\* complete_return_request and the order endpoints write the same units: a
\* product for which nothing was overtaken has in stock what there was, less
\* what fulfilled orders hold, plus what completed returns put back.
THEOREM StockAccounted == Spec => []StockAccountsForReturns
<1>1. Init => StockAccountsForReturns
  <2> SUFFICES ASSUME Init, NEW p \in Products PROVE stock[p] + UnitsTaken(p) = Opening[p] + Restocked(p)
    BY DEF StockAccountsForReturns
  <2>1. {x \in Orders : fulfilled[x]} = {}
    BY DEF Init
  <2>2. {x \in Returns : returns[x].status = "completed"} = {}
    BY NoReturnType DEF Init
  <2>3. /\ UNION {{o} \X (1..Quantity[o][p]) : o \in {}} = {}
        /\ UNION {{r} \X (1..returns[r].restock[p]) : r \in {}} = {}
    OBVIOUS
  <2>4. UnitsTaken(p) = 0 /\ Restocked(p) = 0
    BY <2>1, <2>2, <2>3, FS_EmptySet DEF UnitsTaken, Restocked
  <2> QED
    BY <2>4 DEF Init
<1>2. IInv /\ StockAccountsForReturns /\ [Next]_vars => StockAccountsForReturns'
  BY AccountsStep
<1> QED
  BY AlwaysIInv, <1>1, <1>2, PTL DEF Spec
=============================================================================
