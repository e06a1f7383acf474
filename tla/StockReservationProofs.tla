----------------------- MODULE StockReservationProofs -----------------------
(***************************************************************************)
(* Proofs about StockReservation, for every value of its constants: type   *)
(* correctness, the bound on the units held of a product, and that the     *)
(* Redis service implements ReservationLedger; for sessions with one       *)
(* request in flight at a time, what a reserve_stock call has done when it *)
(* returns and that what a session has on record is counted.               *)
(***************************************************************************)
EXTENDS StockReservation, FiniteSetTheorems, TLAPS

\* Sizes of a hash.  A product's hash holds a finite number of units.
LEMMA HeldFinite ==
    ASSUME ReservationAssumption, NEW hash
    PROVE  /\ IsFiniteSet(Held(hash))
           /\ ReservedQuantity(hash) \in Nat
<1>1. IsFiniteSet(1..MaxQty)
    BY FS_Interval DEF ReservationAssumption
<1>2. IsFiniteSet(Sessions \X (1..MaxQty))
    BY <1>1, FS_Product DEF ReservationAssumption
<1>3. Held(hash) \in SUBSET (Sessions \X (1..MaxQty))
    BY DEF Held
<1> QED BY <1>2, <1>3, FS_Subset, FS_CardinalityType DEF ReservedQuantity

\* An empty hash holds nothing.
LEMMA EmptyHoldsNothing ==
    ASSUME ReservationAssumption
    PROVE  ReservedQuantity(Empty(Sessions)) = 0
<1>1. Held(Empty(Sessions)) = {}
    BY DEF Held, Empty, ReservationAssumption
<1> QED BY <1>1, FS_EmptySet DEF ReservedQuantity

\* Dropping holds, each one whole, never adds units.
LEMMA DroppingShrinks ==
    ASSUME ReservationAssumption,
           NEW h \in [Sessions -> 0..MaxQty], NEW g \in [Sessions -> 0..MaxQty],
           \A s \in Sessions : g[s] \in {0, h[s]}
    PROVE  ReservedQuantity(g) <= ReservedQuantity(h)
<1>1. Held(g) \in SUBSET Held(h)
  <2> SUFFICES ASSUME NEW u \in Sessions \X (1..MaxQty), u[2] <= g[u[1]]
               PROVE  u[2] <= h[u[1]]
      BY DEF Held
  <2>1. u[1] \in Sessions /\ u[2] \in 1..MaxQty
      OBVIOUS
  <2>2. g[u[1]] = h[u[1]]
      BY <2>1 DEF ReservationAssumption
  <2> QED BY <2>2
<1> QED BY <1>1, HeldFinite, FS_Subset DEF ReservedQuantity

\* The numbers from 1 to q are q in number.
LEMMA IntervalSize ==
    ASSUME NEW q \in Nat
    PROVE  IsFiniteSet(1..q) /\ Cardinality(1..q) = q
<1>1. IsFiniteSet(1..q) /\ Cardinality(1..q) = IF 1 > q THEN 0 ELSE q - 1 + 1
    BY FS_Interval
<1> QED BY <1>1

\* HSET of one hold of q units adds at most q units, whatever it replaces.
LEMMA GrantAddsAtMost ==
    ASSUME ReservationAssumption,
           NEW h \in [Sessions -> 0..MaxQty], NEW s \in Sessions, NEW q \in 1..MaxQty
    PROVE  ReservedQuantity([h EXCEPT ![s] = q]) <= ReservedQuantity(h) + q
<1> DEFINE new == {s} \X (1..q)
           g == [h EXCEPT ![s] = q]
<1>1. IsFiniteSet(new) /\ Cardinality(new) = q
  <2>1. IsFiniteSet(1..q) /\ Cardinality(1..q) = q
      BY IntervalSize DEF ReservationAssumption
  <2>2. IsFiniteSet({s}) /\ Cardinality({s}) = 1
      BY FS_Singleton
  <2>3. Cardinality(new) = 1 * q /\ IsFiniteSet(new)
      BY <2>1, <2>2, FS_Product
  <2> QED BY <2>3
<1>2. Held(g) \in SUBSET (Held(h) \cup new)
  <2> SUFFICES ASSUME NEW u \in Sessions \X (1..MaxQty), u[2] <= g[u[1]]
               PROVE  u \in Held(h) \cup new
      BY DEF Held
  <2>1. CASE u[1] = s
    <3>1. u[2] \in 1..q
        BY <2>1 DEF ReservationAssumption
    <3> QED BY <2>1, <3>1
  <2>2. CASE u[1] # s
      BY <2>2 DEF Held
  <2> QED BY <2>1, <2>2
<1>3. /\ IsFiniteSet(Held(h) \cup new)
      /\ Cardinality(Held(h) \cup new)
           = Cardinality(Held(h)) + q - Cardinality(Held(h) \cap new)
    BY <1>1, HeldFinite, FS_Union
<1>4. Cardinality(Held(h) \cap new) \in Nat
    BY HeldFinite, FS_Intersection, FS_CardinalityType
<1>5. Cardinality(Held(h)) \in Nat /\ Cardinality(Held(g)) \in Nat
    BY HeldFinite DEF ReservedQuantity
<1>6. Cardinality(Held(g)) <= Cardinality(Held(h) \cup new)
    BY <1>2, <1>3, FS_Subset
<1> QED BY <1>3, <1>4, <1>5, <1>6 DEF ReservedQuantity, ReservationAssumption

-----------------------------------------------------------------------------
\* A request in flight runs for a session, and one that is about to read or
\* reserve a line points at a line of its cart.
WellPlaced(r) ==
    /\ r.pc # "idle" => r.session \in Sessions
    /\ (\/ r.pc \in {"load", "script"}
        \/ r.pc \in {"release_read", "release_write"} /\ r.after = "load")
            => r.next \in DOMAIN r.items
CursorInCart == \A w \in Workers : WellPlaced(req[w])

\* What a request read of the stock, however long ago, was in stock once.
ReadWithinPeak ==
    /\ \A p \in Products : stock[p] <= peak[p]
    /\ \A w \in Workers, p \in Products :
         req[w].avail[p] <= MaxAvailable(p, peak[p])

IInv == TypeOK /\ CursorInCart /\ ReadWithinPeak /\ HeldWithinPeak

\* The steps on the product hashes, as the ledger sees them: a grant within
\* what the product ever had, holds dropped, or more units on sale.
GrantStep ==
    \E p \in Products, s \in Sessions, q \in 1..MaxQty :
        /\ ReservedQuantity(productHash[p]) + q <= MaxAvailable(p, peak[p])
        /\ productHash' = [productHash EXCEPT ![p][s] = q]
        /\ UNCHANGED peak
DropStep ==
    /\ \A p \in Products, s \in Sessions : productHash'[p][s] \in {0, productHash[p][s]}
    /\ UNCHANGED peak
RaiseStep ==
    /\ \A p \in Products : MaxAvailable(p, peak'[p]) >= MaxAvailable(p, peak[p])
    /\ UNCHANGED productHash

-----------------------------------------------------------------------------
LEMMA IdleType == Idle \in Request
<1>1. <<>> \in Seq(CartLine)
    OBVIOUS
<1>2. Empty(Products) \in [Products -> Nat]
    BY DEF Empty
<1> QED BY <1>1, <1>2 DEF Idle, Request, Steps, Results

\* The variables keep their types, and a request its place in its cart.
LEMMA TypesInit == ReservationAssumption /\ Init => TypeOK /\ CursorInCart
BY IdleType DEF ReservationAssumption, Init, TypeOK, CursorInCart, WellPlaced, Idle, Empty

LEMMA MaxAvailableType ==
    ASSUME NEW p, NEW n \in Nat
    PROVE  MaxAvailable(p, n) \in Nat
BY DEF MaxAvailable, PrintToOrderLimit

LEMMA LineType ==
    ASSUME TypeOK, CursorInCart, NEW w \in Workers, req[w].pc = "script"
    PROVE  Line(w) \in CartLine
<1>1. req[w].items \in Seq(CartLine)
    BY DEF TypeOK, Request
<1>2. req[w].next \in DOMAIN req[w].items
    BY DEF CursorInCart, WellPlaced
<1> QED BY <1>1, <1>2 DEF Line

\* The request of one worker changes: what remains to show is about it alone.
LEMMA RequestChanges ==
    ASSUME TypeOK, CursorInCart, NEW w \in Workers, NEW r \in Request, Becomes(w, r),
           WellPlaced(r)
    PROVE  req' \in [Workers -> Request] /\ CursorInCart'
BY DEF TypeOK, CursorInCart, Becomes

LEMMA TypesBegin ==
    ASSUME ReservationAssumption, CartsAssumption, TypeOK, CursorInCart,
           NEW w \in Workers, NEW s \in Sessions,
           \/ \E c \in Carts : StartReserve(w, s, c)
           \/ StartRelease(w, s)
           \/ \E x \in Extras : StartExtend(w, s, x)
    PROVE  TypeOK' /\ CursorInCart'
<1>1. ASSUME NEW r \in Request, Begin(w, s, r),
             WellPlaced(r)
      PROVE  TypeOK' /\ CursorInCart'
    BY <1>1, RequestChanges DEF TypeOK, Begin, redis
<1>2. CASE \E c \in Carts : StartReserve(w, s, c)
  <2> PICK c \in Carts : StartReserve(w, s, c)
      BY <1>2
  <2> DEFINE r == [Idle EXCEPT !.pc = "release_read", !.session = s, !.items = c,
                               !.after = "load"]
  <2>1. c \in Seq(CartLine) /\ 1 \in DOMAIN c
      BY DEF CartsAssumption
  <2>2. r \in Request
      BY <2>1, IdleType DEF Request, Steps
  <2>3. WellPlaced(r)
      BY <2>1 DEF Idle, WellPlaced
  <2> QED BY <1>1, <2>2, <2>3 DEF StartReserve
<1>3. CASE StartRelease(w, s)
  <2> DEFINE r == [Idle EXCEPT !.pc = "release_read", !.session = s, !.after = "done",
                               !.result = "released"]
  <2>1. r \in Request
      BY IdleType DEF Request, Steps, Results
  <2>2. WellPlaced(r)
      BY DEF Idle, WellPlaced
  <2> QED BY <1>1, <1>3, <2>1, <2>2 DEF StartRelease
<1>4. CASE \E x \in Extras : StartExtend(w, s, x)
  <2> PICK x \in Extras : StartExtend(w, s, x)
      BY <1>4
  <2> DEFINE r == [Idle EXCEPT !.pc = "extend_read", !.session = s, !.extra = x,
                               !.result = "extended"]
  <2>1. r \in Request
      BY IdleType DEF Request, Steps, Results
  <2>2. WellPlaced(r)
      BY DEF Idle, WellPlaced
  <2> QED BY <1>1, <2>1, <2>2 DEF StartExtend
<1> QED BY <1>2, <1>3, <1>4

LEMMA ExtendedLife ==
    ASSUME ReservationAssumption, NEW x \in Extras \cup {0}
    PROVE  TTL + x \in Nat /\ TTL + x >= TTL
<1>1. x \in Nat
    BY DEF ReservationAssumption
<1>2. TTL \in Nat
    BY DEF ReservationAssumption
<1> QED BY <1>1, <1>2

LEMMA TypesProgress ==
    ASSUME ReservationAssumption, TypeOK, CursorInCart, NEW w \in Workers, Progress(w) \/ Dies(w)
    PROVE  TypeOK' /\ CursorInCart'
<1> DEFINE r == req[w]
<1>0. r \in Request /\ WellPlaced(r)
    BY DEF TypeOK, CursorInCart
<1>1. CASE ReleaseRead(w)
  <2> DEFINE found == {p \in Products : sessionHash[r.session][p] > 0}
             q == [r EXCEPT !.snap = found,
                            !.pc = IF found = {} THEN r.after ELSE "release_write"]
  <2>1. q \in Request
      BY <1>0, <1>1 DEF Request, Steps
  <2>2. Becomes(w, q)
      BY <1>1 DEF ReleaseRead
  <2>3. WellPlaced(q)
      BY <1>0, <1>1 DEF ReleaseRead, WellPlaced, Request
  <2> QED BY <1>1, <2>1, <2>2, <2>3, RequestChanges DEF ReleaseRead, TypeOK, redis
<1>2. CASE ReleaseWrite(w)
  <2> DEFINE q == [r EXCEPT !.pc = r.after, !.snap = {}]
  <2>1. q \in Request
      BY <1>0, <1>2 DEF Request, Steps
  <2>2. Becomes(w, q)
      BY <1>2 DEF ReleaseWrite
  <2>3. WellPlaced(q)
      BY <1>0, <1>2 DEF ReleaseWrite, WellPlaced, Request
  <2>0. 0 \in 0..MaxQty
      BY DEF ReservationAssumption
  <2>4. /\ sessionHash' \in [Sessions -> [Products -> 0..MaxQty]]
        /\ sessionTtl' \in [Sessions -> Nat]
      BY <1>2, <2>0 DEF ReleaseWrite, TypeOK, Empty
  <2>5. productHash' \in [Products -> [Sessions -> 0..MaxQty]]
      BY <1>2, <2>0 DEF ReleaseWrite, TypeOK
  <2>6. productTtl' \in [Products -> Nat]
      BY <1>2 DEF ReleaseWrite, TypeOK, Expiry
  <2> QED BY <1>2, <2>1, <2>2, <2>3, <2>4, <2>5, <2>6, RequestChanges
          DEF ReleaseWrite, TypeOK
<1>3. CASE LoadProducts(w)
  <2> DEFINE avail == [p \in Products |-> MaxAvailable(p, stock[p])]
             q == [r EXCEPT !.pc = "script", !.avail = avail]
             z == [r EXCEPT !.pc = "done", !.result = "refused"]
  <2>1. avail \in [Products -> Nat]
      BY MaxAvailableType DEF TypeOK, ReservationAssumption
  <2>2. q \in Request /\ z \in Request
      BY <1>0, <2>1 DEF Request, Steps, Results
  <2>3. WellPlaced(q) /\ WellPlaced(z)
      BY <1>0, <1>3 DEF LoadProducts, WellPlaced, Request
  <2>4. Becomes(w, q) \/ Becomes(w, z)
      BY <1>3 DEF LoadProducts
  <2> QED BY <1>3, <2>2, <2>3, <2>4, RequestChanges DEF LoadProducts, TypeOK, redis
<1>4. CASE ScriptGrant(w)
  <2> DEFINE q == [r EXCEPT !.next = @ + 1,
                     !.pc = IF AllReserved(w) THEN "done" ELSE "script",
                     !.result = IF AllReserved(w) THEN "reserved" ELSE "none"]
  <2>0. r.next + 1 \in Nat \ {0}
      BY <1>0 DEF Request
  <2>1. q \in Request
      BY <1>0, <2>0 DEF Request, Steps, Results
  <2>2. Becomes(w, q)
      BY <1>4 DEF ScriptGrant
  <2>3. r.items \in Seq(CartLine) /\ r.next \in 1..Len(r.items) /\ r.session \in Sessions
      BY <1>0, <1>4 DEF ScriptGrant, WellPlaced, Request
  <2>4. q.pc = "done" \/ (q.pc = "script" /\ q.next \in 1..Len(q.items))
      BY <1>0, <2>3 DEF Request, AllReserved
  <2>5. q.items \in Seq(CartLine) /\ q.session \in Sessions
      BY <1>0, <2>3 DEF Request
  <2>6. WellPlaced(q)
      BY <2>4, <2>5 DEF WellPlaced
  <2>7. Line(w) \in CartLine
      BY <1>4, LineType DEF ScriptGrant
  <2>8. Line(w).product \in Products /\ Line(w).qty \in 0..MaxQty
      BY <2>7 DEF CartLine
  <2>9. TTL \in Nat
      BY DEF ReservationAssumption
  <2>10. productTtl' \in [Products -> Nat] /\ sessionTtl' \in [Sessions -> Nat]
      BY <1>4, <2>8, <2>9 DEF ScriptGrant, TypeOK, Renewed
  <2>11. /\ sessionHash' \in [Sessions -> [Products -> 0..MaxQty]]
         /\ productHash' \in [Products -> [Sessions -> 0..MaxQty]]
      BY <1>4, <2>8 DEF ScriptGrant, TypeOK
  <2> QED BY <1>4, <2>1, <2>2, <2>6, <2>10, <2>11, RequestChanges DEF ScriptGrant, TypeOK
<1>5. CASE ScriptRefuse(w)
  <2> DEFINE q == [r EXCEPT !.pc = Rollback(w), !.after = "done", !.result = "refused"]
  <2>1. q \in Request
      BY <1>0 DEF Request, Steps, Results, Rollback
  <2>3. WellPlaced(q)
      BY <1>0, <1>5 DEF ScriptRefuse, WellPlaced, Request, Rollback
  <2>2. Becomes(w, q)
      BY <1>5 DEF ScriptRefuse
  <2> QED BY <1>5, <2>1, <2>2, <2>3, RequestChanges DEF ScriptRefuse, TypeOK, redis
<1>6. CASE ExtendRead(w)
  <2> DEFINE found == {p \in Products : sessionHash[r.session][p] > 0}
             q == [r EXCEPT !.snap = found,
                            !.pc = IF found = {} THEN "done" ELSE "extend_write"]
  <2>1. q \in Request
      BY <1>0 DEF Request, Steps
  <2>3. WellPlaced(q)
      BY <1>0, <1>6 DEF ExtendRead, WellPlaced, Request
  <2>2. Becomes(w, q)
      BY <1>6 DEF ExtendRead
  <2> QED BY <1>6, <2>1, <2>2, <2>3, RequestChanges DEF ExtendRead, TypeOK, redis
<1>7. CASE ExtendWrite(w)
  <2> DEFINE q == [r EXCEPT !.pc = "done", !.snap = {}]
  <2>1. q \in Request
      BY <1>0 DEF Request, Steps
  <2>5. WellPlaced(q)
      BY <1>0, <1>7 DEF ExtendWrite, WellPlaced, Request
  <2>2. Becomes(w, q)
      BY <1>7 DEF ExtendWrite
  <2>3. TTL + r.extra \in Nat
    <3>1. r.extra \in Extras \cup {0}
        BY <1>0 DEF Request
    <3> QED BY <3>1, ExtendedLife
  <2>4. productTtl' \in [Products -> Nat] /\ sessionTtl' \in [Sessions -> Nat]
      BY <1>7, <2>3 DEF ExtendWrite, TypeOK, Expiry
  <2> QED BY <1>7, <2>1, <2>2, <2>4, <2>5, RequestChanges DEF ExtendWrite, TypeOK
<1>8. CASE Return(w) \/ Dies(w)
  <2>1. WellPlaced(Idle)
      BY DEF Idle, WellPlaced
  <2> QED BY <1>8, <2>1, IdleType, RequestChanges DEF Return, Dies, TypeOK, redis
<1> QED BY <1>1, <1>2, <1>3, <1>4, <1>5, <1>6, <1>7, <1>8 DEF Progress

LEMMA TypesTick ==
    ASSUME ReservationAssumption, TypeOK, CursorInCart, Tick
    PROVE  TypeOK' /\ CursorInCart'
<1>1. ASSUME NEW w \in Workers
      PROVE  [req[w] EXCEPT !.ticked = TRUE] \in Request
  <2>1. req[w] \in Request
      BY DEF TypeOK
  <2> QED BY <2>1 DEF Request
<1>2. req' \in [Workers -> Request]
    BY <1>1 DEF Tick, TypeOK
<1>3. CursorInCart'
  <2> SUFFICES ASSUME NEW w \in Workers PROVE WellPlaced(req'[w])
      BY DEF CursorInCart
  <2>1. WellPlaced(req[w]) /\ req[w] \in Request
      BY DEF CursorInCart, TypeOK
  <2> QED BY <2>1 DEF Tick, WellPlaced, Request
<1>4. 0 \in 0..MaxQty
    BY DEF ReservationAssumption
<1>5. \A n \in Nat : Aged(n) \in Nat
    BY DEF Aged
<1>6. sessionTtl' \in [Sessions -> Nat] /\ productTtl' \in [Products -> Nat]
    BY <1>5 DEF Tick, TypeOK
<1>7. /\ sessionHash' \in [Sessions -> [Products -> 0..MaxQty]]
      /\ productHash' \in [Products -> [Sessions -> 0..MaxQty]]
    BY <1>4 DEF Tick, TypeOK, Empty
<1> QED BY <1>2, <1>3, <1>6, <1>7 DEF Tick, TypeOK

LEMMA TypesStockWrite ==
    ASSUME ReservationAssumption, TypeOK, CursorInCart,
           NEW p \in Catalog, NEW n \in 0..MaxStock, StockWrite(p, n)
    PROVE  TypeOK' /\ CursorInCart'
BY DEF ReservationAssumption, TypeOK, CursorInCart, StockWrite, redis

LEMMA TypesNext ==
    ASSUME ReservationAssumption, CartsAssumption, TypeOK, CursorInCart, [Next]_vars
    PROVE  TypeOK' /\ CursorInCart'
<1>1. CASE UNCHANGED vars
    BY <1>1 DEF vars, TypeOK, CursorInCart
<1>2. CASE Next
    BY <1>2, TypesBegin, TypesProgress, TypesTick, TypesStockWrite DEF Next
<1> QED BY <1>1, <1>2

\* Every reachable state is well typed: the hashes hold quantities a cart may
\* ask for, and a request that reserves points at a line of its cart.
THEOREM TypeCorrect == Spec => []TypeOK
<1>1. Init => TypeOK /\ CursorInCart
    BY TypesInit, ReservationAssumption
<1>2. TypeOK /\ CursorInCart /\ [Next]_vars => (TypeOK /\ CursorInCart)'
    BY TypesNext, ReservationAssumption, CartsAssumption
<1> QED BY <1>1, <1>2, PTL DEF Spec

-----------------------------------------------------------------------------
\* What each step does to the product hashes.

LEMMA MaxAvailableMonotone ==
    ASSUME NEW p, NEW m \in Nat, NEW n \in Nat, m <= n
    PROVE  MaxAvailable(p, m) <= MaxAvailable(p, n)
BY DEF MaxAvailable, PrintToOrderLimit

\* A request only ever reads stock that existed.
LEMMA ReadNext ==
    ASSUME ReservationAssumption, IInv, TypeOK', [Next]_vars
    PROVE  ReadWithinPeak'
<1> USE DEF IInv
<1>1. CASE UNCHANGED <<stock, peak>> /\ \A w \in Workers : req'[w].avail = req[w].avail
    BY <1>1 DEF ReadWithinPeak
<1>2. ASSUME NEW w \in Workers, NEW r,
             UNCHANGED <<stock, peak>>, Becomes(w, r),
             \A p \in Products : r.avail[p] <= MaxAvailable(p, peak[p])
      PROVE  ReadWithinPeak'
    BY <1>2 DEF ReadWithinPeak, Becomes, TypeOK
<1>3. \A p \in Products : 0 <= MaxAvailable(p, peak[p])
    BY MaxAvailableType DEF TypeOK, ReservationAssumption
<1>4. \A w \in Workers : req[w] \in Request
    BY DEF TypeOK
<1>5. ASSUME NEW w \in Workers, NEW s \in Sessions,
             \/ \E c \in Carts : StartReserve(w, s, c)
             \/ StartRelease(w, s)
             \/ \E x \in Extras : StartExtend(w, s, x)
      PROVE  ReadWithinPeak'
  <2>1. ASSUME NEW r, Begin(w, s, r), r.avail = Idle.avail
        PROVE  ReadWithinPeak'
      BY <1>2, <1>3, <2>1 DEF Begin, Idle, Empty
  <2>2. CASE \E c \in Carts : StartReserve(w, s, c)
      BY <2>1, <2>2, IdleType DEF StartReserve, Request
  <2>3. CASE StartRelease(w, s)
      BY <2>1, <2>3, IdleType DEF StartRelease, Request
  <2>4. CASE \E x \in Extras : StartExtend(w, s, x)
      BY <2>1, <2>4, IdleType DEF StartExtend, Request
  <2> QED BY <1>5, <2>2, <2>3, <2>4
<1>6. ASSUME NEW w \in Workers, Progress(w) \/ Dies(w)
      PROVE  ReadWithinPeak'
  <2>1. CASE LoadProducts(w)
    <3>1. \A p \in Products : MaxAvailable(p, stock[p]) <= MaxAvailable(p, peak[p])
        BY MaxAvailableMonotone DEF ReadWithinPeak, TypeOK, ReservationAssumption
    <3> DEFINE avail == [p \in Products |-> MaxAvailable(p, stock[p])]
    <3>2. CASE Becomes(w, [req[w] EXCEPT !.pc = "script", !.avail = avail])
      <4> DEFINE r == [req[w] EXCEPT !.pc = "script", !.avail = avail]
      <4>1. r.avail = avail
          BY <1>4 DEF Request
      <4>2. \A p \in Products : r.avail[p] <= MaxAvailable(p, peak[p])
          BY <4>1, <3>1
      <4> HIDE DEF r
      <4> QED BY <1>2, <2>1, <3>2, <4>2 DEF LoadProducts, r
    <3>3. CASE Becomes(w, [req[w] EXCEPT !.pc = "done", !.result = "refused"])
        BY <1>1, <1>4, <2>1, <3>3 DEF LoadProducts, Becomes, Request, TypeOK
    <3> QED BY <2>1, <3>2, <3>3 DEF LoadProducts
  <2>2. CASE Return(w) \/ Dies(w)
      BY <1>2, <1>3, <2>2 DEF Return, Dies, Idle, Empty
  <2>3. CASE ReleaseRead(w) \/ ReleaseWrite(w) \/ ScriptGrant(w) \/ ScriptRefuse(w)
             \/ ExtendRead(w) \/ ExtendWrite(w)
    <3>1. ASSUME NEW r, Becomes(w, r), r.avail = req[w].avail, UNCHANGED <<stock, peak>>
          PROVE  ReadWithinPeak'
        BY <1>1, <3>1 DEF Becomes, TypeOK
    <3>2. req[w] \in Request
        BY DEF TypeOK
    <3>3. CASE ReleaseRead(w)
        BY <3>1, <3>2, <3>3 DEF ReleaseRead, Request
    <3>4. CASE ReleaseWrite(w)
        BY <3>1, <3>2, <3>4 DEF ReleaseWrite, Request
    <3>5. CASE ScriptGrant(w)
        BY <3>1, <3>2, <3>5 DEF ScriptGrant, Request
    <3>6. CASE ScriptRefuse(w)
        BY <3>1, <3>2, <3>6 DEF ScriptRefuse, Request
    <3>7. CASE ExtendRead(w)
        BY <3>1, <3>2, <3>7 DEF ExtendRead, Request
    <3>8. CASE ExtendWrite(w)
        BY <3>1, <3>2, <3>8 DEF ExtendWrite, Request
    <3> QED BY <2>3, <3>3, <3>4, <3>5, <3>6, <3>7, <3>8
  <2> QED BY <1>6, <2>1, <2>2, <2>3 DEF Progress
<1>7. CASE Tick
    BY <1>1, <1>4, <1>7 DEF Tick, Request
<1>8. ASSUME NEW p \in Catalog, NEW n \in 0..MaxStock, StockWrite(p, n)
      PROVE  ReadWithinPeak'
  <2>1. \A x \in Products : peak[x] \in Nat /\ peak'[x] \in Nat /\ peak[x] <= peak'[x]
      BY <1>8 DEF StockWrite, TypeOK, ReservationAssumption
  <2>2. \A x \in Products : MaxAvailable(x, peak[x]) <= MaxAvailable(x, peak'[x])
      BY <2>1, MaxAvailableMonotone
  <2>3. \A x \in Products : stock'[x] <= peak'[x]
      BY <1>8 DEF StockWrite, TypeOK, ReservationAssumption, ReadWithinPeak
  <2>4. req' = req
      BY <1>8 DEF StockWrite
  <2>5. \A w \in Workers, x \in Products :
           /\ req[w].avail[x] \in Nat
           /\ MaxAvailable(x, peak[x]) \in Nat /\ MaxAvailable(x, peak'[x]) \in Nat
      BY <1>4, <2>1, MaxAvailableType DEF Request
  <2>6. \A w \in Workers, x \in Products :
           req[w].avail[x] <= MaxAvailable(x, peak'[x])
      BY <2>2, <2>5 DEF ReadWithinPeak
  <2> QED BY <2>3, <2>4, <2>6 DEF ReadWithinPeak
<1>9. CASE UNCHANGED vars
    BY <1>1, <1>9 DEF vars
<1> QED BY <1>5, <1>6, <1>7, <1>8, <1>9 DEF Next

\* Every step of the service is one of the three.
LEMMA StepsOfTheLedger ==
    ASSUME ReservationAssumption, IInv, [Next]_vars
    PROVE  GrantStep \/ DropStep \/ RaiseStep
<1> USE DEF IInv
<1>1. CASE UNCHANGED <<productHash, peak>>
    BY <1>1 DEF DropStep
<1>2. ASSUME NEW w \in Workers, ReleaseWrite(w)
      PROVE  DropStep
    BY <1>2 DEF ReleaseWrite, DropStep, TypeOK
<1>3. ASSUME NEW w \in Workers, ScriptGrant(w)
      PROVE  GrantStep
  <2> DEFINE p == Line(w).product
             q == Line(w).qty
             s == req[w].session
  <2>1. p \in Products /\ q \in 1..MaxQty
      BY <1>3, LineType DEF ScriptGrant, CartLine
  <2>2. productHash' = [productHash EXCEPT ![p][s] = q] /\ UNCHANGED peak
      BY <1>3 DEF ScriptGrant
  <2>3. ReservedQuantity(productHash[p]) + q <= MaxAvailable(p, peak[p])
    <3>1. req[w].avail[p] <= MaxAvailable(p, peak[p])
        BY <2>1 DEF ReadWithinPeak
    <3>2. req[w].avail[p] - ReservedQuantity(productHash[p]) >= q
        BY <1>3 DEF ScriptGrant, Fits
    <3>3. ReservedQuantity(productHash[p]) \in Nat
        BY HeldFinite
    <3>4. req[w].avail[p] \in Nat
        BY <2>1 DEF TypeOK, Request
    <3>5. MaxAvailable(p, peak[p]) \in Nat
        BY <2>1, MaxAvailableType DEF TypeOK, ReservationAssumption
    <3>6. q \in Nat
        BY <2>1 DEF ReservationAssumption
    <3> HIDE DEF p, q
    <3> QED BY <3>1, <3>2, <3>3, <3>4, <3>5, <3>6
  <2>4. s \in Sessions
      BY <1>3 DEF ScriptGrant, CursorInCart, WellPlaced
  <2> QED BY <2>1, <2>2, <2>3, <2>4 DEF GrantStep
<1>4. CASE Tick
    BY <1>4 DEF Tick, DropStep, TypeOK, Empty
<1>5. ASSUME NEW p \in Catalog, NEW n \in 0..MaxStock, StockWrite(p, n)
      PROVE  RaiseStep
  <2>1. \A x \in Products : peak[x] \in Nat /\ peak'[x] \in Nat /\ peak[x] <= peak'[x]
      BY <1>5 DEF StockWrite, TypeOK, ReservationAssumption
  <2>2. \A x \in Products : MaxAvailable(x, peak[x]) <= MaxAvailable(x, peak'[x])
      BY <2>1, MaxAvailableMonotone
  <2>3. UNCHANGED productHash
      BY <1>5 DEF StockWrite, redis
  <2>4. \A x \in Products : MaxAvailable(x, peak[x]) \in Nat /\ MaxAvailable(x, peak'[x]) \in Nat
      BY <2>1, MaxAvailableType
  <2> QED BY <2>2, <2>3, <2>4 DEF RaiseStep
<1>6. ASSUME NEW w \in Workers, Progress(w) \/ Dies(w), ~ReleaseWrite(w), ~ScriptGrant(w)
      PROVE  UNCHANGED <<productHash, peak>>
    BY <1>6 DEF Progress, ReleaseRead, LoadProducts, ScriptRefuse, ExtendRead,
                ExtendWrite, Return, Dies, redis
<1>7. ASSUME NEW w \in Workers, NEW s \in Sessions,
             \/ \E c \in Carts : StartReserve(w, s, c)
             \/ StartRelease(w, s)
             \/ \E x \in Extras : StartExtend(w, s, x)
      PROVE  UNCHANGED <<productHash, peak>>
    BY <1>7 DEF StartReserve, StartRelease, StartExtend, Begin, redis
<1>8. CASE UNCHANGED vars
    BY <1>1, <1>8 DEF vars
<1> QED BY <1>1, <1>2, <1>3, <1>4, <1>5, <1>6, <1>7, <1>8 DEF Next

LEMMA HeldNext ==
    ASSUME ReservationAssumption, IInv, TypeOK', [Next]_vars
    PROVE  HeldWithinPeak'
<1> USE DEF IInv
<1> SUFFICES ASSUME NEW x \in Products
             PROVE  ReservedQuantity(productHash'[x]) <= MaxAvailable(x, peak'[x])
    BY DEF HeldWithinPeak
<1> DEFINE now == ReservedQuantity(productHash[x])
           then == ReservedQuantity(productHash'[x])
<1>1. now \in Nat /\ then \in Nat
    BY HeldFinite
<1>2. MaxAvailable(x, peak[x]) \in Nat /\ MaxAvailable(x, peak'[x]) \in Nat
    BY MaxAvailableType DEF TypeOK, ReservationAssumption
<1>3. now <= MaxAvailable(x, peak[x])
    BY DEF HeldWithinPeak
<1>4. /\ productHash[x] \in [Sessions -> 0..MaxQty]
      /\ productHash'[x] \in [Sessions -> 0..MaxQty]
    BY DEF TypeOK
<1>5. CASE GrantStep
  <2>1. PICK p \in Products, s \in Sessions, q \in 1..MaxQty :
            /\ ReservedQuantity(productHash[p]) + q <= MaxAvailable(p, peak[p])
            /\ productHash' = [productHash EXCEPT ![p][s] = q]
            /\ UNCHANGED peak
      BY <1>5 DEF GrantStep
  <2>2. CASE x = p
    <3>1. productHash'[x] = [productHash[x] EXCEPT ![s] = q]
        BY <2>1, <2>2 DEF TypeOK
    <3>2. then <= now + q
        BY <1>4, <3>1, GrantAddsAtMost
    <3>3. q \in Nat
        BY DEF ReservationAssumption
    <3> HIDE DEF now, then
    <3>4. now + q <= MaxAvailable(x, peak'[x])
        BY <2>1, <2>2 DEF now
    <3> QED BY <1>1, <1>2, <3>2, <3>3, <3>4 DEF then
  <2>3. CASE x # p
      BY <1>3, <2>1, <2>3 DEF TypeOK
  <2> QED BY <2>2, <2>3
<1>6. CASE DropStep
  <2>1. then <= now
      BY <1>4, <1>6, DroppingShrinks DEF DropStep
  <2>2. peak' = peak
      BY <1>6 DEF DropStep
  <2> HIDE DEF now, then
  <2> QED BY <1>1, <1>2, <1>3, <2>1, <2>2 DEF then
<1>7. CASE RaiseStep
  <2>1. then = now /\ MaxAvailable(x, peak'[x]) >= MaxAvailable(x, peak[x])
      BY <1>7 DEF RaiseStep
  <2> HIDE DEF now, then
  <2> QED BY <1>1, <1>2, <1>3, <2>1 DEF then
<1> QED BY <1>5, <1>6, <1>7, StepsOfTheLedger

LEMMA IInvInit == Init => IInv
<1> SUFFICES ASSUME Init PROVE IInv
    OBVIOUS
<1>1. TypeOK /\ CursorInCart
    BY TypesInit, ReservationAssumption
<1>2. \A p \in Products : MaxAvailable(p, peak[p]) \in Nat
    BY <1>1, MaxAvailableType, ReservationAssumption DEF TypeOK, ReservationAssumption
<1>3. ReadWithinPeak
  <2>1. \A p \in Products : stock[p] <= peak[p]
      BY <1>1, ReservationAssumption DEF Init, TypeOK, ReservationAssumption
  <2> QED BY <1>2, <2>1 DEF Init, ReadWithinPeak, Idle, Empty
<1>4. HeldWithinPeak
    BY <1>2, EmptyHoldsNothing, ReservationAssumption DEF Init, HeldWithinPeak
<1> QED BY <1>1, <1>3, <1>4 DEF IInv

LEMMA IInvNext == IInv /\ [Next]_vars => IInv'
<1> SUFFICES ASSUME IInv, [Next]_vars PROVE IInv'
    OBVIOUS
<1>1. TypeOK' /\ CursorInCart'
    BY TypesNext, ReservationAssumption, CartsAssumption DEF IInv
<1>2. ReadWithinPeak'
    BY <1>1, ReadNext, ReservationAssumption
<1>3. HeldWithinPeak'
    BY <1>1, HeldNext, ReservationAssumption
<1> QED BY <1>1, <1>2, <1>3 DEF IInv

\* The units held of a product never exceed the most it ever had in stock,
\* whatever requests are in flight: RESERVE_SCRIPT's atomic check-and-reserve,
\* fed with a stock figure that may be stale, together with release, rollback
\* and expiry.
THEOREM NeverOverPeak == Spec => []HeldWithinPeak
<1>1. IInv => HeldWithinPeak
    BY DEF IInv
<1> QED BY IInvInit, IInvNext, <1>1, PTL DEF Spec

-----------------------------------------------------------------------------
\* Each step of the service is a step of the ledger, or leaves it alone.
LEMMA LedgerNext ==
    ASSUME IInv, IInv', [Next]_vars
    PROVE  [Ledger!Next]_<<productHash, [p \in Products |-> MaxAvailable(p, peak[p])]>>
<1> DEFINE cap == [p \in Products |-> MaxAvailable(p, peak[p])]
<1>1. CASE GrantStep
  <2>1. PICK p \in Products, s \in Sessions, q \in 1..MaxQty :
            /\ ReservedQuantity(productHash[p]) + q <= MaxAvailable(p, peak[p])
            /\ productHash' = [productHash EXCEPT ![p][s] = q]
            /\ UNCHANGED peak
      BY <1>1 DEF GrantStep
  <2>2. Ledger!Grant(p, s, q)
    <3>1. cap[p] = MaxAvailable(p, peak[p]) /\ cap' = cap
        BY <2>1
    <3> QED BY <2>1, <3>1 DEF Ledger!Grant
  <2> QED BY <2>2 DEF Ledger!Next
<1>2. CASE DropStep
  <2>1. productHash' \in [Products -> [Sessions -> 0..MaxQty]]
      BY DEF IInv, TypeOK
  <2>2. cap' = cap
      BY <1>2 DEF DropStep
  <2>3. Ledger!Drop
      BY <1>2, <2>1, <2>2 DEF DropStep, Ledger!Drop
  <2> QED BY <2>3 DEF Ledger!Next
<1>3. CASE RaiseStep
  <2>1. \A p \in Products : MaxAvailable(p, peak'[p]) \in Nat
      BY MaxAvailableType, ReservationAssumption DEF IInv, TypeOK, ReservationAssumption
  <2>2. cap' \in [Products -> Nat]
      BY <2>1
  <2>3. \A p \in Products : cap'[p] >= cap[p]
      BY <1>3 DEF RaiseStep
  <2>4. Ledger!Raise
      BY <1>3, <2>2, <2>3 DEF RaiseStep, Ledger!Raise
  <2> QED BY <2>4 DEF Ledger!Next
<1> QED BY <1>1, <1>2, <1>3, StepsOfTheLedger, ReservationAssumption

\* The service, with its two families of hashes and its round trips, is an
\* implementation of the ledger: what a product's hash holds only ever changes
\* by a grant within the cap or by dropping whole holds.
THEOREM ImplementsLedger == Spec => LedgerSpec
<1>1. Init => Ledger!Init
  <2> SUFFICES ASSUME Init PROVE Ledger!Init
      OBVIOUS
  <2>1. \A p \in Products : MaxAvailable(p, peak[p]) \in Nat
      BY TypesInit, MaxAvailableType, ReservationAssumption DEF TypeOK, ReservationAssumption
  <2> QED BY <2>1 DEF Init, Ledger!Init, Empty
<1>2. IInv /\ IInv' /\ [Next]_vars
        => [Ledger!Next]_<<productHash, [p \in Products |-> MaxAvailable(p, peak[p])]>>
    BY LedgerNext
<1> QED BY IInvInit, IInvNext, <1>1, <1>2, PTL DEF Spec, LedgerSpec, Ledger!Spec

-----------------------------------------------------------------------------
\* What the ledger promises follows from its steps alone: whoever grants within
\* the cap, and otherwise drops whole holds or raises the cap, never has more
\* units held than were ever for sale.  HeldWithinPeak is this promise of the
\* reservation service.
LedgerInv ==
    /\ productHash \in [Products -> [Sessions -> 0..MaxQty]]
    /\ \A p \in Products : MaxAvailable(p, peak[p]) \in Nat
    /\ HeldWithinPeak

LEMMA LedgerInvInit == Ledger!Init => LedgerInv
<1> SUFFICES ASSUME Ledger!Init PROVE LedgerInv
    OBVIOUS
<1>1. productHash = [p \in Products |-> Empty(Sessions)]
    BY DEF Ledger!Init, Empty
<1>2. \A p \in Products : MaxAvailable(p, peak[p]) \in Nat
    BY DEF Ledger!Init
<1>3. HeldWithinPeak
    BY <1>1, <1>2, EmptyHoldsNothing, ReservationAssumption DEF HeldWithinPeak
<1>4. productHash \in [Products -> [Sessions -> 0..MaxQty]]
    BY <1>1, ReservationAssumption DEF Empty, ReservationAssumption
<1> QED BY <1>2, <1>3, <1>4 DEF LedgerInv

LEMMA LedgerInvNext ==
    LedgerInv /\ [Ledger!Next]_<<productHash, [p \in Products |-> MaxAvailable(p, peak[p])]>>
        => LedgerInv'
<1> DEFINE cap == [p \in Products |-> MaxAvailable(p, peak[p])]
<1> SUFFICES ASSUME LedgerInv, [Ledger!Next]_<<productHash, cap>> PROVE LedgerInv'
    OBVIOUS
<1>0. \A p \in Products : cap[p] = MaxAvailable(p, peak[p]) /\ cap'[p] = MaxAvailable(p, peak'[p])
    OBVIOUS
<1>a. ASSUME NEW p \in Products, NEW g \in [Sessions -> 0..MaxQty]
      PROVE  ReservedQuantity(g) \in Nat
    BY HeldFinite, ReservationAssumption
<1>1. ASSUME NEW p \in Products, NEW s \in Sessions, NEW q \in 1..MaxQty, Ledger!Grant(p, s, q)
      PROVE  LedgerInv'
  <2> DEFINE h == productHash[p]
             g == [h EXCEPT ![s] = q]
  <2>1. h \in [Sessions -> 0..MaxQty] /\ q \in 0..MaxQty /\ q \in Nat
      BY ReservationAssumption DEF LedgerInv, ReservationAssumption
  <2>2. g \in [Sessions -> 0..MaxQty]
      BY <2>1
  <2>3. productHash' = [productHash EXCEPT ![p] = g] /\ cap' = cap
        /\ ReservedQuantity(h) + q <= cap[p]
      BY <1>1 DEF Ledger!Grant
  <2>4. ReservedQuantity(g) <= ReservedQuantity(h) + q
      BY <2>1, GrantAddsAtMost, ReservationAssumption
  <2>5. ReservedQuantity(g) <= MaxAvailable(p, peak[p])
    <3>1. ReservedQuantity(g) \in Nat /\ ReservedQuantity(h) \in Nat /\ cap[p] \in Nat
        BY <1>a, <1>0, <2>1, <2>2 DEF LedgerInv
    <3> QED BY <1>0, <2>1, <2>3, <2>4, <3>1
  <2>6. productHash' \in [Products -> [Sessions -> 0..MaxQty]]
      BY <2>2, <2>3 DEF LedgerInv
  <2>7. \A x \in Products : MaxAvailable(x, peak'[x]) = MaxAvailable(x, peak[x])
      BY <1>0, <2>3
  <2>8. \A x \in Products : productHash'[x] = IF x = p THEN g ELSE productHash[x]
      BY <2>3 DEF LedgerInv
  <2> QED
    <3> HIDE DEF cap, g, h
    <3> QED BY <2>5, <2>6, <2>7, <2>8 DEF LedgerInv, HeldWithinPeak
<1>2. CASE Ledger!Drop
  <2>1. /\ productHash' \in [Products -> [Sessions -> 0..MaxQty]]
        /\ \A p \in Products, s \in Sessions : productHash'[p][s] \in {0, productHash[p][s]}
        /\ cap' = cap
      BY <1>2 DEF Ledger!Drop
  <2>2. ASSUME NEW p \in Products
        PROVE  ReservedQuantity(productHash'[p]) <= ReservedQuantity(productHash[p])
      BY <2>1, DroppingShrinks, ReservationAssumption DEF LedgerInv
  <2>3. ASSUME NEW p \in Products
        PROVE  ReservedQuantity(productHash'[p]) <= MaxAvailable(p, peak[p])
    <3>1. ReservedQuantity(productHash'[p]) \in Nat /\ ReservedQuantity(productHash[p]) \in Nat
        BY <2>1, HeldFinite, ReservationAssumption
    <3> QED BY <2>2, <3>1 DEF LedgerInv, HeldWithinPeak
  <2>4. \A x \in Products : MaxAvailable(x, peak'[x]) = MaxAvailable(x, peak[x])
      BY <1>0, <2>1
  <2> QED
    <3> HIDE DEF cap
    <3> QED BY <2>1, <2>3, <2>4 DEF LedgerInv, HeldWithinPeak
<1>3. CASE Ledger!Raise
  <2>1. \A p \in Products : cap'[p] \in Nat /\ cap'[p] >= cap[p]
      BY <1>3 DEF Ledger!Raise
  <2>2. productHash' = productHash
      BY <1>3 DEF Ledger!Raise
  <2>3. ASSUME NEW p \in Products
        PROVE  MaxAvailable(p, peak'[p]) \in Nat
               /\ ReservedQuantity(productHash[p]) <= MaxAvailable(p, peak'[p])
    <3>1. ReservedQuantity(productHash[p]) \in Nat
        BY HeldFinite, ReservationAssumption
    <3>2. cap[p] \in Nat /\ ReservedQuantity(productHash[p]) <= cap[p]
        BY <1>0 DEF LedgerInv, HeldWithinPeak
    <3>3. cap'[p] \in Nat /\ cap'[p] >= cap[p] /\ cap'[p] = MaxAvailable(p, peak'[p])
        BY <1>0, <2>1
    <3> HIDE DEF cap
    <3> QED BY <3>1, <3>2, <3>3
  <2> QED
    <3> HIDE DEF cap
    <3> QED BY <2>2, <2>3 DEF LedgerInv, HeldWithinPeak
<1>4. CASE UNCHANGED <<productHash, cap>>
  <2>1. \A x \in Products : MaxAvailable(x, peak'[x]) = MaxAvailable(x, peak[x])
      BY <1>0, <1>4
  <2>2. productHash' = productHash
      BY <1>4
  <2> QED
    <3> HIDE DEF cap
    <3> QED BY <2>1, <2>2 DEF LedgerInv, HeldWithinPeak
<1> QED BY <1>1, <1>2, <1>3, <1>4 DEF Ledger!Next

\* In terms of the service, the ledger's promise is that of the peak.
LEMMA SamePromise == Ledger!WithinCap <=> HeldWithinPeak
<1>1. \A p \in Products :
          [x \in Products |-> MaxAvailable(x, peak[x])][p] = MaxAvailable(p, peak[p])
    OBVIOUS
<1> QED BY <1>1 DEF Ledger!WithinCap, HeldWithinPeak

\* The abstract specification is strong enough for what the Lua script is for:
\* any implementation of the ledger, the service among them, holds no more
\* units of a product than were ever for sale.
THEOREM LedgerPromise == LedgerSpec => []Ledger!WithinCap
<1>1. LedgerInv => Ledger!WithinCap
    BY SamePromise DEF LedgerInv
<1> QED BY LedgerInvInit, LedgerInvNext, <1>1, PTL DEF LedgerSpec, Ledger!Spec

-----------------------------------------------------------------------------
\* What reserve_stock promises, when a session has one request in flight.

\* No two requests in flight work for the same session.
Apart ==
    \A v, w \in Workers :
        (v # w /\ Active(v) /\ Active(w)) => req[v].session # req[w].session

\* Line i of the request's cart is held on both sides, and neither key can
\* expire while the request runs: at most one tick passed since it was renewed.
Left(w) == IF req[w].ticked THEN TTL - 1 ELSE TTL
HoldsLine(w, i) ==
    LET l == req[w].items[i]
        s == req[w].session
    IN  /\ sessionHash[s][l.product] = l.qty
        /\ productHash[l.product][s] = l.qty
        /\ sessionTtl[s] >= Left(w)
        /\ productTtl[l.product] >= Left(w)
HoldsReserved(w) == \A i \in 1..(req[w].next - 1) : HoldsLine(w, i)

\* The session holds nothing but the lines reserved so far.
HoldsNothingElse(w) ==
    \A p \in Products :
        sessionHash[req[w].session][p] > 0 =>
            \E i \in 1..(req[w].next - 1) : req[w].items[i].product = p

\* How far a request has come, and what its session holds there.
Staged(w) ==
    LET r == req[w]
        s == req[w].session
    IN  /\ \A i, j \in DOMAIN r.items : r.items[i].product = r.items[j].product => i = j
        /\ (r.pc \in {"release_read", "release_write"} /\ r.after = "load") => r.next = 1
        /\ r.pc = "load" => r.next = 1 /\ sessionHash[s] = Empty(Products)
        /\ r.pc = "script" => HoldsReserved(w) /\ HoldsNothingElse(w)
        /\ r.result = "reserved" =>
               r.pc = "done" /\ \A i \in DOMAIN r.items : HoldsLine(w, i)
        /\ r.result = "refused" =>
               /\ r.next \in DOMAIN r.items
               /\ \/ /\ r.pc = "release_read" /\ r.after = "done" /\ r.next > 1
                     /\ HoldsReserved(w)
                  \/ /\ r.pc = "release_write" /\ r.after = "done"
                     /\ \A i \in 1..(r.next - 1) : r.items[i].product \in r.snap
                  \/ /\ r.pc = "done"
                     /\ sessionHash[s] = Empty(Products)
                     /\ \A i \in 1..(r.next - 1) : productHash[r.items[i].product][s] = 0

SInv == TypeOK /\ CursorInCart /\ Apart /\ \A w \in Workers : Staged(w)

\* Without extensions a session's key outlives a product's by one tick at
\* most, the tick that may fall between two lines of the same cart.
Covered(s, p) ==
    (sessionHash[s][p] > 0 /\ sessionTtl[s] > 1) =>
        /\ productHash[p][s] = sessionHash[s][p]
        /\ productTtl[p] >= sessionTtl[s] - 1
LInv ==
    /\ \A w \in Workers : req[w].pc \notin {"extend_read", "extend_write"}
    /\ \A s \in Sessions : sessionTtl[s] <= TTL
    /\ \A s \in Sessions, p \in Products : Covered(s, p)

\* What a step that is not of request v leaves of v's session: its holds, and
\* keys that live on or are renewed.
Undisturbed(v) ==
    /\ req'[v] = req[v]
    /\ Active(v) =>
         LET s == req[v].session
         IN  /\ sessionHash'[s] = sessionHash[s]
             /\ sessionTtl'[s] = sessionTtl[s]
             /\ \A p \in Products :
                  /\ productHash'[p][s] = productHash[p][s]
                  /\ productHash[p][s] > 0 =>
                       productTtl'[p] >= productTtl[p] \/ productTtl'[p] >= TTL

\* A line of a request's cart, as a cart line.
LEMMA LineOf ==
    ASSUME TypeOK, NEW w \in Workers, NEW i \in DOMAIN req[w].items
    PROVE  /\ req[w].items[i].product \in Products
           /\ req[w].items[i].qty \in 1..MaxQty
<1>1. req[w].items \in Seq(CartLine)
    BY DEF TypeOK, Request
<1>2. req[w].items[i] \in CartLine
    BY <1>1
<1> QED BY <1>2 DEF CartLine

\* The lines before the cursor are lines of the cart.
LEMMA BeforeCursor ==
    ASSUME TypeOK, NEW w \in Workers, req[w].next \in DOMAIN req[w].items,
           NEW i \in 1..(req[w].next - 1)
    PROVE  i \in DOMAIN req[w].items
<1>1. req[w].items \in Seq(CartLine)
    BY DEF TypeOK, Request
<1> QED BY <1>1

LEMMA LeftType ==
    ASSUME ReservationAssumption, NEW w
    PROVE  Left(w) \in Nat /\ Left(w) <= TTL /\ Left(w) >= TTL - 1 /\ Left(w) >= 1
BY DEF ReservationAssumption, Left

LEMMA HoldKept ==
    ASSUME ReservationAssumption, TypeOK, TypeOK', NEW v \in Workers, Active(v),
           req[v].session \in Sessions, Undisturbed(v),
           NEW i \in DOMAIN req[v].items, HoldsLine(v, i)
    PROVE  HoldsLine(v, i)'
<1> DEFINE p == req[v].items[i].product
           s == req[v].session
<1>1. p \in Products /\ req[v].items[i].qty \in 1..MaxQty
    BY LineOf
<1>2. productHash[p][s] > 0
    BY <1>1 DEF HoldsLine, ReservationAssumption
<1>3. /\ productTtl[p] \in Nat /\ productTtl'[p] \in Nat
    BY <1>1 DEF TypeOK
<1>4. productTtl'[p] >= productTtl[p] \/ productTtl'[p] >= TTL
    BY <1>1, <1>2 DEF Undisturbed
<1>5. productTtl[p] >= Left(v)
    BY DEF HoldsLine
<1>6. productTtl'[p] >= Left(v)
  <2>1. Left(v) \in Nat /\ Left(v) <= TTL /\ TTL \in Nat
      BY LeftType DEF ReservationAssumption
  <2> HIDE DEF p
  <2> QED BY <1>3, <1>4, <1>5, <2>1
<1>7. req'[v] = req[v] /\ Left(v)' = Left(v)
    BY DEF Undisturbed, Left
<1> QED BY <1>1, <1>6, <1>7 DEF HoldsLine, Undisturbed

\* A request that a step does not disturb stays where it is.
LEMMA StagedKept ==
    ASSUME ReservationAssumption, TypeOK, TypeOK', CursorInCart, NEW v \in Workers,
           Staged(v), Undisturbed(v)
    PROVE  Staged(v)'
<1> DEFINE r == req[v]
           s == r.session
<1>1. req'[v] = r
    BY DEF Undisturbed
<1>2. WellPlaced(r) /\ r \in Request
    BY DEF CursorInCart, TypeOK
<1>3. CASE ~Active(v)
  <2>1. r.pc = "idle"
      BY <1>3 DEF Active
  <2> QED BY <1>1, <2>1 DEF Staged
<1>4. CASE Active(v)
  <2>1. s \in Sessions
      BY <1>2, <1>4 DEF WellPlaced, Active
  <2>2. ASSUME NEW i \in DOMAIN r.items, HoldsLine(v, i)
        PROVE  HoldsLine(v, i)'
      BY <1>4, <2>1, <2>2, HoldKept
  <2>3. sessionHash'[s] = sessionHash[s]
      BY <1>4 DEF Undisturbed
  <2>4. ASSUME r.next \in DOMAIN r.items, HoldsReserved(v)
        PROVE  HoldsReserved(v)'
      BY <1>1, <2>2, <2>4, BeforeCursor DEF HoldsReserved
  <2>5. r.pc = "script" => (HoldsReserved(v) /\ HoldsNothingElse(v))'
      BY <1>1, <1>2, <2>3, <2>4 DEF Staged, WellPlaced, HoldsNothingElse
  <2>6. r.result = "reserved" =>
            r.pc = "done" /\ \A i \in DOMAIN r.items : HoldsLine(v, i)'
      BY <2>2 DEF Staged
  <2>7. (r.result = "refused" /\ r.pc = "release_read") => HoldsReserved(v)'
      BY <2>4 DEF Staged
  <2>8. ASSUME r.result = "refused", r.pc = "done", NEW i \in 1..(r.next - 1)
        PROVE  productHash'[r.items[i].product][s] = 0
    <3>1. i \in DOMAIN r.items
        BY <2>8, BeforeCursor DEF Staged
    <3>2. r.items[i].product \in Products
        BY <3>1, LineOf
    <3> QED BY <1>4, <2>8, <3>2 DEF Staged, Undisturbed
  <2> QED BY <1>1, <2>3, <2>5, <2>6, <2>7, <2>8 DEF Staged
<1> QED BY <1>3, <1>4

-----------------------------------------------------------------------------
\* Requests of other sessions do not disturb a request.
LEMMA OthersUndisturbed ==
    ASSUME ReservationAssumption, SInv, NEW w \in Workers, Progress(w) \/ Dies(w),
           NEW v \in Workers, v # w
    PROVE  Undisturbed(v)
<1> USE DEF SInv
<1> DEFINE s == req[v].session
           z == req[w].session
<1>1. req'[v] = req[v]
    BY DEF Progress, ReleaseRead, ReleaseWrite, LoadProducts, ScriptGrant, ScriptRefuse,
           ExtendRead, ExtendWrite, Return, Dies, Becomes, TypeOK
<1>2. SUFFICES ASSUME Active(v)
               PROVE  /\ sessionHash'[s] = sessionHash[s]
                      /\ sessionTtl'[s] = sessionTtl[s]
                      /\ \A p \in Products :
                           /\ productHash'[p][s] = productHash[p][s]
                           /\ productHash[p][s] > 0 =>
                                productTtl'[p] >= productTtl[p] \/ productTtl'[p] >= TTL
    BY <1>1 DEF Undisturbed
<1>3. Active(w)
    BY DEF Progress, ReleaseRead, ReleaseWrite, LoadProducts, ScriptGrant, ScriptRefuse,
           ExtendRead, ExtendWrite, Return, Dies, Active
<1>4. s \in Sessions /\ z \in Sessions /\ s # z
    BY <1>2, <1>3 DEF CursorInCart, WellPlaced, Active, Apart
<1>5. \A p \in Products : productTtl[p] \in Nat /\ productTtl[p] >= productTtl[p]
    BY DEF TypeOK
<1>6. CASE UNCHANGED redis
    BY <1>5, <1>6 DEF redis
<1>7. CASE ReleaseWrite(w)
  <2>1. sessionHash'[s] = sessionHash[s] /\ sessionTtl'[s] = sessionTtl[s]
      BY <1>4, <1>7 DEF ReleaseWrite, TypeOK
  <2>2. ASSUME NEW p \in Products
        PROVE  /\ productHash'[p][s] = productHash[p][s]
               /\ productHash[p][s] > 0 => productTtl'[p] = productTtl[p]
    <3>1. productHash'[p][s] = productHash[p][s]
        BY <1>4, <1>7 DEF ReleaseWrite, TypeOK
    <3>2. productTtl'[p] = Expiry(productHash'[p], productTtl[p])
        BY <1>7 DEF ReleaseWrite
    <3>3. s \in DOMAIN productHash'[p]
        BY <1>4, <1>7 DEF ReleaseWrite, TypeOK
    <3> QED BY <3>1, <3>2, <3>3 DEF Expiry
  <2> QED BY <1>5, <2>1, <2>2
<1>8. CASE ScriptGrant(w)
  <2>1. Line(w).product \in Products
      BY <1>8, LineType DEF ScriptGrant, CartLine
  <2>2. sessionHash'[s] = sessionHash[s] /\ sessionTtl'[s] = sessionTtl[s]
      BY <1>4, <1>8 DEF ScriptGrant, TypeOK, Renewed
  <2>3. ASSUME NEW p \in Products
        PROVE  /\ productHash'[p][s] = productHash[p][s]
               /\ productTtl'[p] \in {productTtl[p], TTL}
      BY <1>4, <1>8, <2>1 DEF ScriptGrant, TypeOK, Renewed
  <2>4. TTL >= TTL
      BY DEF ReservationAssumption
  <2> QED BY <1>5, <2>2, <2>3, <2>4
<1>9. CASE ExtendWrite(w)
  <2>1. sessionHash'[s] = sessionHash[s] /\ sessionTtl'[s] = sessionTtl[s]
      BY <1>4, <1>9 DEF ExtendWrite, TypeOK
  <2>2. TTL + req[w].extra >= TTL
    <3>1. req[w].extra \in Extras \cup {0}
        BY DEF TypeOK, Request
    <3> QED BY <3>1, ExtendedLife
  <2>3. ASSUME NEW p \in Products, productHash[p][s] > 0
        PROVE  productTtl'[p] \in {productTtl[p], TTL + req[w].extra}
    <3>1. s \in DOMAIN productHash[p]
        BY <1>4 DEF TypeOK
    <3> QED BY <1>9, <2>3, <3>1 DEF ExtendWrite, Expiry
  <2>4. \A p \in Products : productHash'[p][s] = productHash[p][s]
      BY <1>9 DEF ExtendWrite
  <2> QED BY <1>5, <2>1, <2>2, <2>3, <2>4
<1> QED BY <1>6, <1>7, <1>8, <1>9 DEF Progress, ReleaseRead, LoadProducts, ScriptRefuse,
           ExtendRead, Return, Dies

\* Requests keep to their sessions.
LEMMA ApartNext ==
    ASSUME ReservationAssumption, SerialSessions, SInv, [Next]_vars
    PROVE  Apart'
<1> USE DEF SInv
<1>1. ASSUME NEW w \in Workers, NEW s \in Sessions,
             \/ \E c \in Carts : StartReserve(w, s, c)
             \/ StartRelease(w, s)
             \/ \E x \in Extras : StartExtend(w, s, x)
      PROVE  Apart'
  <2>1. ASSUME NEW r, Begin(w, s, r), r.session = s
        PROVE  Apart'
    <3>1. \A v \in Workers : v # w => req'[v] = req[v]
        BY <2>1 DEF Begin, Becomes, TypeOK
    <3>2. req'[w].session = s
        BY <2>1 DEF Begin, Becomes, TypeOK
    <3>3. \A v \in Workers : Active(v) => req[v].session # s
        BY <2>1 DEF Begin
    <3> QED BY <3>1, <3>2, <3>3 DEF Apart, Active
  <2>2. CASE \E c \in Carts : StartReserve(w, s, c)
      BY <2>1, <2>2, IdleType DEF StartReserve, Request
  <2>3. CASE StartRelease(w, s)
      BY <2>1, <2>3, IdleType DEF StartRelease, Request
  <2>4. CASE \E x \in Extras : StartExtend(w, s, x)
      BY <2>1, <2>4, IdleType DEF StartExtend, Request
  <2> QED BY <1>1, <2>2, <2>3, <2>4
<1>2. ASSUME NEW w \in Workers, Progress(w) \/ Dies(w)
      PROVE  Apart'
  <2>1. \A v \in Workers : v # w => req'[v] = req[v]
      BY <1>2, OthersUndisturbed DEF Undisturbed
  <2>2. Active(w)
      BY <1>2 DEF Progress, ReleaseRead, ReleaseWrite, LoadProducts, ScriptGrant,
             ScriptRefuse, ExtendRead, ExtendWrite, Return, Dies, Active
  <2>3. req'[w].session = req[w].session \/ req'[w].pc = "idle"
    <3>1. req[w] \in Request
        BY DEF TypeOK
    <3>2. CASE Return(w) \/ Dies(w)
        BY <3>2 DEF Return, Dies, Becomes, TypeOK, Idle
    <3>3. ASSUME NEW r, Becomes(w, r), r.session = req[w].session
          PROVE  req'[w].session = req[w].session
        BY <3>3 DEF Becomes, TypeOK
    <3>4. CASE ReleaseRead(w) \/ ReleaseWrite(w)
        BY <3>1, <3>3, <3>4 DEF ReleaseRead, ReleaseWrite, Request
    <3>5. CASE LoadProducts(w)
        BY <3>1, <3>3, <3>5 DEF LoadProducts, Request
    <3>6. CASE ScriptGrant(w) \/ ScriptRefuse(w)
        BY <3>1, <3>3, <3>6 DEF ScriptGrant, ScriptRefuse, Request
    <3>7. CASE ExtendRead(w) \/ ExtendWrite(w)
        BY <3>1, <3>3, <3>7 DEF ExtendRead, ExtendWrite, Request
    <3> QED BY <1>2, <3>2, <3>4, <3>5, <3>6, <3>7 DEF Progress
  <2> QED BY <2>1, <2>2, <2>3 DEF Apart, Active
<1>3. CASE Tick
  <2>1. \A w \in Workers : req'[w].pc = req[w].pc /\ req'[w].session = req[w].session
    <3>1. \A w \in Workers : req[w] \in Request
        BY DEF TypeOK
    <3> QED BY <1>3, <3>1 DEF Tick, Request
  <2> QED BY <2>1 DEF Apart, Active
<1>4. CASE UNCHANGED req
    BY <1>4 DEF Apart, Active
<1> QED BY <1>1, <1>2, <1>3, <1>4 DEF Next, StockWrite, vars

-----------------------------------------------------------------------------
\* The steps of a request keep it staged.
LEMMA StagedBegin ==
    ASSUME ReservationAssumption, CartsAssumption, SInv,
           NEW w \in Workers, NEW s \in Sessions,
           \/ \E c \in Carts : StartReserve(w, s, c)
           \/ StartRelease(w, s)
           \/ \E x \in Extras : StartExtend(w, s, x)
    PROVE  Staged(w)'
<1> USE DEF SInv
<1>1. ASSUME NEW r, Becomes(w, r)
      PROVE  req'[w] = r
    BY <1>1 DEF Becomes, TypeOK
<1>2. CASE \E c \in Carts : StartReserve(w, s, c)
  <2> PICK c \in Carts : StartReserve(w, s, c)
      BY <1>2
  <2> DEFINE r == [Idle EXCEPT !.pc = "release_read", !.session = s, !.items = c,
                               !.after = "load"]
  <2>1. req'[w] = r
      BY <1>1 DEF StartReserve, Begin
  <2>2. \A i, j \in DOMAIN c : c[i].product = c[j].product => i = j
      BY DEF CartsAssumption
  <2> QED BY <2>1, <2>2 DEF Staged, Idle
<1>3. CASE StartRelease(w, s)
  <2>1. /\ req'[w].pc = "release_read" /\ req'[w].after = "done"
        /\ req'[w].result = "released" /\ req'[w].items = <<>>
      BY <1>1, <1>3 DEF StartRelease, Begin, Idle
  <2>2. DOMAIN req'[w].items = {}
      BY <2>1
  <2> QED BY <2>1, <2>2 DEF Staged
<1>4. CASE \E x \in Extras : StartExtend(w, s, x)
  <2>1. /\ req'[w].pc = "extend_read"
        /\ req'[w].result = "extended" /\ req'[w].items = <<>>
      BY <1>1, <1>4 DEF StartExtend, Begin, Idle
  <2>2. DOMAIN req'[w].items = {}
      BY <2>1
  <2> QED BY <2>1, <2>2 DEF Staged
<1> QED BY <1>2, <1>3, <1>4

LEMMA StagedRelease ==
    ASSUME ReservationAssumption, SInv, NEW w \in Workers, ReleaseRead(w) \/ ReleaseWrite(w)
    PROVE  Staged(w)'
<1> USE DEF SInv
<1> DEFINE r == req[w]
           s == r.session
<1>1. r \in Request /\ Staged(w) /\ s \in Sessions
    BY DEF TypeOK, CursorInCart, WellPlaced, ReleaseRead, ReleaseWrite
<1>2. ASSUME NEW q, Becomes(w, q)
      PROVE  req'[w] = q
    BY <1>2 DEF Becomes, TypeOK
<1>3. sessionHash[s] \in [Products -> 0..MaxQty]
    BY <1>1 DEF TypeOK
<1>4. CASE ReleaseRead(w)
  <2> DEFINE found == {p \in Products : sessionHash[s][p] > 0}
             q == [r EXCEPT !.snap = found,
                            !.pc = IF found = {} THEN r.after ELSE "release_write"]
  <2>1. req'[w] = q /\ UNCHANGED redis
      BY <1>2, <1>4 DEF ReleaseRead
  <2>2. /\ q.items = r.items /\ q.next = r.next /\ q.after = r.after
        /\ q.session = s /\ q.result = r.result /\ q.snap = found
        /\ q.pc = IF found = {} THEN r.after ELSE "release_write"
      BY <1>1 DEF Request
  <2>3. found = {} => sessionHash[s] = Empty(Products)
      BY <1>3 DEF Empty, ReservationAssumption
  <2>4. r.pc = "release_read"
      BY <1>4 DEF ReleaseRead
  <2>5. r.result = "refused" =>
            found # {} /\ \A i \in 1..(r.next - 1) : r.items[i].product \in found
    <3> SUFFICES ASSUME r.result = "refused"
                 PROVE  found # {} /\ \A i \in 1..(r.next - 1) : r.items[i].product \in found
        OBVIOUS
    <3>1. /\ r.next \in DOMAIN r.items /\ r.next > 1 /\ HoldsReserved(w)
        BY <1>1, <2>4 DEF Staged
    <3>2. ASSUME NEW i \in 1..(r.next - 1)
          PROVE  r.items[i].product \in found
      <4>1. i \in DOMAIN r.items
          BY <3>1, BeforeCursor
      <4>2. r.items[i].product \in Products /\ r.items[i].qty \in 1..MaxQty
          BY <4>1, LineOf
      <4>3. sessionHash[s][r.items[i].product] = r.items[i].qty
          BY <3>1 DEF HoldsReserved, HoldsLine
      <4> QED BY <4>2, <4>3 DEF ReservationAssumption
    <3>3. 1 \in 1..(r.next - 1)
        BY <1>1, <3>1 DEF Request
    <3> QED BY <3>2, <3>3
  <2>6. r.after \in {"idle", "load", "done"}
      BY <1>1 DEF Request
  <2> HIDE DEF found, q
  <2>7. r.result = "refused" => r.next \in DOMAIN r.items /\ r.after = "done"
      BY <1>1, <2>4 DEF Staged
  <2>8. r.result # "reserved" /\ (r.after = "load" => r.next = 1)
        /\ \A i, j \in DOMAIN r.items : r.items[i].product = r.items[j].product => i = j
      BY <1>1, <2>4 DEF Staged
  <2> QED BY <2>1, <2>2, <2>3, <2>5, <2>6, <2>7, <2>8 DEF Staged, redis
<1>5. CASE ReleaseWrite(w)
  <2> DEFINE q == [r EXCEPT !.pc = r.after, !.snap = {}]
  <2>1. req'[w] = q
      BY <1>2, <1>5 DEF ReleaseWrite
  <2>2. /\ q.items = r.items /\ q.next = r.next /\ q.after = r.after
        /\ q.session = s /\ q.result = r.result /\ q.pc = r.after
      BY <1>1 DEF Request
  <2>3. sessionHash'[s] = Empty(Products)
      BY <1>1, <1>5 DEF ReleaseWrite, TypeOK
  <2>4. \A p \in r.snap : productHash'[p][s] = 0
      BY <1>1, <1>5 DEF ReleaseWrite, TypeOK, Request
  <2>5. r.pc = "release_write"
      BY <1>5 DEF ReleaseWrite
  <2>6. r.after \in {"idle", "load", "done"}
      BY <1>1 DEF Request
  <2> HIDE DEF q
  <2> QED BY <1>1, <2>1, <2>2, <2>3, <2>4, <2>5, <2>6 DEF Staged
<1> QED BY <1>4, <1>5

LEMMA StagedLoad ==
    ASSUME ReservationAssumption, SInv, NEW w \in Workers, LoadProducts(w)
    PROVE  Staged(w)'
<1> USE DEF SInv
<1> DEFINE r == req[w]
           s == r.session
           avail == [p \in Products |-> MaxAvailable(p, stock[p])]
<1>1. r \in Request /\ Staged(w) /\ r.pc = "load"
    BY DEF TypeOK, LoadProducts
<1>2. r.next \in DOMAIN r.items /\ s \in Sessions
    BY <1>1 DEF CursorInCart, WellPlaced
<1>3. UNCHANGED redis
    BY DEF LoadProducts
<1>4. r.next = 1 /\ sessionHash[s] = Empty(Products) /\ r.result # "reserved"
      /\ \A i, j \in DOMAIN r.items : r.items[i].product = r.items[j].product => i = j
    BY <1>1 DEF Staged
<1>5. 1..(r.next - 1) = {}
    BY <1>4
<1>6. CASE Becomes(w, [r EXCEPT !.pc = "script", !.avail = avail])
  <2>1. /\ req'[w].pc = "script" /\ req'[w].session = s /\ req'[w].next = r.next
        /\ req'[w].items = r.items /\ req'[w].result = r.result
      BY <1>1, <1>6 DEF Becomes, TypeOK, Request
  <2>2. r.result # "refused"
      BY <1>1 DEF Staged
  <2>3. HoldsReserved(w)'
      BY <1>5, <2>1 DEF HoldsReserved
  <2>4. HoldsNothingElse(w)'
      BY <1>3, <1>4, <2>1 DEF HoldsNothingElse, Empty, redis
  <2> QED BY <1>4, <2>1, <2>2, <2>3, <2>4 DEF Staged
<1>7. CASE Becomes(w, [r EXCEPT !.pc = "done", !.result = "refused"])
  <2>1. /\ req'[w].pc = "done" /\ req'[w].session = s /\ req'[w].next = r.next
        /\ req'[w].items = r.items /\ req'[w].result = "refused"
      BY <1>1, <1>7 DEF Becomes, TypeOK, Request
  <2> QED BY <1>2, <1>3, <1>4, <1>5, <2>1 DEF Staged, redis
<1> QED BY <1>6, <1>7 DEF LoadProducts

LEMMA StagedScript ==
    ASSUME ReservationAssumption, SInv, NEW w \in Workers, ScriptGrant(w) \/ ScriptRefuse(w)
    PROVE  Staged(w)'
<1> USE DEF SInv
<1> DEFINE r == req[w]
           s == r.session
<1>1. r \in Request /\ Staged(w) /\ r.pc = "script"
    BY DEF TypeOK, ScriptGrant, ScriptRefuse
<1>2. r.next \in DOMAIN r.items /\ s \in Sessions
    BY <1>1 DEF CursorInCart, WellPlaced
<1>3. /\ HoldsReserved(w) /\ HoldsNothingElse(w)
      /\ r.result # "reserved" /\ r.result # "refused"
      /\ \A i, j \in DOMAIN r.items : r.items[i].product = r.items[j].product => i = j
    BY <1>1 DEF Staged
<1>4. CASE ScriptGrant(w)
  <2> DEFINE p == r.items[r.next].product
             n == r.items[r.next].qty
  <2>1. p \in Products /\ n \in 1..MaxQty
      BY <1>2, LineOf
  <2>2. Line(w).product = p /\ Line(w).qty = n
      BY DEF Line
  <2>3. /\ productHash' = [productHash EXCEPT ![p][s] = n]
        /\ productTtl' = [productTtl EXCEPT ![p] = TTL]
        /\ sessionHash' = [sessionHash EXCEPT ![s][p] = n]
        /\ sessionTtl' = [sessionTtl EXCEPT ![s] = TTL]
      BY <1>4, <2>2 DEF ScriptGrant, Renewed
  <2>4. /\ req'[w].items = r.items /\ req'[w].session = s /\ req'[w].ticked = r.ticked
        /\ req'[w].next = r.next + 1
        /\ req'[w].pc = IF r.next = Len(r.items) THEN "done" ELSE "script"
        /\ req'[w].result = IF r.next = Len(r.items) THEN "reserved" ELSE "none"
      BY <1>1, <1>4 DEF ScriptGrant, AllReserved, Becomes, TypeOK, Request
  <2>5. Left(w)' = Left(w) /\ Left(w) \in Nat /\ Left(w) <= TTL
      BY <2>4, LeftType DEF Left
  <2>6. r.next \in Nat /\ r.items \in Seq(CartLine) /\ DOMAIN r.items = 1..Len(r.items)
      BY <1>1 DEF Request
  <2>7. ASSUME NEW i \in 1..r.next
        PROVE  HoldsLine(w, i)'
    <3>1. i \in DOMAIN r.items
        BY <1>2, <2>6
    <3>2. r.items[i].product \in Products
        BY <3>1, LineOf
    <3>3. CASE i = r.next
        BY <1>2, <2>1, <2>3, <2>4, <2>5, <3>3 DEF HoldsLine, TypeOK, ReservationAssumption
    <3>4. CASE i # r.next
      <4>1. HoldsLine(w, i)
          BY <1>3, <2>6, <3>4 DEF HoldsReserved
      <4>2. r.items[i].product # p
          BY <1>2, <1>3, <3>1, <3>4
      <4>3. TTL >= Left(w)
          BY <2>5 DEF ReservationAssumption
      <4> HIDE DEF p, n
      <4> QED BY <1>2, <2>1, <2>3, <2>4, <2>5, <3>2, <4>1, <4>2, <4>3 DEF HoldsLine, TypeOK
    <3> QED BY <3>3, <3>4
  <2>8. HoldsReserved(w)'
      BY <2>4, <2>6, <2>7 DEF HoldsReserved
  <2>9. HoldsNothingElse(w)'
    <3> SUFFICES ASSUME NEW x \in Products, sessionHash'[s][x] > 0
                 PROVE  \E i \in 1..r.next : r.items[i].product = x
        BY <2>4, <2>6 DEF HoldsNothingElse
    <3>1. CASE x = p
      <4>1. r.next \in 1..r.next
          BY <1>2, <2>6
      <4> QED BY <3>1, <4>1
    <3>2. CASE x # p
      <4>1. sessionHash[s][x] > 0
          BY <1>2, <2>1, <2>3, <3>2 DEF TypeOK
      <4>2. PICK i \in 1..(r.next - 1) : r.items[i].product = x
          BY <1>3, <4>1 DEF HoldsNothingElse
      <4>3. i \in 1..r.next
          BY <2>6
      <4> QED BY <4>2, <4>3
    <3> QED BY <3>1, <3>2
  <2>10. CASE r.next = Len(r.items)
      BY <1>3, <2>4, <2>6, <2>7, <2>10 DEF Staged
  <2>11. CASE r.next # Len(r.items)
      BY <1>3, <2>4, <2>8, <2>9, <2>11 DEF Staged
  <2> QED BY <2>10, <2>11
<1>5. CASE ScriptRefuse(w)
  <2>1. /\ req'[w].items = r.items /\ req'[w].session = s /\ req'[w].ticked = r.ticked
        /\ req'[w].next = r.next /\ req'[w].after = "done" /\ req'[w].result = "refused"
        /\ req'[w].pc = IF r.next > 1 THEN "release_read" ELSE "done"
      BY <1>1, <1>5 DEF ScriptRefuse, Rollback, Becomes, TypeOK, Request
  <2>2. UNCHANGED redis
      BY <1>5 DEF ScriptRefuse
  <2>3. HoldsReserved(w)'
      BY <1>3, <2>1, <2>2 DEF HoldsReserved, HoldsLine, Left, redis
  <2>4. CASE r.next > 1
      BY <1>2, <1>3, <2>1, <2>3, <2>4 DEF Staged
  <2>5. CASE ~(r.next > 1)
    <3>1. r.next = 1 /\ 1..(r.next - 1) = {}
        BY <1>1, <2>5 DEF Request
    <3>2. sessionHash[s] \in [Products -> 0..MaxQty]
        BY <1>2 DEF TypeOK
    <3>3. sessionHash[s] = Empty(Products)
        BY <1>3, <3>1, <3>2 DEF HoldsNothingElse, Empty, ReservationAssumption
    <3> QED BY <1>2, <1>3, <2>1, <2>2, <2>5, <3>1, <3>3 DEF Staged, redis
  <2> QED BY <2>4, <2>5
<1> QED BY <1>4, <1>5

LEMMA StagedProgress ==
    ASSUME ReservationAssumption, SInv, NEW w \in Workers, Progress(w) \/ Dies(w)
    PROVE  Staged(w)'
<1> USE DEF SInv
<1>1. req[w] \in Request /\ Staged(w)
    BY DEF TypeOK
<1>2. CASE ExtendRead(w) \/ ExtendWrite(w)
  <2>1. /\ req'[w].items = req[w].items /\ req'[w].result = req[w].result
        /\ req'[w].pc \in {"done", "extend_write"}
    <3>1. ASSUME NEW q, Becomes(w, q)
          PROVE  req'[w] = q
        BY <3>1 DEF Becomes, TypeOK
    <3>2. CASE ExtendRead(w)
        BY <1>1, <3>1, <3>2 DEF ExtendRead, Request
    <3>3. CASE ExtendWrite(w)
        BY <1>1, <3>1, <3>3 DEF ExtendWrite, Request
    <3> QED BY <1>2, <3>2, <3>3
  <2>2. req[w].result # "reserved" /\ req[w].result # "refused"
      BY <1>1, <1>2 DEF ExtendRead, ExtendWrite, Staged
  <2> QED BY <1>1, <2>1, <2>2 DEF Staged
<1>3. CASE Return(w) \/ Dies(w)
  <2>1. req'[w] = Idle
      BY <1>3 DEF Return, Dies, Becomes, TypeOK
  <2>2. DOMAIN req'[w].items = {} /\ req'[w].pc = "idle" /\ req'[w].result = "none"
      BY <2>1 DEF Idle
  <2> QED BY <2>2 DEF Staged
<1> QED BY <1>2, <1>3, StagedRelease, StagedLoad, StagedScript DEF Progress

\* A tick ages the keys of every session; those of a request that has not
\* seen one yet live on.
LEMMA StagedTick ==
    ASSUME ReservationAssumption, SInv, TypeOK', Tick, NEW w \in Workers
    PROVE  Staged(w)'
<1> USE DEF SInv
<1> DEFINE r == req[w]
           s == r.session
<1>1. r \in Request /\ Staged(w) /\ ~r.ticked
    BY DEF TypeOK, Tick
<1>2. CASE ~Active(w)
  <2>1. req'[w] = r /\ r.pc = "idle"
      BY <1>2 DEF Tick, Active
  <2> QED BY <1>1, <2>1 DEF Staged
<1>3. CASE Active(w)
  <2>1. /\ req'[w].items = r.items /\ req'[w].session = s /\ req'[w].next = r.next
        /\ req'[w].pc = r.pc /\ req'[w].after = r.after /\ req'[w].result = r.result
        /\ req'[w].snap = r.snap /\ req'[w].ticked
      BY <1>1, <1>3 DEF Tick, Request
  <2>2. s \in Sessions
      BY <1>3 DEF CursorInCart, WellPlaced, Active
  <2>3. sessionHash'[s] \in {sessionHash[s], Empty(Products)}
      BY <2>2 DEF Tick
  <2>4. \A p \in Products : productHash'[p][s] \in {productHash[p][s], 0}
      BY <2>2 DEF Tick, Empty
  <2>5. ASSUME NEW i \in DOMAIN r.items, HoldsLine(w, i)
        PROVE  HoldsLine(w, i)'
    <3> DEFINE p == r.items[i].product
    <3>1. p \in Products
        BY LineOf
    <3>2. /\ sessionTtl[s] \in Nat /\ productTtl[p] \in Nat
          /\ sessionTtl[s] >= TTL /\ productTtl[p] >= TTL
        BY <1>1, <2>2, <2>5, <3>1 DEF HoldsLine, Left, TypeOK
    <3>3. TTL \in Nat /\ TTL >= 2
        BY DEF ReservationAssumption
    <3>4. /\ sessionTtl'[s] = sessionTtl[s] - 1 /\ productTtl'[p] = productTtl[p] - 1
          /\ sessionHash'[s] = sessionHash[s] /\ productHash'[p] = productHash[p]
        BY <2>2, <3>1, <3>2, <3>3 DEF Tick, Aged
    <3>5. sessionTtl'[s] >= TTL - 1 /\ productTtl'[p] >= TTL - 1
      <4> HIDE DEF p
      <4> QED BY <3>2, <3>3, <3>4
    <3>6. Left(w)' = TTL - 1
        BY <2>1 DEF Left
    <3> QED BY <2>1, <2>5, <3>4, <3>5, <3>6 DEF HoldsLine
  <2>6. ASSUME r.next \in DOMAIN r.items, HoldsReserved(w)
        PROVE  HoldsReserved(w)'
      BY <2>1, <2>5, <2>6, BeforeCursor DEF HoldsReserved
  <2>7. HoldsNothingElse(w) => HoldsNothingElse(w)'
    <3>1. \A p \in Products : sessionHash'[s][p] > 0 => sessionHash[s][p] > 0
        BY <2>3 DEF Empty
    <3> QED BY <2>1, <3>1 DEF HoldsNothingElse
  <2>8. r.pc = "script" => (HoldsReserved(w) /\ HoldsNothingElse(w))'
      BY <1>1, <2>6, <2>7 DEF Staged, CursorInCart, WellPlaced
  <2>9. sessionHash[s] = Empty(Products) => sessionHash'[s] = Empty(Products)
      BY <2>3
  <2>10. ASSUME r.result = "refused", r.pc = "done", NEW i \in 1..(r.next - 1)
         PROVE  productHash'[r.items[i].product][s] = 0
    <3>1. i \in DOMAIN r.items
        BY <1>1, <2>10, BeforeCursor DEF Staged
    <3>2. r.items[i].product \in Products
        BY <3>1, LineOf
    <3> QED BY <1>1, <2>4, <2>10, <3>2 DEF Staged
  <2>11. r.result = "reserved" =>
            r.pc = "done" /\ \A i \in DOMAIN r.items : HoldsLine(w, i)'
      BY <1>1, <2>5 DEF Staged
  <2>12. (r.result = "refused" /\ r.pc = "release_read") => HoldsReserved(w)'
      BY <1>1, <2>6 DEF Staged
  <2> QED BY <1>1, <2>1, <2>8, <2>9, <2>10, <2>11, <2>12 DEF Staged
<1> QED BY <1>2, <1>3

LEMMA SInvInit == Init => SInv
<1> SUFFICES ASSUME Init PROVE SInv
    OBVIOUS
<1>1. TypeOK /\ CursorInCart
    BY TypesInit, ReservationAssumption
<1>2. Apart
    BY DEF Init, Apart, Active, Idle
<1>3. ASSUME NEW w \in Workers PROVE Staged(w)
  <2>1. req[w] = Idle
      BY DEF Init
  <2>2. DOMAIN req[w].items = {} /\ req[w].pc = "idle" /\ req[w].result = "none"
      BY <2>1 DEF Idle
  <2> QED BY <2>2 DEF Staged
<1> QED BY <1>1, <1>2, <1>3 DEF SInv

LEMMA SInvNext ==
    ASSUME SerialSessions, SInv, [Next]_vars
    PROVE  SInv'
<1> USE DEF SInv
<1>1. TypeOK' /\ CursorInCart'
    BY TypesNext, ReservationAssumption, CartsAssumption
<1>2. Apart'
    BY ApartNext, ReservationAssumption
<1>3. ASSUME NEW v \in Workers, Undisturbed(v)
      PROVE  Staged(v)'
    BY <1>1, <1>3, StagedKept, ReservationAssumption
<1>4. ASSUME NEW v \in Workers, UNCHANGED redis, req'[v] = req[v]
      PROVE  Staged(v)'
  <2>1. \A p \in Products : productTtl[p] >= productTtl[p]
      BY DEF TypeOK
  <2> QED BY <1>3, <1>4, <2>1 DEF Undisturbed, redis
<1>5. ASSUME NEW v \in Workers PROVE Staged(v)'
  <2>1. ASSUME NEW w \in Workers, NEW s \in Sessions,
               \/ \E c \in Carts : StartReserve(w, s, c)
               \/ StartRelease(w, s)
               \/ \E x \in Extras : StartExtend(w, s, x)
        PROVE  Staged(v)'
    <3>1. UNCHANGED redis /\ (v # w => req'[v] = req[v])
        BY <2>1 DEF StartReserve, StartRelease, StartExtend, Begin, Becomes, TypeOK
    <3> QED BY <1>4, <2>1, <3>1, StagedBegin, ReservationAssumption, CartsAssumption
  <2>2. ASSUME NEW w \in Workers, Progress(w) \/ Dies(w)
        PROVE  Staged(v)'
      BY <1>3, <2>2, StagedProgress, OthersUndisturbed, ReservationAssumption
  <2>3. CASE Tick
      BY <1>1, <2>3, StagedTick, ReservationAssumption
  <2>4. CASE UNCHANGED <<redis, req>>
      BY <1>4, <2>4
  <2> QED BY <2>1, <2>2, <2>3, <2>4 DEF Next, StockWrite, vars, redis
<1> QED BY <1>1, <1>2, <1>5

\* A reserve_stock call that reports success holds every line of its cart, in
\* both hashes, whatever checkouts of other sessions and expiries fell between
\* its lines.
THEOREM SuccessHolds ==
    ASSUME SerialSessions
    PROVE  Spec => []SuccessHoldsAll
<1>1. SInv => SuccessHoldsAll
    BY DEF SInv, SuccessHoldsAll, Staged, HoldsLine
<1>2. SInv /\ [Next]_vars => SInv'
    BY SInvNext
<1> QED BY SInvInit, <1>1, <1>2, PTL DEF Spec

\* A reserve_stock call that reports failure has undone all it reserved.
THEOREM RefusalUndoes ==
    ASSUME SerialSessions
    PROVE  Spec => []RefusalHoldsNothing
<1>1. SInv => RefusalHoldsNothing
    BY DEF SInv, RefusalHoldsNothing, Staged
<1>2. SInv /\ [Next]_vars => SInv'
    BY SInvNext
<1> QED BY SInvInit, <1>1, <1>2, PTL DEF Spec

-----------------------------------------------------------------------------
\* Holds on record stay counted.
LEMMA NoExtensions ==
    ASSUME Extras = {}, TypeOK, LInv, [Next]_vars
    PROVE  \A w \in Workers : req'[w].pc \notin {"extend_read", "extend_write"}
<1> SUFFICES ASSUME NEW v \in Workers
             PROVE  req'[v].pc \notin {"extend_read", "extend_write"}
    OBVIOUS
<1>1. req[v] \in Request /\ req[v].pc \notin {"extend_read", "extend_write"}
    BY DEF LInv, TypeOK
<1>2. ASSUME NEW w \in Workers, NEW r, Becomes(w, r),
             r.pc \notin {"extend_read", "extend_write"}
      PROVE  req'[v].pc \notin {"extend_read", "extend_write"}
    BY <1>1, <1>2 DEF Becomes, TypeOK
<1>3. ASSUME NEW w \in Workers, NEW s \in Sessions,
             \/ \E c \in Carts : StartReserve(w, s, c)
             \/ StartRelease(w, s)
             \/ \E x \in Extras : StartExtend(w, s, x)
      PROVE  req'[v].pc \notin {"extend_read", "extend_write"}
  <2>1. CASE \E c \in Carts : StartReserve(w, s, c)
      BY <1>2, <2>1, IdleType DEF StartReserve, Begin, Request
  <2>2. CASE StartRelease(w, s)
      BY <1>2, <2>2, IdleType DEF StartRelease, Begin, Request
  <2> QED BY <1>3, <2>1, <2>2
<1>4. ASSUME NEW w \in Workers, Progress(w) \/ Dies(w)
      PROVE  req'[v].pc \notin {"extend_read", "extend_write"}
  <2>0. req[w] \in Request
      BY DEF TypeOK
  <2>1. CASE ReleaseRead(w) \/ ReleaseWrite(w)
      BY <1>2, <2>0, <2>1 DEF ReleaseRead, ReleaseWrite, Request
  <2>2. CASE LoadProducts(w)
      BY <1>2, <2>0, <2>2 DEF LoadProducts, Request
  <2>3. CASE ScriptGrant(w) \/ ScriptRefuse(w)
      BY <1>2, <2>0, <2>3 DEF ScriptGrant, ScriptRefuse, Rollback, Request
  <2>4. CASE Return(w) \/ Dies(w)
      BY <1>2, <2>4 DEF Return, Dies, Idle
  <2>5. ~ExtendRead(w) /\ ~ExtendWrite(w)
      BY DEF LInv, ExtendRead, ExtendWrite
  <2> QED BY <1>4, <2>1, <2>2, <2>3, <2>4, <2>5 DEF Progress
<1>5. CASE Tick
    BY <1>1, <1>5 DEF Tick, Request
<1>6. CASE UNCHANGED req
    BY <1>1, <1>6
<1> QED BY <1>3, <1>4, <1>5, <1>6 DEF Next, StockWrite, vars

LEMMA CoveredGrant ==
    ASSUME ReservationAssumption, SInv, LInv, NEW w \in Workers, ScriptGrant(w),
           NEW s \in Sessions, NEW p \in Products
    PROVE  Covered(s, p)'
<1> USE DEF SInv, LInv
<1> DEFINE r == req[w]
           z == r.session
           x == Line(w).product
           n == Line(w).qty
<1>1. r \in Request /\ Staged(w) /\ r.pc = "script" /\ z \in Sessions
      /\ r.next \in DOMAIN r.items
    BY DEF TypeOK, ScriptGrant, CursorInCart, WellPlaced
<1>2. x \in Products
    BY LineType DEF ScriptGrant, CartLine
<1>3. /\ productHash' = [productHash EXCEPT ![x][z] = n]
      /\ productTtl' = [productTtl EXCEPT ![x] = TTL]
      /\ sessionHash' = [sessionHash EXCEPT ![z][x] = n]
      /\ sessionTtl' = [sessionTtl EXCEPT ![z] = TTL]
    BY DEF ScriptGrant, Renewed
<1> HIDE DEF x, n, z
<1>4. TTL \in Nat /\ sessionTtl[s] \in Nat /\ productTtl[p] \in Nat /\ sessionTtl[s] <= TTL
    BY DEF ReservationAssumption, TypeOK
<1>5. sessionTtl'[s] <= TTL /\ sessionTtl'[s] \in Nat
    BY <1>1, <1>3, <1>4 DEF TypeOK
<1>6. CASE p = x
  <2>1. productTtl'[p] >= sessionTtl'[s] - 1
      BY <1>2, <1>3, <1>4, <1>5, <1>6 DEF TypeOK
  <2>2. s = z => productHash'[p][s] = sessionHash'[s][p]
      BY <1>1, <1>2, <1>3, <1>6 DEF TypeOK
  <2>3. s # z => /\ productHash'[p][s] = productHash[p][s]
                 /\ sessionHash'[s][p] = sessionHash[s][p]
                 /\ sessionTtl'[s] = sessionTtl[s]
      BY <1>1, <1>2, <1>3, <1>6 DEF TypeOK
  <2>4. Covered(s, p)
      OBVIOUS
  <2> QED BY <1>5, <2>1, <2>2, <2>3, <2>4 DEF Covered
<1>7. CASE p # x
  <2>1. /\ productHash'[p][s] = productHash[p][s]
        /\ sessionHash'[s][p] = sessionHash[s][p]
        /\ productTtl'[p] = productTtl[p]
      BY <1>1, <1>2, <1>3, <1>7 DEF TypeOK
  <2>2. CASE s # z
    <3>1. sessionTtl'[s] = sessionTtl[s]
        BY <1>1, <1>3, <2>2 DEF TypeOK
    <3>2. Covered(s, p)
        OBVIOUS
    <3> QED BY <1>5, <2>1, <3>1, <3>2 DEF Covered
  <2>3. CASE s = z
    <3> SUFFICES ASSUME sessionHash[s][p] > 0
                 PROVE  /\ productHash[p][s] = sessionHash[s][p]
                        /\ productTtl[p] >= TTL - 1
        BY <1>4, <1>5, <2>1 DEF Covered
    <3>1. PICK i \in 1..(r.next - 1) : r.items[i].product = p
        BY <1>1, <2>3 DEF Staged, HoldsNothingElse, z
    <3>2. HoldsLine(w, i)
        BY <1>1, <3>1 DEF Staged, HoldsReserved
    <3>3. Left(w) \in Nat /\ Left(w) >= TTL - 1
        BY LeftType
    <3> QED BY <1>4, <2>3, <3>1, <3>2, <3>3 DEF HoldsLine, z
  <2> QED BY <2>2, <2>3
<1> QED BY <1>6, <1>7

LEMMA CoveredRelease ==
    ASSUME ReservationAssumption, SInv, LInv, NEW w \in Workers, ReleaseWrite(w),
           NEW s \in Sessions, NEW p \in Products
    PROVE  Covered(s, p)'
<1> USE DEF SInv, LInv
<1> DEFINE z == req[w].session
<1>1. z \in Sessions
    BY DEF ReleaseWrite, CursorInCart, WellPlaced
<1>2. CASE s = z
  <2>1. sessionHash'[s][p] = 0 /\ sessionTtl'[s] = 0
      BY <1>1, <1>2 DEF ReleaseWrite, TypeOK, Empty
  <2> QED BY <2>1 DEF Covered, ReservationAssumption
<1>3. CASE s # z
  <2>1. sessionHash'[s] = sessionHash[s] /\ sessionTtl'[s] = sessionTtl[s]
      BY <1>1, <1>3 DEF ReleaseWrite, TypeOK
  <2>2. productHash'[p][s] = productHash[p][s] /\ s \in DOMAIN productHash'[p]
      BY <1>1, <1>3 DEF ReleaseWrite, TypeOK
  <2>3. productTtl'[p] = Expiry(productHash'[p], productTtl[p])
      BY DEF ReleaseWrite
  <2>4. productHash[p][s] > 0 => productTtl'[p] = productTtl[p]
      BY <2>2, <2>3 DEF Expiry
  <2>5. Covered(s, p) /\ sessionTtl[s] <= TTL
      OBVIOUS
  <2> QED BY <2>1, <2>2, <2>4, <2>5 DEF Covered
<1> QED BY <1>2, <1>3

LEMMA CoveredTick ==
    ASSUME ReservationAssumption, SInv, LInv, Tick, NEW s \in Sessions, NEW p \in Products
    PROVE  Covered(s, p)'
<1> USE DEF SInv, LInv
<1>1. sessionTtl[s] \in Nat /\ productTtl[p] \in Nat /\ TTL \in Nat /\ sessionTtl[s] <= TTL
    BY DEF TypeOK, ReservationAssumption
<1>2. sessionTtl'[s] = Aged(sessionTtl[s]) /\ productTtl'[p] = Aged(productTtl[p])
    BY DEF Tick
<1>3. ASSUME sessionTtl'[s] > 1, sessionHash'[s][p] > 0
      PROVE  /\ productHash'[p][s] = sessionHash'[s][p]
             /\ productTtl'[p] >= sessionTtl'[s] - 1
  <2>1. sessionTtl[s] > 2 /\ sessionTtl'[s] = sessionTtl[s] - 1
      BY <1>1, <1>2, <1>3 DEF Aged
  <2>2. sessionHash'[s] = sessionHash[s]
      BY <1>1, <2>1 DEF Tick
  <2>3. productHash[p][s] = sessionHash[s][p] /\ productTtl[p] >= sessionTtl[s] - 1
      BY <1>1, <1>3, <2>1, <2>2 DEF Covered
  <2>4. productTtl'[p] = productTtl[p] - 1 /\ productHash'[p] = productHash[p]
      BY <1>1, <1>2, <2>1, <2>3 DEF Tick, Aged
  <2> QED BY <1>1, <2>1, <2>2, <2>3, <2>4
<1> QED BY <1>3 DEF Covered

LEMMA LInvInit == Init => LInv
<1> SUFFICES ASSUME Init PROVE LInv
    OBVIOUS
<1> QED BY ReservationAssumption DEF Init, LInv, Covered, Idle, Empty, ReservationAssumption

\* Without extensions no session's key is given more than TTL.
LEMMA LifeBounded ==
    ASSUME ReservationAssumption, TypeOK, LInv, [Next]_vars, NEW s \in Sessions
    PROVE  sessionTtl'[s] <= TTL
<1>1. sessionTtl[s] \in Nat /\ TTL \in Nat /\ sessionTtl[s] <= TTL
    BY DEF LInv, TypeOK, ReservationAssumption
<1>2. CASE sessionTtl' = sessionTtl
    BY <1>1, <1>2
<1>3. ASSUME NEW w \in Workers, Progress(w) \/ Dies(w)
      PROVE  sessionTtl' = sessionTtl \/ sessionTtl'[s] <= TTL
  <2>1. CASE ReleaseWrite(w)
      BY <1>1, <2>1 DEF ReleaseWrite, TypeOK
  <2>2. CASE ScriptGrant(w)
      BY <1>1, <2>2 DEF ScriptGrant, Renewed, TypeOK
  <2>3. ~ExtendWrite(w)
      BY DEF LInv, ExtendWrite
  <2> QED BY <1>3, <2>1, <2>2, <2>3
          DEF Progress, ReleaseRead, LoadProducts, ScriptRefuse, ExtendRead, Return, Dies, redis
<1>4. CASE Tick
    BY <1>1, <1>4 DEF Tick, Aged
<1> QED BY <1>2, <1>3, <1>4 DEF Next, StartReserve, StartRelease, StartExtend, Begin,
           StockWrite, vars, redis

LEMMA LInvNext ==
    ASSUME Extras = {}, SInv, LInv, [Next]_vars
    PROVE  LInv'
<1> USE DEF SInv
<1>1. \A w \in Workers : req'[w].pc \notin {"extend_read", "extend_write"}
    BY NoExtensions
<1>2. \A s \in Sessions : sessionTtl'[s] <= TTL
    BY LifeBounded, ReservationAssumption
<1>3. ASSUME NEW s \in Sessions, NEW p \in Products
      PROVE  Covered(s, p)'
  <2>1. CASE UNCHANGED redis
      BY <2>1 DEF LInv, Covered, redis
  <2>2. ASSUME NEW w \in Workers, Progress(w) \/ Dies(w)
        PROVE  Covered(s, p)'
    <3>1. CASE ReleaseWrite(w)
        BY <3>1, CoveredRelease, ReservationAssumption
    <3>2. CASE ScriptGrant(w)
        BY <3>2, CoveredGrant, ReservationAssumption
    <3>3. ~ExtendWrite(w)
        BY DEF LInv, ExtendWrite
    <3> QED BY <2>1, <2>2, <3>1, <3>2, <3>3
            DEF Progress, ReleaseRead, LoadProducts, ScriptRefuse, ExtendRead, Return, Dies
  <2>3. CASE Tick
      BY <2>3, CoveredTick, ReservationAssumption
  <2> QED BY <2>1, <2>2, <2>3 DEF Next, StartReserve, StartRelease, StartExtend, Begin,
             StockWrite, vars, redis
<1> QED BY <1>1, <1>2, <1>3 DEF LInv

\* A hold a session still has on record is counted against its product until
\* the last tick of the session's key.  extend_reservation is left out: it has
\* no caller, and one that falls into the tick in which a product's key has
\* already expired renews a record that no longer counts.
THEOREM LiveHoldsCount ==
    ASSUME SerialSessions, Extras = {}
    PROVE  Spec => []LiveHoldsAreCounted
<1>1. LInv => LiveHoldsAreCounted
    BY DEF LInv, Covered, LiveHoldsAreCounted
<1>2. SInv /\ [Next]_vars => SInv'
    BY SInvNext
<1>3. SInv /\ LInv /\ [Next]_vars => LInv'
    BY LInvNext
<1> QED BY SInvInit, LInvInit, <1>1, <1>2, <1>3, PTL DEF Spec
=============================================================================
