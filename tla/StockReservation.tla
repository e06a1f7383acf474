-------------------------- MODULE StockReservation --------------------------
(***************************************************************************)
(* backend/app/services/stock_reservation.py: checkout sessions hold units *)
(* of a product in Redis while the customer pays.  Two families of hashes  *)
(* record a hold: reservation:{session} (sessionHash, used to release) and *)
(* product_reservations:{product} (productHash, summed for availability).  *)
(* Both expire as whole keys.  The service runs inside concurrent requests *)
(* (workers): each Redis or database round trip is a step of its own.      *)
(***************************************************************************)
EXTENDS Integers, Sequences, FiniteSets

CONSTANTS
    Sessions,       \* cart session ids, the key of a reservation
    NoSession,      \* the session of a worker that runs no request
    Products,       \* product ids that a cart may name
    Catalog,        \* the products that still exist in the database
    PrintToOrder,   \* the products with print_to_order set
    Workers,        \* requests that may be in flight together
    Carts,          \* contents of a cart: sequences of [product, qty]
    MaxQty,         \* largest quantity of a cart line
    MaxStock,       \* largest value of units_in_stock
    TTL,            \* life of a key in ticks of the clock (900 s in the code)
    Extras,         \* values of additional_seconds, in ticks
    SerialSessions  \* TRUE: a session has one request in flight at a time

\* What a cart holds: at least one line, no product twice (cart.py add_item
\* merges lines), a positive quantity (as payment requires: ge=1).
CartLine == [product : Products, qty : 1..MaxQty]

ASSUME ReservationAssumption ==
    /\ NoSession \notin Sessions
    /\ Catalog \subseteq Products
    /\ PrintToOrder \subseteq Products
    /\ IsFiniteSet(Sessions)
    /\ MaxQty \in Nat \ {0}
    /\ MaxStock \in Nat
    /\ TTL \in Nat \ {0, 1}
    /\ Extras \subseteq Nat
    /\ SerialSessions \in BOOLEAN

ASSUME CartsAssumption ==
    \A c \in Carts :
        /\ c \in Seq(CartLine)
        /\ c # <<>>
        /\ \A i, j \in DOMAIN c : c[i].product = c[j].product => i = j

VARIABLES
    stock,        \* units_in_stock of each product, in the database
    peak,         \* history: the largest units_in_stock a product ever had
    sessionHash,  \* reservation:{s}, 0 where the field is absent
    productHash,  \* product_reservations:{p}, 0 where the field is absent
    sessionTtl,   \* ticks until reservation:{s} expires
    productTtl,   \* ticks until product_reservations:{p} expires
    req           \* the request each worker runs

vars == <<stock, peak, sessionHash, productHash, sessionTtl, productTtl, req>>
redis == <<sessionHash, productHash, sessionTtl, productTtl>>

-----------------------------------------------------------------------------
\* The number of units held in one product's hash, which the Lua script and
\* get_reserved_quantity compute as the sum of its values: a hold of q units
\* is the pairs <<s, 1>> .. <<s, q>>.
Held(hash) == {u \in Sessions \X (1..MaxQty) : u[2] <= hash[u[1]]}
ReservedQuantity(hash) == Cardinality(Held(hash))

\* max_available of a product whose row was read as stock `units`.
PrintToOrderLimit == 999999
MaxAvailableButOne(p, units) == IF p \in PrintToOrder THEN PrintToOrderLimit ELSE units - 1
MaxAvailable(p, units) == IF p \in PrintToOrder THEN PrintToOrderLimit ELSE units

\* The Lua script's test: available < quantity is refused.
FitsStockOnly(units, hash, qty) == units >= qty
Fits(units, hash, qty) == units - ReservedQuantity(hash) >= qty

\* EXPIRE key ttl; EXPIRE on a key that HDEL emptied does nothing, and such a
\* key has no TTL left.  A TTL of 0 on a key with fields would never expire.
RenewedOnce(ttls, key) == [ttls EXCEPT ![key] = IF @ = 0 THEN TTL ELSE @]
NotRenewed(ttls, key) == ttls
Renewed(ttls, key) == [ttls EXCEPT ![key] = TTL]
Expiry(hash, ttl) == IF \E x \in DOMAIN hash : hash[x] > 0 THEN ttl ELSE 0
Aged(ttl) == IF ttl = 0 THEN 0 ELSE ttl - 1
Empty(S) == [x \in S |-> 0]

Idle == [pc |-> "idle", session |-> NoSession, items |-> <<>>,
         next |-> 1, avail |-> Empty(Products), snap |-> {}, extra |-> 0,
         after |-> "idle", result |-> "none", ticked |-> FALSE]

Active(w) == req[w].pc # "idle"
Becomes(w, r) == req' = [req EXCEPT ![w] = r]
Line(w) == req[w].items[req[w].next]

Init ==
    /\ stock \in [Products -> 0..MaxStock]
    /\ \A p \in Products \ Catalog : stock[p] = 0
    /\ peak = stock
    /\ sessionHash = [s \in Sessions |-> Empty(Products)]
    /\ productHash = [p \in Products |-> Empty(Sessions)]
    /\ sessionTtl = Empty(Sessions)
    /\ productTtl = Empty(Products)
    /\ req = [w \in Workers |-> Idle]

-----------------------------------------------------------------------------
\* Requests arrive.
Begin(w, s, r) ==
    /\ ~Active(w)
    /\ SerialSessions => \A v \in Workers : Active(v) => req[v].session # s
    /\ Becomes(w, r)
    /\ UNCHANGED <<stock, peak, redis>>

\* reserve_stock: it first releases what the session already holds.
StartReserve(w, s, c) ==
    Begin(w, s, [Idle EXCEPT !.pc = "release_read", !.session = s, !.items = c,
                             !.after = "load"])

\* release_reservation, and confirm_reservation which only calls it.
StartRelease(w, s) ==
    Begin(w, s, [Idle EXCEPT !.pc = "release_read", !.session = s, !.after = "done",
                             !.result = "released"])

StartExtend(w, s, extra) ==
    Begin(w, s, [Idle EXCEPT !.pc = "extend_read", !.session = s, !.extra = extra,
                             !.result = "extended"])

-----------------------------------------------------------------------------
\* release_reservation: HGETALL of the session key; nothing to do without
\* fields, else one MULTI/EXEC pipeline for the products that were read.
ReleaseRead(w) ==
    LET s == req[w].session
        found == {p \in Products : sessionHash[s][p] > 0}
    IN  /\ req[w].pc = "release_read"
        /\ Becomes(w, [req[w] EXCEPT
                 !.snap = found,
                 !.pc = IF found = {} THEN req[w].after ELSE "release_write"])
        /\ UNCHANGED <<stock, peak, redis>>

ReleaseWrite(w) ==
    LET s == req[w].session
        dropped == [p \in Products |-> IF p \in req[w].snap
                                       THEN [productHash[p] EXCEPT ![s] = 0]
                                       ELSE productHash[p]]
    IN  /\ req[w].pc = "release_write"
        /\ productHash' = dropped
        /\ productTtl' = [p \in Products |-> Expiry(dropped[p], productTtl[p])]
        /\ sessionHash' = [sessionHash EXCEPT ![s] = Empty(Products)]
        /\ sessionTtl' = [sessionTtl EXCEPT ![s] = 0]
        /\ Becomes(w, [req[w] EXCEPT !.pc = req[w].after, !.snap = {}])
        /\ UNCHANGED <<stock, peak>>

\* Phase 1 of reserve_stock: one query for all the products.  What it read
\* is all the later script calls know of units_in_stock.
LoadProducts(w) ==
    LET found == \A i \in DOMAIN req[w].items : req[w].items[i].product \in Catalog
    IN  /\ req[w].pc = "load"
        /\ IF found
           THEN Becomes(w, [req[w] EXCEPT
                    !.pc = "script",
                    !.avail = [p \in Products |-> MaxAvailable(p, stock[p])]])
           ELSE Becomes(w, [req[w] EXCEPT !.pc = "done", !.result = "refused"])
        /\ UNCHANGED <<stock, peak, redis>>

\* The line the script reserves is the last one of the cart.
AllButOneReserved(w) == req[w].next + 1 >= Len(req[w].items)
AllReserved(w) == req[w].next = Len(req[w].items)

\* Phase 2: one atomic Lua call per line, in the order of the cart.
ScriptGrant(w) ==
    LET s == req[w].session
        p == Line(w).product
    IN  /\ req[w].pc = "script"
        /\ Fits(req[w].avail[p], productHash[p], Line(w).qty)
        /\ productHash' = [productHash EXCEPT ![p][s] = Line(w).qty]
        /\ productTtl' = Renewed(productTtl, p)
        /\ sessionHash' = [sessionHash EXCEPT ![s][p] = Line(w).qty]
        /\ sessionTtl' = Renewed(sessionTtl, s)
        /\ Becomes(w, [req[w] EXCEPT
                 !.next = @ + 1,
                 !.pc = IF AllReserved(w) THEN "done" ELSE "script",
                 !.result = IF AllReserved(w) THEN "reserved" ELSE "none"])
        /\ UNCHANGED <<stock, peak>>

\* The script returns 0: what this call has reserved so far is released.
RollbackUnlessOne(w) == IF req[w].next > 2 THEN "release_read" ELSE "done"
Rollback(w) == IF req[w].next > 1 THEN "release_read" ELSE "done"

ScriptRefuse(w) ==
    /\ req[w].pc = "script"
    /\ ~Fits(req[w].avail[Line(w).product], productHash[Line(w).product], Line(w).qty)
    /\ Becomes(w, [req[w] EXCEPT !.pc = Rollback(w), !.after = "done",
                                 !.result = "refused"])
    /\ UNCHANGED <<stock, peak, redis>>

\* extend_reservation: EXISTS and HGETALL, then EXPIRE in one pipeline on the
\* session key and the products' keys (EXPIRE of an absent key does nothing).
ExtendRead(w) ==
    LET found == {p \in Products : sessionHash[req[w].session][p] > 0}
    IN  /\ req[w].pc = "extend_read"
        /\ Becomes(w, [req[w] EXCEPT !.snap = found,
                         !.pc = IF found = {} THEN "done" ELSE "extend_write"])
        /\ UNCHANGED <<stock, peak, redis>>

ExtendWrite(w) ==
    LET s == req[w].session
        life == TTL + req[w].extra
    IN  /\ req[w].pc = "extend_write"
        /\ sessionTtl' = [sessionTtl EXCEPT ![s] = Expiry(sessionHash[s], life)]
        /\ productTtl' = [p \in Products |-> IF p \in req[w].snap
                                             THEN Expiry(productHash[p], life)
                                             ELSE productTtl[p]]
        /\ Becomes(w, [req[w] EXCEPT !.pc = "done", !.snap = {}])
        /\ UNCHANGED <<stock, peak, sessionHash, productHash>>

Return(w) ==
    /\ req[w].pc = "done"
    /\ Becomes(w, Idle)
    /\ UNCHANGED <<stock, peak, redis>>

\* The process dies, or a Redis or database error ends the request between
\* two calls: what it has reserved so far stays until it expires.
Dies(w) ==
    /\ Active(w)
    /\ Becomes(w, Idle)
    /\ UNCHANGED <<stock, peak, redis>>

-----------------------------------------------------------------------------
\* Time passes.  A request is short beside a TTL: it sees one tick at most.
Tick ==
    /\ \A w \in Workers : ~req[w].ticked
    /\ req' = [w \in Workers |-> IF Active(w) THEN [req[w] EXCEPT !.ticked = TRUE]
                                 ELSE req[w]]
    /\ sessionHash' = [s \in Sessions |-> IF sessionTtl[s] = 1 THEN Empty(Products)
                                          ELSE sessionHash[s]]
    /\ productHash' = [p \in Products |-> IF productTtl[p] = 1 THEN Empty(Sessions)
                                          ELSE productHash[p]]
    /\ sessionTtl' = [s \in Sessions |-> Aged(sessionTtl[s])]
    /\ productTtl' = [p \in Products |-> Aged(productTtl[p])]
    /\ UNCHANGED <<stock, peak>>

\* The rest of the system writes units_in_stock: fulfilment, refunds,
\* returns and edits of the product, up and down.
StockWrite(p, n) ==
    /\ stock' = [stock EXCEPT ![p] = n]
    /\ peak' = [peak EXCEPT ![p] = IF n > @ THEN n ELSE @]
    /\ UNCHANGED <<redis, req>>

Progress(w) ==
    \/ ReleaseRead(w) \/ ReleaseWrite(w) \/ LoadProducts(w) \/ ScriptGrant(w)
    \/ ScriptRefuse(w) \/ ExtendRead(w) \/ ExtendWrite(w) \/ Return(w)

Next ==
    \/ \E w \in Workers, s \in Sessions :
         \/ \E c \in Carts : StartReserve(w, s, c)
         \/ StartRelease(w, s)
         \/ \E x \in Extras : StartExtend(w, s, x)
    \/ \E w \in Workers : Progress(w) \/ Dies(w)
    \/ Tick
    \/ \E p \in Catalog, n \in 0..MaxStock : StockWrite(p, n)

Spec == Init /\ [][Next]_vars

\* Redis expires keys whatever the program does, and a started request runs
\* on unless it dies.
FairSpec == Spec /\ WF_vars(Tick) /\ \A w \in Workers : WF_vars(Progress(w))

-----------------------------------------------------------------------------
\* Program counters and results of a request.
Steps == {"idle", "release_read", "release_write", "load", "script",
          "extend_read", "extend_write", "done"}
Results == {"none", "released", "refused", "reserved", "extended"}
Request == [pc : Steps, session : Sessions \cup {NoSession}, items : Seq(CartLine), next : Nat \ {0},
            avail : [Products -> Nat], snap : SUBSET Products, extra : Extras \cup {0},
            after : {"idle", "load", "done"}, result : Results, ticked : BOOLEAN]

TypeOK ==
    /\ stock \in [Products -> 0..MaxStock]
    /\ peak \in [Products -> 0..MaxStock]
    /\ sessionHash \in [Sessions -> [Products -> 0..MaxQty]]
    /\ productHash \in [Products -> [Sessions -> 0..MaxQty]]
    /\ sessionTtl \in [Sessions -> Nat]
    /\ productTtl \in [Products -> Nat]
    /\ req \in [Workers -> Request]

\* The units held of a product never exceed the most it ever had in stock,
\* over every interleaving of concurrent checkouts, rollbacks, expiries and
\* stock changes: what the Lua script's check-and-reserve is for.
HeldWithinPeak ==
    \A p \in Products : ReservedQuantity(productHash[p]) <= MaxAvailable(p, peak[p])

\* The hashes and the requests on them implement the ledger.
Ledger == INSTANCE ReservationLedger
            WITH held <- productHash, cap <- [p \in Products |-> MaxAvailable(p, peak[p])]
LedgerSpec == Ledger!Spec

\* A reservation a session still has on record is counted against its
\* product, with the same quantity: an unexpired checkout is never sold over.
\* The last tick is left out: the lines of one cart are reserved one after
\* the other and each EXPIRE renews the session's key, so a product's key may
\* expire before the session's by the time the request took.
LiveHoldsAreCounted ==
    \A s \in Sessions, p \in Products :
        (sessionHash[s][p] > 0 /\ sessionTtl[s] > 1) =>
            productHash[p][s] = sessionHash[s][p]

\* reserve_stock that returns success holds every line of the cart.
SuccessHoldsAll ==
    \A w \in Workers :
        (req[w].pc = "done" /\ req[w].result = "reserved") =>
            \A i \in DOMAIN req[w].items :
                LET l == req[w].items[i]
                IN  /\ sessionHash[req[w].session][l.product] = l.qty
                    /\ productHash[l.product][req[w].session] = l.qty

\* reserve_stock that returns failure leaves the session no reservation, and
\* nothing of the lines it had reserved before the one that failed.
RefusalHoldsNothing ==
    \A w \in Workers :
        (req[w].pc = "done" /\ req[w].result = "refused") =>
            /\ sessionHash[req[w].session] = Empty(Products)
            /\ \A i \in 1..(req[w].next - 1) :
                 productHash[req[w].items[i].product][req[w].session] = 0

\* Once checkouts stop, every hold is dropped, without anyone releasing it:
\* a reservation is never made without an expiry.
QuietDrains ==
    (<>[](\A w \in Workers : ~Active(w)))
        => <>[](\A p \in Products : productHash[p] = Empty(Sessions))
=============================================================================
