# Batchivo: models, checks and proofs

Batchivo (FastAPI, SQLAlchemy on PostgreSQL, Redis) runs a maker's shop: stock,
a storefront with carts and checkouts, orders, payments through Square,
returns, production runs, a print queue, products made of products.  This
directory holds TLA+ modules of the parts where several requests, an outside
service and two stores meet, the TLC configurations that check them on small
instances, and proofs for TLAPS.

Paths below are relative to `src/backend/app/` unless they start with `src/`.

## 1. The system

| Component | State | Operations | What is hard |
|---|---|---|---|
| Stock reservation `services/stock_reservation.py` | Redis hashes `reservation:{session}` and `product_reservations:{product}`, one TTL each | reserve, release, confirm, extend | several round trips per call, two keys per hold with separate expiry, stock read before the script that uses it |
| Cart `services/cart.py`, checkout session `services/checkout_session.py` | one JSON value per session, TTL 24 h / 1 h | add, update, remove, clear; create, get, delete | read-modify-write without lock, lives longer than the reservation |
| Checkout `api/v1/shop.py` | carts, reservations, Square, orders | create a checkout, complete it | payment before the order is stored |
| Payments `api/v1/payments.py`, `services/square_payment.py` | orders, payments at Square | card payment, hosted checkout, refund | idempotency keys, lost answers, order numbers by counting |
| Orders `api/v1/orders.py`, `services/order_fulfillment.py` | `orders.status`, `fulfilled_at`, `products.units_in_stock` | fulfil, ship, deliver, cancel, refund, PATCH | decisions on rows read without a lock, refund at Square before the commit |
| Square webhooks `services/square_webhook_service.py` | `webhook_events`, dead letters, payment log, orders | deliver, retry | duplicates, reordering, crash between commits, stale session rows |
| Returns `api/v1/returns.py`, `api/v1/customer_account.py` | `return_requests` with items, stock | request, cancel, approve, reject, receive, complete, delete | restock computed from what was read, one open return per order without a constraint, numbers by counting |
| Production runs `api/v1/production_runs.py`, `services/production_run.py` | run status, materials, spool weights, inventory transactions | create, edit, complete, cancel, fail, delete | two ways to take filament (absolute and relative), several rows per spool, status read earlier |
| Plates `services/production_run_plate_service.py` | plate status, the run's two counts | create, start, complete, fail, cancel, edit, delete | the counts are stored by a later transaction |
| Print queue `services/print_queue_service.py` | job status and printer, printer status and current job | add, assign, auto-assign, start, complete, fail, cancel, delete | two records that must agree, written from what was read |
| Bundles `api/v1/products.py` | `products`, `product_components` | create, activate, add and remove a component, purge | the search for a cycle is one query per product, and the row is stored after it |
| Outbound webhooks, discounts, images, catalogues, accounts, tenants, printers, marketplaces, reports | see `PROJECT.json` | CRUD, wire protocols, templates | little shared state |

The components interact through three stores.  A checkout reads the cart and
reserves in Redis against `units_in_stock` in PostgreSQL.  A payment endpoint
counts the day's orders, charges Square and stores an order.  The order
endpoints move stock when an order is fulfilled, and back when it is cancelled
or refunded; a completed return moves the same stock.  Square reports payments
and refunds by webhook, to a handler that writes the same orders.  Runs, spools,
jobs and printers are written by administrators.  Every request has a database
session of its own at READ COMMITTED (`database.py:33-64`,
`expire_on_commit=False`, `autoflush=False`); a row that a session already holds
is not refreshed by a later query, and an UPDATE names only the columns that
differ from what was read.

What makes each part correct:

* reservation: units held stay within what was for sale; a checkout holds its
  whole cart or nothing; what a session holds is counted; what is abandoned
  is freed;
* orders: units are neither lost nor invented; closed orders hold none; the
  customer is paid back at most once, and an order marked refunded was;
* Square webhooks: an event is not processed again once it is done, none is
  lost, and a completed refund reaches its order;
* payments: nobody is charged twice for one purchase, what is recorded as paid
  was, and numbering by counting never runs into itself;
* returns: stock is what orders and completed returns make it; an order has few
  open returns; numbers have no gaps;
* production runs: the weight of a spool is what its transactions and the
  completed runs say, and is not taken below zero;
* plates: the counts come to rest at what the plates say; a complete plate stays;
* print queue: a printer shows the job that prints on it, and only that; a
  finished job is not taken up again;
* bundles: no product contains itself, and the search for a cycle ends.

## 2. Plan

| Module | Models | State |
|---|---|---|
| `StockReservation`, `ReservationLedger` | the reservation service and its promise | modelled, proofs |
| `OrderFulfillment`, `OrderLifecycle` | order endpoints on the database and their atomic promise | modelled, proofs |
| `SquareWebhook` | inbound events | modelled, proofs |
| `Payments` | order numbers, card payments, hosted checkouts, storage of the order | modelled, proofs |
| `OrderReturns` | return requests beside the order endpoints | modelled, proofs |
| `ProductionRun` | runs, materials, spools and inventory transactions | modelled, proofs |
| `RunPlates` | plates and the run's counts | modelled, proofs |
| `PrintQueue` | jobs and printers | modelled, proofs |
| `ProductBundles` | products and their components | modelled, proofs |

Composition: `StockReservation` instances `ReservationLedger` and
`OrderFulfillment` instances `OrderLifecycle`, as what they implement.
`OrderReturns` instances `OrderLifecycle` for the order endpoints that write the
same stock: returns are checked beside the atomic steps that `OrderFulfillment`
is shown to implement, and not beside its round trips again.

Left for later: the images of a product, whose single primary one is kept by two
updates.  A module for the completion of a checkout was planned and is not
written: see section 7.

## 3. Modules and code

### StockReservation

* `sessionHash[s][p]` is the field `p` of `reservation:{s}`, `productHash[p][s]`
  the field `s` of `product_reservations:{p}`; 0 is an absent field, and a hash
  whose fields are all 0 is an absent key.  `sessionTtl`, `productTtl` are the
  keys' remaining lives in ticks.  `stock` is `units_in_stock`; `peak` is a
  history variable that the code does not have.
* `req[w]` is the request a worker runs: program counter, session, cart, index
  of the next line, the `max_available` values read in phase 1, the fields
  read by HGETALL.
* One action is one round trip: `ReleaseRead` (HGETALL), `ReleaseWrite` (the
  pipeline, which redis-py sends as MULTI/EXEC), `LoadProducts` (the query),
  `ScriptGrant` / `ScriptRefuse` (the Lua script, atomic), `ExtendRead`,
  `ExtendWrite`.  EXISTS and HGETALL of `extend_reservation` are one step: a key
  that expires between them makes the code renew nothing, as in the model.
* `Dies` is a request that ends between two calls, by a crash, a timeout or an
  error of Redis: what it reserved so far stays until it expires.
* `StockWrite` is the rest of the system: it sets any product of the catalogue to any
  value.  `Tick` is Redis' clock.  A request sees at most one tick: it takes
  milliseconds, a TTL is 900 s.
* Left out: names and prices, the message of a refusal, `available` in it.
* Assumed: a cart has at least one line (`shop.py:1235`), no product twice
  (`cart.py:160-181`), and positive quantities.  `AddToCartRequest` itself does
  not demand the last; payment does (`schemas/payment.py`, `ge=1`).

### ReservationLedger

`held` and `cap`, with the steps Grant, Drop and Raise.  The mapping takes
`productHash` for `held` and the largest `max_available` for `cap`.

### OrderFulfillment

* `status`, `fulfilled`, `stock` are the columns, `lock` PostgreSQL's row locks
  on products, `refunds` the refunds that Square made, each with the key it was
  asked under.  `opening`, `drifted` and `loose` are history: the stock at the
  beginning, the products that were written from values that were no longer so,
  and the orders that were closed without regard to the units they hold.
* A request reads the order, reads the products with the items
  (`models/order.py:361-364`, `lazy="selectin"`), decides, calls Square (refund),
  locks and commits.  `SELECT ... FOR UPDATE` does not refresh products that the
  session holds, so `NewStock` is computed from `req[w].stock`.  The check that
  `deduct_inventory` repeats under the lock compares the same stale values and
  never differs from `Validated`.
* `RefundKey` is `refund-{order_number}`, and `Square` makes one refund for a key.
  A key with the same amount is answered again, with another it is refused
  (`Pay`).  `PayFails` is a refusal or a lost answer.
* `Abort` is a crash or a rollback at any step.  `RefundWebhook` is the effect of
  `SquareWebhook`'s refund handlers on an order.
* Left out: items whose product was deleted, two lines of one product in one
  order, the low-stock report, e-mails, notes and tracking numbers.

### OrderLifecycle

The same endpoints and Square's refund event, each one atomic step on `status`,
`fulfilled`, `stock`.

### SquareWebhook

* `row` is `webhook_events` (status, attempt_count), `deadLetters` counts the rows
  of its table, `done` how often the processing of an event came to its end, each
  time with the handler's log rows.  `orders` keeps of an order whether its status
  is refunded, the payment status, and whether `payment_id` is the card payment's.
* `undone` and `abandoned` are history: how often a late failure set back an
  event that was done, and the events whose worker stopped in an attempt.
* `req[w].loaded` are the event rows in the worker's database session: once read,
  a later query of the same session returns them unchanged.  `req[w].kept` are
  the orders a retry batch has left there; whether a later event of the batch
  still sees them depends on garbage collection, so the model takes either.
* One action per query or commit.  `HandleFailure` is a handler that raises;
  `Dies` a process that stops or a commit that fails, after which the session
  cannot write.
* `Deliver` sends an event at most `MaxDeliveries` times, in any order.
* Left out: signature validation (only accepted requests are modelled) and the
  time of a retry (a failed event may be due at once).

### Payments

* `orders` are the rows of one shop and one day: number, how the order is paid,
  `payment_status`, and what `payment_id` holds.  That is the Square payment for a
  card order; for a hosted one the link's Square order, until the first payment
  event replaces it.  A payment, like a link, is named by its idempotency key.
* `payments` and `links` are Square's, `offered` the links that customers were
  given.  Square repeats its answer for a key; a link's name contains the
  order number, so its key is refused under another number.
* One action per query, call of Square or commit.  `ChargeAgain` is a retriable
  error below `MAX_RETRIES`, `ChargeFails` a refusal or the last error; both may
  leave the payment taken.  `StoreFails` is the unique index of `order_number`:
  the card endpoint swallows the exception and answers with success, the hosted
  one answers 500 and gives out no link.
* Manual orders (`api/v1/orders.py`) count for the same numbers.  That one of
  them may carry a payment id typed by the administrator is left out.
* Left out: the check of the amount, the lines of the order, e-mails, sandbox or
  production credentials.
* Assumed: no other shop has the same order prefix (numbers are unique over all
  shops and counted per shop), and Square takes a payment for a link once.

### OrderReturns

* `returns[r]` is a row of `return_requests` with its items: status, order, the
  units of each product, how many of them are restockable, and the day's number.
  `stock`, `status`, `fulfilled` are those of `OrderLifecycle`, whose steps are
  the order endpoints (`OrderStep`).
* Each listing of an order line is compared with the line by itself
  (`customer_account.py:554-559`), so a line that is listed again and again asks
  for any number of units (`Asked`, bounded by `MaxUnits`).  Receiving says of
  each listing whether it can be restocked (`Usable`).
* Creating is three steps: the order and its open returns (`Check`), the count
  of the day (`Count`), the insert (`Insert`), which the unique number may
  refuse.  The administrator's endpoints read the row (`ReadReturn`), completing
  also reads the products (`ReadStock`), and commit (`Commit`).
* `stale` is a history variable: the products for which a request committed on
  values that had changed.  `created` and `deleted` are history too.
* Left out: reasons, notes, tracking, the amount and reference of a refund,
  e-mails.  Numbers are counted over all tenants and unique within one; the model
  has one tenant.

### ProductionRun

* `material[m]` is a row of `production_run_materials`: run, spool, actual usage.
  `weight` is `spools.current_weight`, `trail[s]` the sum of the inventory
  transactions of s.
* A request reads the run (`ReadRun`), then the rows and their spools (`Load`,
  when it is going to take filament), and commits.  `CommitComplete` writes
  the weights it computed from what it read and no transaction
  (`production_runs.py:879`); `CommitStop` (cancel, fail) decrements in SQL and
  leaves a transaction, once for every row that names a reported spool.
  `SetWeight` is AMS synchronisation and the edit of a spool.
* `loose` and `recorded` are history: what a request changed although what it
  had read was no longer so, and the spools that only transactions changed.
* A usage may be negative: it is the spool's weight before less that after
  (`models/production_run.py:391-395`), and nothing compares the two.  Completing
  then puts the difference on the spool.  Rows are checked one after another in an
  order that is open, so a run with such a row may be refused or not
  (`InAnyOrder`); on a spool below zero, which only overlapping requests leave,
  the model leaves open what the order of the rows might decide.
* What rows used is counted in units, a usage of n grams as n of them in `Units`,
  one of -n as n in `UnitsBack`, so that sums (`Net`) are differences of
  cardinalities and the library's theorems on finite sets apply.
  `MCProductionRun` checks that they are the sums of the usages
  (`UnitsAreTheSum`).  `"none"` names no run, spool or row.
* Left out: items, costs, variance, run numbers, and the service methods that
  nothing calls (`complete_production_run`, `revert_production_run`).

### RunPlates

* `plate[q]` is a plate's status, `total` and `completed` the run's two columns.
* A request reads the plate (`Read`), commits its change (`Commit`), refreshes
  the plate (`Refresh`) and, for all but start and fail, counts: two queries
  (`CountTotal`, `CountCompleted`) and a commit (`Store`).
* `disturbed` and `torn` are history: who counts while plates change, and
  whether a count is missing or wrong since the last good one.
* Names that `ProductionRun` has too (its requests, their workers, `Spec`) are
  named after the plates here: `ProductionRunProofs` extends both modules, the
  two halves of one part of the program.

### PrintQueue

* `job[j]` is status and assigned printer, `printer[p]` status, current job and
  `is_active`.  A request reads the job, then its printer, and commits the
  columns that it changed of both.  `CallAuto`, `ReadPrinters`, `CommitAuto` are
  `auto_assign_jobs`; a printer takes any number of the pending jobs.
* `loose` is history: the printers for which a request committed on what was no
  longer so, or was made that the service does not refuse (`Careless`).
* Left out: priorities and positions, which decide no assignment's outcome;
  `hard_delete_printer`, which has no caller.

### ProductBundles

* `product[p]` is active, inactive or not stored; `component` the pairs of
  `product_components`.
* `Visit` is one query of `_check_circular_reference`, in any order; `Insert` the
  commit, which a missing product or the unique pair may refuse; `Purge` the
  deletion of an inactive product that nothing contains.
* `loose` is history: a component was stored by a walk that had read the parent
  of another new component before that one was stored.
* Left out: quantities, and everything else of a product.

## 4. Runs

Each `MC` module extends the module it checks.  Passing runs:

| Run | Instance | Shows |
|---|---|---|
| `StockReservation_carts` | 2 sessions, 2 workers, 2 products (one printed to order), two-line carts in opposite orders, TTL 3, stock 0..1 | `SuccessHoldsAll`, `RefusalHoldsNothing`, `LiveHoldsAreCounted` |
| `StockReservation_shared` | requests of one session overlap or die, extensions, one of two products gone from the catalogue, one-line carts, TTL 2 | `TypeOK`, `HeldWithinPeak`, `LedgerSpec`, `QuietDrains` |
| `OrderFulfillment_endpoints` | one order of one unit, paid by Square, 2 workers; every endpoint, PATCH to pending and cancelled, Square's refund events | `ClosedHoldNothing`, `RefundedOnce`, `RefundedIsPaidBack`, `LifecycleSteps` |
| `OrderFulfillment_competing` | 2 orders of one unit of one product, one paid by Square, stock 0..1, 2 workers; fulfil, ship, cancel, refund, refund events | `TypeOK`, `Conservation` |
| `SquareWebhook_overlap` | a payment event and a completed refund event of one order, 3 deliveries each, 2 attempts, 2 workers, batches | `TypeOK`, `DuplicatesBounded`, `NothingLost`, `RefundsReachOrders` |
| `Payments_overlap` | a card payment and a hosted checkout with a client's key, each submitted twice, a card payment without one, a manual order, 2 workers, 2 tries | `TypeOK`, `ChargedOnce`, `PaidOrdersArePaid`, `NumbersWithoutGaps`, `HostedPaymentsFindTheirOrder` |
| `OrderReturns_overlap` | one order of one unit, 3 rows, 2 workers, 3 creations of 1 or 2 units, order endpoints with PATCH to refunded | `TypeOK`, `StockAccountsForReturns`, `OpenReturnsBounded`, `NumbersWithoutGaps` |
| `ProductionRun_overlap` | 2 runs, one spool, 2 material rows with usage 1, -1 or none, 2 workers, weights from outside | `TypeOK`, `TrailAddsUp`, `SpoolsMatchRuns`, `NeverNegative` |
| `RunPlates_overlap` | 2 plates, 2 workers, plates created pending or complete | `PlatesTypeOK`, `CountsSettle`, `CompleteStays` |
| `PrintQueue_overlap` | 2 jobs, 2 printers, 2 workers | `TypeOK`, `PrintersShowTheirJob`, `FinishedStays` |
| `ProductBundles_overlap` | 3 products, 2 workers | `TypeOK`, `NoBundleContainsItself`, `WalksEnd` |

Bounds.  Two workers and two sessions, orders, purchases, runs, plates or jobs
show every pairwise race; two products in carts of opposite order show partial
failure and rollback beside a competing grant.  A stock of 0..1 with one-unit
lines covers "just enough" and "one short".  TTL 2 or 3 with one tick per request
covers a key that expires before, within and after a request.
`MaxAttempts`, `MAX_RETRIES` and `MaxSubmissions` of 2 cover the first and the
last of each; three deliveries are one more than there are workers, three
returns one more than may be open.  One spool that two rows name, with
weight 2 and amounts of 1, covers "enough for each row, not for both" after
another run took one.  Three products are the least with a cycle through a
product that is in neither of two new pairs.  Symmetry of workers (and of
sessions, rows, plates, jobs, printers where they are alike) is used where no
liveness is checked.

Constraints.  `ProductionRun_overlap` and `PrintQueue_overlap` stop where `loose`
becomes non-empty: the properties except those spools or printers, so that what
follows tells less about them.  The state that first becomes loose is still
checked, and every interleaving up to it is explored.  `ProductionRun_overlap`
also stops where a spool has more than at the beginning, and where rows are
edited while one that gives back is stored; two requests that only edit rows or
PATCH a run are not followed together, nor one that fails a run beside another,
since failing differs from cancelling in the status it sets.
`OrderReturns_overlap` goes on after
a request was overtaken, but then with two returns and no deletion, and as long
as stock is not above what there was (`LittleAfterOvertaking`); a return of more
units than the order has is looked at without others (`TwiceIsEnough`).  The two
order runs stop where overtaken requests have put more into stock than there ever
was (`NoMoreThanEver`), which they can do without end.  `PrintQueue_overlap`
also keeps to one request while a printer is inactive, since only assignments ask
for it; `ProductBundles_overlap` to one inactive product, since only a purge asks
for it.

Exceptions.  No run keeps requests on orders, events, returns, runs or jobs from
overlapping.  Much of this code decides and computes on rows that it read without
a lock, so a property that has to hold of every interleaving must say what an
overtaken request may do.  History variables do that: each names the rows that a
request committed over although what it had read of them was no longer so, row by
row and only then, and the property holds of the others.

* `Conservation` leaves out the products in `drifted`.  Without that it is
  `NoRaceConditions`, which fails.
* `ClosedHoldNothing` leaves out the orders in `loose`: closed by PATCH or by
  Square's event, which put nothing back, or closed and fulfilled by requests that
  did not see each other.  A later cancellation or refund that sees the order as
  it is takes it out of `loose` again, so the property says that these put
  everything right.
* `LifecycleSteps` allows any change by a commit that is `Overtaken` in what it
  relies on: the statuses that its endpoint asks for, whether the order is
  fulfilled, the stock.  A commit that was overtaken in something else (a refund by
  the event of that refund, a PATCH by anything) must still be a step.
* `DuplicatesBounded` does not ask for one processing of an event, which overlapping
  workers break, but for one by each worker; `NothingLost` leaves out the events
  whose worker stopped in the middle of an attempt, which nobody takes up again.
* `OpenReturnsBounded` has no exception: an order can have two open returns, and
  no more than there are requests at a time.

`carts` lets each session have one request in flight (`SerialSessions`): of two
overlapping reservations of one session the second releases what the first took
so far, and the first may still report success.  Two sessions interleave freely.

`CHECK_DEADLOCK FALSE` in the webhook and payment runs: Square stops sending an
event after `MaxDeliveries`, customers stop after `MaxSubmissions`, and then
there is nothing left to do.

The violation run `OrderFulfillment_lost_update` checks `NoRaceConditions` with
overlapping fulfilments.  `order_fulfillment.py:122-123` says that
`SELECT FOR UPDATE` prevents races; the locked rows are not read anew, and units
are lost (quoted in `PROJECT.json` under findings).

Other disagreements that were met while modelling and have no run of their own:

* extending a reservation (`stock_reservation.py:459`, which only tests call) can
  leave a session with holds that no longer count: it renews the keys that
  still exist, and one that begins before the tick in which a product's key
  expires renews the session's record after it.  `LiveHoldsAreCounted` is
  therefore about a service without extensions;
* an abandoned hold stays counted while other sessions keep renewing the
  product's hash (`stock_reservation.py:106`); a grant may exceed today's stock,
  because `max_available` is read before the script runs (`HeldWithinPeak` is
  what remains);
* two deliveries of an event at the same moment are both processed; an event
  whose worker died stays "processing" for good, because redeliveries are
  answered and the retry job selects failed events only;
* a refund event marks an order refunded and restores no units, and the refund
  endpoint then refuses to, unless it had read the order before;
* a spool that weighs more after a run than before is given the difference;
* a card payment that is submitted again under its key is charged once and
  stored as a second order;
* the same units can be returned again in a later return request, and twice in one
  by listing their line twice;
* cancelling and failing a run take the reported grams once for every row that
  names the spool;
* `get_queue` orders by `priority.desc()`, which compares the names of an enum;
* failing a queued job clears the current job of a printer that prints another,
  and a second job may be started on a busy printer;
* two walks that overtake each other store a cycle of bundles.

## 5. Fairness

`QuietDrains` (`StockReservation`) assumes weak fairness of `Tick` (Redis expires
keys whatever the program does) and of each worker's own next step (a started
request runs to its end, unless it dies: `Dies` can end it between any two calls
and is not assumed ever to happen).  It does not assume that anyone
calls release.  `WalksEnd` (`ProductBundles`) assumes weak fairness of a walk's
own steps (`Walks`): the event loop resumes a request when its query is
answered.  Other requests may change the products below the walk all the time;
that it ends nevertheless is because it goes through no product twice.  Retries
of webhook events have no liveness property: `retry_failed_webhooks` is called
by nothing in the repository, so no fairness is justified.

## 6. Proofs

`StockReservationProofs` proves, for all values of the constants that satisfy
`ReservationAssumption` and `CartsAssumption`:

* `TypeCorrect`: `Spec => []TypeOK`;
* `NeverOverPeak`: `Spec => []HeldWithinPeak`;
* `ImplementsLedger`: `Spec => LedgerSpec`;
* `LedgerPromise`: `LedgerSpec => []Ledger!WithinCap`, the promise of the
  abstract specification from its own three steps; under the mapping it is
  `HeldWithinPeak` (`SamePromise`);
* with `SerialSessions`, `SuccessHolds` (`SuccessHoldsAll`) and `RefusalUndoes`
  (`RefusalHoldsNothing`), and also without extensions (`Extras = {}`),
  `LiveHoldsCount` (`LiveHoldsAreCounted`).

The invariant of the second and third is

    IInv == TypeOK /\ CursorInCart /\ ReadWithinPeak /\ HeldWithinPeak

`HeldWithinPeak` alone is not inductive: the script compares with a value read
earlier.  `ReadWithinPeak` says that a request in its script phase holds
`max_available` values no greater than today's `MaxAvailable(p, peak[p])`, which
stays true because `peak` only grows; `CursorInCart` says that the line the script is
about to reserve exists.  A grant then adds at most the line's quantity to
`ReservedQuantity` (`GrantAddsAtMost`), every other step drops whole holds
(`DroppingShrinks`).  The refinement uses the same three cases: each
step is a Grant, a Drop, a Raise or a stutter (`StepsOfTheLedger`).
`ReservedQuantity` is a cardinality so that the library's theorems on finite
sets apply; `MCStockReservation` checks that it is the sum the script computes.

What a reservation promises rests on

    SInv == TypeOK /\ CursorInCart /\ Apart /\ \A w \in Workers : Staged(w)

No two requests work for one session (`Apart`, which `SerialSessions` gives), so
what other sessions do leaves a request's own holds alone (`Undisturbed`).
`Staged` says for each program counter what the session holds: nothing before
the first line, the lines reserved so far on both sides during the script phase
(`HoldsReserved`) and nothing else (`HoldsNothingElse`), all of them in a refused
request until its rollback has read them, none after it.  Keys count too: a hold
that was renewed since the last tick has all its life, and a request sees one
tick at most (`Left`), so nothing expires under its hands.  For the third,

    LInv == no extension at work /\ TTLs within TTL /\ Covered

the session's key outlives a product's by at most the one tick that fell between
two lines of a cart (`Covered`).  Extensions break this, as section 4 says: TLC
shows it with `Extras = {0}` in a trace of 13 states.  `SerialSessions` cannot be
dropped either: of two overlapping reservations of one session the second
releases what the first took.

`PaymentsProofs` proves, for all values of the constants that satisfy
`PaymentsAssumption`, that `Spec` implies `[]` of `TypeOK` (`TypeCorrect`),
`NumbersWithoutGaps` (`NoGaps`), `ChargedOnce` (`NoDoubleCharge`),
`PaidOrdersArePaid` (`PaidIsPaid`) and `HostedPaymentsFindTheirOrder`
(`HostedPaymentsMatch`), from

    IInv == TypeOK /\ RequestsInPlace /\ NumberInv /\ KeyInv /\ PaidInv /\ HostedInv

* `NumberInv`: the number that a request counted may be old by the time the
  order is stored, but it is at most one more than the orders there are
  (`CountedNumbers`), and the numbers there are run from 1.  The unique index
  refuses a taken number, so a number that is stored is the next one.
* `KeyInv`: the key of a payment is a function of its purchase and submission,
  and a key has one payment; `ChargedOnce` is read off it.
* `PaidInv`: between `Charge` and `Store` the request's payment is already
  there, so the order is born paid.
* `HostedInv`: Square gives a key one link, with one order number; a request
  reaches `Offer` only after an order with its key is stored; only offered
  links are paid.  Two orders with the key of a hosted payment would both have
  the link's number, and numbers are unique (`OneOrderForAHostedPayment`).

The invariants are not inductive one by one: `HostedPaymentsFindTheirOrder` needs
`NumberInv` and `KeyInv` as well as its own.

`OrderFulfillmentProofs` proves, from `OrdersAssumption` and with requests that
overlap in any way beside Square's refund events, `TypeCorrect`, `NoDoubleRefund`
(`RefundedOnce`) and, when no PATCH sets "refunded", `RefundedWasPaid`
(`RefundedIsPaidBack`), from

    PInv == TypeOK /\ RequestsInPlace /\ RefundedOnce

`RequestsInPlace` says what a request has established by the time it reaches
each program counter: a request at "lock" or "commit" read enough stock for what
it takes, so the stock it writes is not negative, and a refund got there through
Square.  `RefundedOnce` rests on the key of a refund being a function of its
order, whatever amount is asked (the part of `TypeOK` on `refunds`).  The other
three need in addition

    Decided == \A w \in Workers : req[w].pc \in {"pay", "lock", "commit"} => Allowed(w)

a request past its decision was allowed to go on by what it had read.  Then a
commit that is not `Overtaken` found the stock, the fulfilment and a status as
good as those it read, and is one step of `OrderLifecycle` (`CommitIsLifecycle`,
`ImplementsLifecycle`).  A commit that does not drift changes the units taken by
what it writes into stock, by cardinalities of disjoint unions (`UnitsAfter`,
`UnitsConserved`).  A closed order outside `loose` is closed by a commit that put
back, or did not hold units, and is not fulfilled later (`ClosedCommit`,
`ClosedOrdersHoldNothing`).

`SquareWebhookProofs` proves, from `WebhookAssumption` and for any number of
workers at one event, `TypeCorrect` and `RefundsReach` (`RefundsReachOrders`), from

    RInv == TypeOK /\ Linked /\ RequestsInPlace /\ RefundsReachOrders

An order that is not hosted is linked to its payment from the beginning and stays
so (`Linked`), so a refund finds it; what a worker or its batch holds of an order
is refunded only if the order is (`Behind`), so that writing the columns that
changed never takes a refund back.

`EventsAreNotLost` (`NothingLost`) follows with `LInv`: it says of each status, and
of a count of attempts that allows no retry, who still answers for the event
(`Told`).  The count matters as much as the status: a worker with a smaller
count may write "failed" over a dead letter, and then the row is due for no retry,
but the dead letter is there.

`DoneAtMostOnceEach` (`DuplicatesBounded`) follows with `DInv`.  `Holders(e)` are the
workers that can still come to the end of e: those past the lookup, and the jobs
that have it in their batch.  Nobody joins them while e is done, since a lookup
answers and a batch takes failed events only; so what was done and what can still
be done together are at most one each, and a late failure, which opens e again,
allows one more round (`Counted`).

`OrderReturnsProofs` proves, from `ReturnsAssumption` and for any number of
overlapping requests, `TypeCorrect`, `NoGaps` (`NumbersWithoutGaps`), `OpenBounded`
(`OpenReturnsBounded`) and `StockAccounted` (`StockAccountsForReturns`), from

    IInv == TypeOK /\ RowsOfOrders /\ RequestsInPlace /\ CountedNumbers
            /\ NumbersWithoutGaps

A request that is about to change a row read its units, and these never change
while the row is stored (`RequestsInPlace`), so a commit that completes it over
something else than it read is one that `Overtaken` sees.  The stock is compared by
cardinalities of disjoint unions (`OneMore`), one step of an order or one completed
return at a time.  `OpenBounded` needs `RoomForAll`: the returns of an order that
are open or about to be opened again by a late approval or receipt
(`MayBeOpen`), and the requests that found none and will store one (`Storing`),
are together at most as many as requests are served at a time.  A request joins
`Storing` when none is open, so `MayBeOpen` then has only what other workers are
about to open (`RoomForOne`).

`ProductionRunProofs` proves, from `ProductionRunAssumption` and for any runs,
spools, rows and overlapping requests, `TypeCorrect`, `TrailComplete`
(`TrailAddsUp`), `SpoolsAccounted` (`SpoolsMatchRuns`) and `NoOverdraft`
(`NeverNegative`).  Each of the three is inductive beside

    TypesHold == TypeOK /\ RequestsInPlace

`RequestsInPlace` says that a request past its read goes on with a status that
its endpoint accepts, and that one about to take filament found enough of every
spool, summed over the rows that name it.  A commit that leaves a spool out of
`loose` found the weight, the status and the rows that it had read
(`Unexcused`): then completing takes exactly what it adds to the use by
completed runs (`CompletionMatches`), a run that was completed before is not
taken from again, stopping takes what its transaction records, and nothing else
changes that use (`UsedKept`).  The sums are cardinalities: rows that have no
row in common add up (`NetAdds`), and completing a run adds its rows
(`CompletionAdds`).

The same module proves of `RunPlates`, from `RunPlatesAssumption`,
`PlatesTypeCorrect`, `CountsSettled` (`CountsSettle`) and `CompletePlatesStay`
(`CompleteStays`) for any plates and workers, from

    PlatesInv == PlatesTypeOK /\ PlateRequestsInPlace /\ CountedRight /\ CountsSettle

`CountedRight`: a worker that counts and is not in `disturbed` holds the numbers
that the plates give now.  A change of a plate disturbs every worker that counts,
and whoever changed a plate owes a count.

`PrintQueueProofs` proves `TypeCorrect`, `PrintersAgree` (`PrintersShowTheirJob`)
and `FinishedJobsStay` (`FinishedStays`) for any jobs, printers and overlapping
requests, from

    IInv == TypeOK /\ RequestsInPlace /\ PrintersShowTheirJob

A request that commits read the job in a status that its endpoint accepts, and
the job's own printer (`RequestsInPlace`).  For each printer that stays out of
`loose` either the commit touches nothing of it (`Untouched`), or it writes over
exactly what it read (`WrittenJob`, `WrittenPrinter`), and then start, complete
and fail change job and printer alike.

`ProductBundlesProofs` proves `TypeCorrect` and `AcyclicBundles`
(`NoBundleContainsItself`) for any products and any number of overlapping walks,
from

    IInv == TypeOK /\ WalkInv /\ NoBundleContainsItself

`WalkInv`: unless it was overtaken, what a walk has visited is closed under
containment up to what it has still to visit, and never contains the parent.
When nothing is left to visit the visited products are a closed set that
contains the child and not the parent, so a set without a least product after
the insertion would have been one before.

`WalksAdvance` proves for any finite set of products the variant that `WalksEnd`
rests on: a query of a walk ends it or leaves fewer products that the walk has
not visited, whatever other requests do below it, because what a walk has still
to visit it has not visited before (`TodoIsNew`).

Only model-checked: `QuietDrains` and `WalksEnd`, since liveness under fairness is
out of this prover's reach.  `SuccessHoldsAll`, `RefusalHoldsNothing`,
`LiveHoldsAreCounted` and `RefundedIsPaidBack` are proved under the conditions
named with them, which their runs keep to.  That units are sums is checked by
`MCStockReservation` and `MCProductionRun`: a sum over a set of rows is an
induction over data.

## 7. Not modelled

`PROJECT.json` lists every component with its reason.  In short:

* the completion of a checkout (`shop.py`, `complete_checkout`): the lines of the
  order it builds take `order_id` from an order that was not flushed and get no
  `tenant_id`, both NOT NULL.  It charges the card and then always fails, so the
  removal of the cart, the confirmation of the reservation and the count of a
  discount's uses are never reached; discounts are used nowhere else;
* outbound webhooks: no part of the program raises an event for them;
* the images of a product, consumables, spools beyond their weight, categories,
  designers, pages, reviews, settings: CRUD on single rows;
* tenant members (`api/v1`): the endpoints fail on a lazy load before they write;
* printer and marketplace protocols: callbacks of the MQTT client run on a
  thread without an event loop, and connecting takes a lock that its own callee
  takes again (`services/bambu_mqtt.py:143`), so what they would write is not
  written; AMS synchronisation is `SetWeight`;
* reversal of a production run: the service method has no caller;
* reports, search, caches, e-mail, shipping prices, files, authentication,
  migrations, observability, the frontend, sites and deployment.
