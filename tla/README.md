# MyOrder.fun: TLA+ models, checks and proofs

This directory is the verification project of the order server of MyOrder.fun
(`src/artifacts/api-server`, TypeScript, PostgreSQL through drizzle). It models
the parts where a mistake costs money or stock and where a test hardly reaches:
several transactions, webhooks and an external provider acting on the same
order, with lost answers, crashes and retries between their steps.

Paths below are relative to `src/artifacts/api-server/src/` unless they start
with `src/`.

## 1. The system

### Inventory of components

| Component | Source | State it keeps | Operations | Interacts with | What makes it correct |
|---|---|---|---|---|---|
| PayPal checkout | `payments/service.ts`, `routes/paypal-payments.ts`, `payments/paypal.ts` | `payment_attempts`, `payment_captures`, `orders.payment_status/status` | create, capture, cancelBuyerCheckout, reconcile, expireAbandonedCreated, order and capture webhooks, decline clean-up | PayPal, reservations, credit, order lifecycle | one charge per order, no charge forgotten, stock and credit follow the payment |
| Refunds | `payments/service.ts` (235-340, refund webhooks 430-451) | `payment_refunds` | prepareRefund, recordRefundProviderResult, finalizeRefund, refund, webhooks | PayPal, returns | refunds never exceed the capture, one provider request per intent |
| Inventory reservations | `lib/inventoryReservations.ts`, `lib/inventoryKernel.ts`, `lib/inventoryMovementLedger.ts`, `lib/inventoryAuthority.ts`, `lib/orderCatalogEligibility.ts`, `payments/inventory.ts` | `inventory_reservations`, `inventory_balances`, movements, the kernel's log | reserve, confirm, release, releaseExpired, reconcile, post movement | checkout, order creation, lifecycle | no oversell, a sale is posted once, a hold lasts while the buyer can be charged and no longer |
| Customer credit | `payments/customerCredit.ts`, `routes/payments.ts` | account balance and reserve, ledger keys | adjust, reserve, consume, release, restore | checkout, cancellation, returns | the reserve is the sum of what orders hold |
| Order lifecycle | `routes/orders.ts`, `lib/orderStateMachine.ts`, `lib/orderCloseEligibility.ts` | `orders.status`, `fulfillment_status`, assignment | accept, release, assign, reassign, mark-ready, prepare, ready, complete, cancel, archive, void, purge | all of the above | one acceptor, only legal transitions, nothing completed unpaid |
| Uber Direct | `lib/uberFulfillment.ts`, `lib/uberDirect.ts`, `routes/uber-direct-webhooks.ts` | delivery rows and their dispatch state | queue, request, dispatch, reconcile, cancel, webhook | Uber, lifecycle | one courier per order, the row tells the truth about it, a courier that fails is noticed |
| Returns | `routes/returns.ts`, `lib/refundAccounting.ts` | `return_transactions` and lines | post return, finalize PayPal return | refunds, credit, inventory | nothing is returned twice, each tender gets back its exact share |
| Routing and shifts | `lib/orderRouting.ts`, `routes/shift-queue.ts`, `routes/shifts.ts`, `lib/shiftCloseoutFinancials.ts` | shifts, queue assignment, cash banks | route, clock in and out, close out | lifecycle | orders go only to active shifts |
| Printing | `lib/printService.ts`, `lib/print/documentJobs.ts`, `lib/printFallback.ts`, `routes/print.ts` | `print_jobs`, printers | queue, claim, dispatch, retry, reroute, sweep | the printers' bridge, lifecycle | every copy has a cause, no document disappears, a job ends while the worker keeps up |
| Order creation and quotes | `routes/orders.ts` (961-1850), `lib/checkoutNormalizer.ts`, `lib/cartAvailability.ts` | a new order and its lines | quote, convert, create | reservations, Uber | totals add up, stock is reserved with the order |
| Catalogue, settings, users, feedback, import, reports | `routes/*.ts` | one row each | create, read, update, delete | - | - |
| Web client, generated clients, deployment | `src/artifacts/platform`, `src/lib/*`, `src/deploy` | - | - | API | - |

### What is hard here

* Every service call is one PostgreSQL transaction (READ COMMITTED) that takes
  `pg_advisory_xact_lock(tenant, order)` first and talks to PayPal **while it
  holds the lock**. A crash rolls the database back; PayPal keeps what it did.
* Webhooks take a lock per event, not per order, and write after a read that
  another transaction may have overtaken. The decline clean-up of the capture
  route takes no lock at all and runs after the decline was committed.
* Reservations expire on the clock and are swept by other orders' checkouts,
  which see committed attempts only.
* Inventory work (`runKernelWork`) begins by making sure that its log table
  exists. The `ALTER TABLE` in it takes PostgreSQL's ACCESS EXCLUSIVE lock and
  keeps it until the transaction ends, so inventory work is serial, for all
  tenants, and a checkout holds that lock while it calls PayPal. Nothing in the
  code says that this is what keeps concurrent reservations apart; a schema
  change that drops the statement would remove it.
* Catalogue rows are locked before that lock and written after it.
* Ledger keys make credit movements idempotent, but each caller uses a key of
  its own, checked only against what the whole account holds.
* Most handlers of an order read it, decide, and write it in a later statement;
  some of these writes name what they expect to find, others only the id.
* A courier is bought by a call that may time out after it succeeded, and Uber's
  list of deliveries lags; a printer's bridge may print and answer too late.

The full list, with lines and the properties aimed at each, is `hazards` in
`PROJECT.json`.

## 2. Modules

| Module | What it is |
|---|---|
| `PayPalCheckout` | the detailed specification of one order's external payment, with the mapping to what it promises |
| `CheckoutPromise` | the abstract specification it implements: the buyer is charged at most once and the order is settled only by a charge |
| `MCPayPalCheckout` | the instance TLC checks |
| `PayPalCheckout_proofs` | theorems about `PayPalCheckout` and their proofs |
| `RefundIntents` | the refunds of one captured payment |
| `MCRefundIntents` | its instance for TLC (keys and callers are symmetric) |
| `RefundIntents_proofs` | theorems about `RefundIntents` and their proofs |
| `Reservations` | the stock of one item under competing orders, with the locks their transactions wait for |
| `MCReservations` | its instances for TLC |
| `Reservations_proofs` | theorems about `Reservations` and their proofs |
| `OrderLifecycle`, `MCOrderLifecycle`, `OrderLifecycle_proofs` | one order between the people who work on it and the payments that meet it there |
| `UberFulfillment`, `MCUberFulfillment`, `UberFulfillment_proofs` | the courier of one order, with Uber's deliveries and webhooks |
| `CustomerCredit`, `MCCustomerCredit`, `CustomerCredit_proofs` | one customer's account and the orders that draw on it |
| `Returns`, `MCReturns`, `Returns_proofs` | the returns of one paid order and their arithmetic |
| `PrintQueue`, `MCPrintQueue`, `PrintQueue_proofs` | the jobs of one document |

The modules cut the system along what its transactions write, and meet in the
order's row. Each models what the others do to the rows it reads by the steps
that are visible there: `CustomerCredit` has every payment of an order, as far
as credit is concerned; `OrderLifecycle` has the captures, closeouts, returns
and courier reports that change an order's status or payment; `Reservations`
has every handler that reserves, sells or gives back stock; `Returns` has the
statements of `refund()` for a return's refund; `UberFulfillment` pays, closes
and refunds its order in one step each.

### PayPalCheckout

*State.* `attempts` holds the committed `payment_attempts` rows (and whether a
`payment_captures` row is stored: `captured`); `po` says that the row has a
provider order id, `net` that its amount was computed with the order's credit
taken off. `order` is what the order row says of payment, status and credit;
`hold` is its reservation; `account` the customer's reserve and the ledger keys
already used; `provider` and `mail` are PayPal's side (external). `tx` is the
transaction that holds the order's advisory lock: what it has written but not
committed lives there and `TxAborts` loses it. `hooks` and `cleanups` are the
handlers that hold no such lock, each between its read and its write.
`IntactSpec` is `Spec` without one step, `CleanupOverwrites`: a clean-up that
sets to failed an attempt which was revived after its decline. Nothing in the
code keeps it from happening; what is false with it is claimed without it only,
and section 6 says so.

*Actions.* A service call is a `Begin...` action with the guards it checks
under the lock, followed by one action per outcome that is the commit:
`BeginCreate` then `CreateSucceeds`, `CreateUnclear` or `CreateFails`;
`BeginCapture` then `CaptureSettles`, `CaptureUnsettled` (the savepoint rolled
back), `CaptureDeclined` or `CaptureUnclear`; `BeginCancel`, `BeginReconcile`
and `BeginExpire`, then `LookUp` (PayPal's answer) and the commit. Between any
two of them PayPal, the buyer, webhooks, the clean-up, the clock and other
orders may act, and the process may die. `StaffCancel` is one transaction.

*Abstractions.* Amounts: only whether customer credit is applied matters to the
control, so an amount is that flag; amount mismatches reported by PayPal are
part of the "unclear" outcomes. A call with a used idempotency key only reads,
so only calls with a fresh key are actions. Reusing a request id at PayPal
repeats the answer, so one capture request per attempt is modelled (`asked`).
The creation order of attempts is taken to be the order of their ids. PayPal
sends a capture-denied event only for a pending capture, and executes a capture
only if the buyer had approved when it was asked. Catalogue checks and the
recomputation of tax are left out: they only refuse. Status changes by staff
other than the cancellation, and refunds, are outside this module, so a capture
never meets `partially_refunded`.

### CheckoutPromise

What the buyer may rely on: `charges` only grows, at most one charge is made,
and the order is settled and the stock sold only with a charge. The mapping in
`PayPalCheckout` reads `charges` off PayPal's completed orders, `settled` off
`order.paid` and `sold` off the confirmed reservation.

### RefundIntents

*State.* `rows` is `payment_refunds`, one row per idempotency key; `id` is the
`provider_refund_id` on it, named by the row whose request made that refund.
`payment` and `attempt` are what finalization writes on the order and on the
captured attempt (the capture row's own state is written with the attempt and
read by nothing here). `calls` are the `refund()` requests in progress,
`hooks` the refund webhooks between their read and their write, `recon` the
reconcile transaction that holds the order's lock, `provider` and `mail` PayPal.

*Actions.* `refund()` is a chain of separate commits, one action each:
`Prepare` or `Replay` (under the lock), `Post` and `Answer` (PayPal, no lock),
`Record`, `RecordMismatch` or `Catch` (a write by row id, no lock), `Finalize`
or `FinalizeRefused` (under the lock again). `Crash` ends a request anywhere.
A webhook is a read (`HookReads`) and a write (`HookWrites`, `HookFlags`,
`HookFails`), and `LookUp`, `Reconcile` and `ReconcileAborts` are reconcile.
`HookFlags` is the capture's refund event, which names no refund: it flags the
intent and, if that was not finalized when it was read, the attempt.

*Abstractions.* The request does not remember that it has posted: the request
id is the intent's own and PayPal repeats its answer to it (external), which is
also why a failed intent that is sent again fails again. Reconcile takes its
lock at the look-up, since holding it earlier only keeps others out for longer.
That PayPal itself refuses to refund more than it captured is *not* used. Every
answer and refund event is taken to carry an amount (the code accepts one
without). `Total` counts amounts unit by unit instead of adding them up, which
is the same number and lets the sums be proved about without recursion. Events
a request or a later delivery leaves unprocessed stay in `mail`.

*Outside.* Split-tender orders are refused by `prepareRefund`; return refunds
(`return-paypal:` keys) finalize in `routes/returns.ts`. A partially refunded
order can be checked out again, since it is neither paid nor has an unresolved
attempt: its composition with `PayPalCheckout` is left for a later step (it
is an open point of the plan).

### Reservations

One item that is sold as several catalogue options (`Option`), whose stock is
kept in several locations under the catalogue row of one of them (`Source`).

*State.* `row` is `inventory_reservations`: one row per order and location,
because the idempotency key names both, with its status, quantity and expiry.
`onHand` is the balance of each location, `sold` the sale movements posted per
reservation, `moved` the sum of manual movements. `order` and `attempt` are the
status of an order and of its latest payment attempt, as far as stock depends
on them. `tx[w]` is the open transaction of worker `w`: its job (the handler),
the step it has reached, the time it began (PostgreSQL's `now()`, which the
expiry queries use) and, for the archive, the candidates left. `kernel` is the
lock on the log table: who holds it, the reservation rows, locked balances,
posted sales and archived orders it has written and not committed.

*Actions.* `Begin` is a handler's guard under the order's advisory lock, of
which there is one per order; `BeginArchive` takes no such lock. A transaction
then takes its locks in the order the code does: `LockRows` (the catalogue
rows, the order row at closeout), `EnterKernel`, then `Reserve`
(`ensurePaidOrderInventoryReserved`), `Confirm`, `Finish`, or `GiveBack`, or
the archive's loop. A step is enabled only if nobody it `Waits` for is left; a
transaction can be split anywhere it may wait and nowhere else, since what it
writes is invisible until it commits. A checkout stands at PayPal *inside* the
kernel (`CheckoutAnswered`), a capture before it (`CaptureAnswered`). `Abort` is
a rollback; in a capture it is the rollback of the savepoint, after which the
attempt is in review and the buyer is charged. `ChargeFound` (a capture
webhook), `Recheck`, `ReconcileInventory` and `Move` (a manual movement, posted
outside the kernel) act on committed data between them. Sale, release, sweep
and expiry are the same operators in all handlers. Sums (`Total`) are counted
unit by unit, as in `RefundIntents`, in a form that can be proved about.
`EditStatus` is the write of an order's status that touches no stock: the
fulfilment route and `PATCH /orders/:id` (`routes/orders.ts:3073`, 2856). It ends
an order (`dropped`) or opens an ended one again, beside whatever else the order
is going through, and waits for nothing but the order's row. An order in
`dropped` keeps its stock on hold until that expires.

*Abstractions.* An order has one line. Only the latest attempt is kept, which
is the one that `reconcile` and `cancel` look at; `created` stands for
`approved` too. `revived` is an attempt that had failed, and whose hold was
given back, when a webhook or `reconcile` reopened it: it has no hold but can be
captured, and then has to find the stock again. Credit and closeout settle
without a provider; their money is left out. A buyer's cancellation whose
look-up finds a charge ends as `ChargeFound`. An order that two handlers can
cancel is in one state `cancelled`, archived orders included; the statuses
staff may write are those two, ended and not. PostgreSQL's
deadlock detection (external) aborts any one of those in a circle.

*Outside.* Lines of several items and specials with components (their
reservations are the same calls in a loop), receipts, transfers, returns of
stock, opening counts, valuation, and advisory keys as numbers (two of which
can collide: the ledger's `(tenant, itemId)` with `(tenant, orderId)`,
`lib/inventoryMovementLedger.ts:155`).

### OrderLifecycle

*State.* `order` is the row of `orders` as the handlers compare it: `status`,
`fulfil` (`fulfillment_status`), `payment`, the assignee `who` and its `shift`,
`accepted`, the payment method and what is known of the courier. `attempt` is
the state of the latest PayPal attempt; `"capturing"` is a capture that stands
at PayPal and holds the order's lock. `op[a]` is the request that actor `a` has
read and decided, and not yet written. `kept` and `claims` are history: how
often the total was taken, less refunds, and who was told that the order is theirs.

*Actions.* A handler that reads, decides and writes in different statements is
two actions (`ReadAccept` and `WriteAccept`, `ReadTransition` and
`WriteTransition`, `ReadFulfil` and `WriteFulfil`, `ReadArchive` and
`WriteArchive`, ...). The write has the guard that the code's `WHERE` has, and
none where it writes by id. Handlers that decide in one `UPDATE` or under the
lock are one action (`ReleaseOrder`, `Assign`, `Closeout`, `ApplyCredit`, ...).
Shifts start and end underneath (`ClockIn`, `ClockOut`, `MoveShift`).

*Abstractions.* `Statuses` and `Stages` are the values staff may write through
the two routes that take any (`PATCH /orders/:id`, `POST .../fulfillment`). A
clock-out is seen as the end of the shift's claim on an order: totals, cash
banks and the close-out report are not in it.

*Outside.* Partial refunds; orders without a version 3 tax snapshot; the
termination of other people's shifts; ETA, tracking, notes and notifications.

### UberFulfillment

*State.* `row` is `uber_delivery_fulfillments`: `requestState`, the provider's
id (0 for none) and status. `order` and `flagged` are what it does to the order.
`uber` are the deliveries at Uber that carry the order's reference, with every
status each has had (`had`), whether it was made from the row's quote (`ours`)
and whether the list shows it yet. `crowded` is whether the tenant has more
deliveries, of all orders, than the five pages of a hundred that a look-up reads
(`lib/uberFulfillment.ts:191`); it becomes so and stays so, for the list has no
filter. `handled` is the table of webhook events.

*Actions.* A request (`ReadRequest`, `ClaimRequest`, `Requote`, `Dispatch`,
`Send`, `Created`), a reconciliation (`ReadReconcile`, `Lookup`, `Reconcile`)
and a cancellation (`ReadCancel`, `ClaimCancel`, `AskCancel`, `Cancel`) go from
statement to statement, each `UPDATE` naming the state it was decided on
(`Unchanged`). `Flag` is the second statement of those that end a courier.
`Webhook` is one transaction. `Crash` cuts a request off anywhere. `Lookup` takes
what the list shows (`LookedUp`): nothing if it is `crowded`, since an incomplete
scan drops even a match (203), and otherwise the one delivery from the row's quote,
or that there are several. In `LookupFails` Uber does not answer.

*Abstractions.* A webhook carries any status its delivery has had, in any order
and any number of times; one that is lost simply does not come. `Requote`
contains the call for a new quote and the checks on it. Fees, addresses,
contacts and tokens are left out. The cart's own quoting is another route.

### CustomerCredit

*State.* `account` is the balance and its one reserved sum, `order` and
`attempt` the rows that callers read, `used` the ledger's keys, `cleanups` the
declined captures not cleaned up yet. `held`, `spent` and `restored` are the
ledger summed up per order, which the code does nowhere. What all orders hold
together is counted unit by unit (`Units`), as `RefundIntents` counts amounts.

*Actions.* `Book` and `Release` are the library's reserve, consume and release;
every caller is an action: `Adjust`, `Place`, `ApplyCredit`, `CloseCash`,
`Complete`, `CreateAttempt`, `Captured`, `Unanswered`, `Declined` with its
clean-up, `Reconciled`, `BuyerCancel`, `Abandon`, `StaffCancel`, `Return`. Keys
are tuples; the ids of orders and of attempts come from different sequences and
meet in the keys of cancellations, as in the code. `skipped` records, for each
order, the releases that were taken for a replay because their key was used.

`Archive` (the clean-up of stale orders), `CancelFulfilment` (the fulfilment
route) and `EditStatus` (`PATCH /orders/:id`) end an order and leave its credit in
reserve, and `ApplyCredit` does not look at the order's stage and gives some to one
that has ended. Such an order is `dropped`, and `EditStatus` may open it again.

*Orderly runs.* `Spec` is the code. Two sequences in it make the account's books
wrong: an order that was refunded, in part or whole, is paid, cancelled or given
credit once more (`routes/orders.ts:2754` and the other guards that only ask
for "not paid"), and something comes between a decline and the end of its clean-up
(`routes/paypal-payments.ts:79-91`). `OrderlySpec` is `Spec` without them; the run
`credit` and the theorems about the books are claims about `OrderlySpec`, and section 6
says what happens in the two sequences. No run would catch them.

### Returns

*State.* `ret` is `return_transactions` by idempotency key, `returned` the units
in completed returns, `given` what the ledgers say went back to each tender,
`refund` the state of each return's row in `payment_refunds`, `made` what PayPal
made of it. `calls` are requests and webhooks between two statements.

*Actions.* `Return` is a return without PayPal, in one transaction. With a part
for PayPal it is `Begin` (intent committed), `Prepare`, `Ask`, `Record` or
`Lost`, `Finalize` and `Complete`, and `Resume` when the key is posted again,
with `HookReads` and `HookWrites` beside it. `Refuse` is the 409 for a closed
shift, which returns from inside the transaction and so commits.

*Arithmetic.* `Share` is `allocateCentsByWeight` for two sources, `Due` and
`Divisible` are `allocateProportionalRefund`, `Cents` is
`allocateCumulativeQuantityCents` with its rounding. They are kept whole, since
the properties are about single cents. What units are worth is counted cent by cent (`Worth`).

*Outside.* The generic refunds of a single-tender PayPal order (`RefundIntents`),
restocking, the tax and commission ledgers, `allocateOrderLineRefundTax`.

### PrintQueue

*State.* `row` has the document's job and the one it is rerouted as, `printer`
whether their printers exist, `work[d]` what a dispatcher is at, with the job as
it read it (its count of tries above all), `list` what the worker's tick has
read. `copies` and `unheard` are what really came out of a printer.

`crowded` is whether more jobs wait, of all documents, than the ten that a tick reads.

*Actions.* `Queue` and `Ask` (staff's retry), `Tick` and `Take` (the worker),
`Claim`, `Send`, `Printed`, `Failed` (retry, give up or reroute), `Create` and
`Mark` (the two writes of a reroute), `Sweep` (jobs left sending), `Crash` and
`Delete` (a printer). A `Tick` reads all that wait or, if it is `crowded`, any of
them: the code asks for ten rows in no order. `Crowd` is other documents' jobs
coming and going.

*Outside.* Routing rules, rendering, the ways a bridge may be reached, stickers
that a bridge pulls for itself, and reprints (which are new documents).

## 3. Runs

| Run | Shows |
|---|---|
| `checkout` | (of `IntactSpec`) two attempts with credit, expiring holds, lost answers, crashes and late webhooks: no second attempt while one can take money (`OneUnresolvedAttempt`), no charge forgotten, paid means charged and sold, captured stays captured, and the refinement of `CheckoutPromise` (`KeepsPromise`): the buyer is charged at most once |
| `refunds` | two intents and two requests at once: PayPal never pays back more than it captured, only what it paid is booked, the order says what was refunded |
| `refunds_misreport` | with PayPal reporting other amounts: a refund is final only under the identity and with the amount that PayPal gave it |
| `stock` | two orders and two units in two locations: nothing is sold twice, a buyer who can be charged has the whole order on hold, what is on hold has a cause (an order that a bare status write ended being one), no location promises more than it has |
| `stock_ends` | two options of one item, and staff who take stock away: every transaction ends, those in a circular wait included, and a location never sells and promises more than it once had |
| `lifecycle` | one owner of an order, nothing completed that is not due, the total taken once, a paid order not cancelled |
| `lifecycle_paid` | finding: the fulfilment route cancels an order that was paid since it looked |
| `uber` | one courier is bought, the row tells the truth about it, its failure is noticed unless the process died or the courier was over when reconcile found it |
| `uber_found` | a courier whose creation was not answered is found as long as the tenant's deliveries fit into a look-up, and another one does not take its place |
| `credit` | (of `OrderlySpec`) no order takes what another has reserved, credit is consumed once, and left in reserve for an order that is not open and unpaid in three named ways only |
| `returns` | each tender gets its exact share back, the money is what the goods are worth, and a return begun can be finished |
| `print` | every copy has a cause, no document disappears without a reason, every job that has a printer ends unless the worker has more than ten to read |

*Bounds of the checkout.* `MaxAttempts = 2`: two attempts are what a double
charge, a stale clean-up of an earlier attempt or a second reservation need; ids
consumed by rolled-back creates count, so "create, crash, create" is covered.
`OtherCredit = 1`: enough for a wrong release to take another order's credit
without being refused. `HoldMayLapse`, `Sandbox = TRUE`: every action can happen.
Deadlock is not checked: an attempt whose create timed out has no provider order
id, so `reconcile` answers 404, `create` refuses a new one, and the order really
is left with nothing that may happen. `HandlersBound`: at a time two
of those that take no lock between their read and their write, two clean-ups or a
clean-up and a webhook handler, beside the call that holds the lock. The run is of `IntactSpec`, in which a clean-up may be overtaken by
everything, as long as it finds the attempt failed as the decline left it;
section 6 says what happens otherwise. The theorems say which of the two
specifications they are about.

*Bounds of the refunds.* Two keys and two requests: two intents compete for the
amount, two finalizations race, and two requests share a key. `Captured = 2`:
one unit each gives partial, then full refunds and two intents of equal amount
(which webhooks cannot tell apart), two units a full refund at once. `MaxHooks =
1`: one webhook at a time between its read and its write, while requests go on;
the theorems hold for any number. `Exact = FALSE` lets PayPal report an amount it
was not asked for; the sums mean nothing then, so that run checks what must
still hold, with two intents of which one can be taken for the other, one
request at a time and up to three units. `Crashes` lets requests die.
`MailBound`: three webhooks at once on their way or parked for another delivery, in
run `refunds`: those of both intents, and a capture's.

*Bounds of the stock.* Two orders, of one unit and of two, the first evaluated
per location and paid at the desk, the second through PayPal (`Online`), and two locations
of one unit that the two order types rank in opposite order: the orders can share
the stock only if one of them fails, the larger one has to be split over both
locations, and both orders of locking occur. `Ttl = Horizon = 1` lets a hold
expire between any two steps, once, and lets a transaction run with a `now()`
that is older than the clock. Staff may write the status of the order that is
paid through PayPal by hand (`Edited`), any number of times; the theorems have it
for every order. `stock_ends` has one location of two units, two options, since a
circle of waits needs two catalogue rows, one manual decrease
that can be taken back, one order whose status staff write, and no clock.

*Bounds of the lifecycle.* Two representatives and a manager, `MaxPending = 2`
requests at once that have read and not written: every property is about two who
meet. Staff's free statuses and stages are those that get behind the others
(`MCStatuses`, `MCStages`); the stage `cancelled` is only in `lifecycle_paid`,
where the property fails. Representatives are symmetric.

*Bounds of the courier.* `uber`: two workers, `MaxPosts = 2` so that a second
courier could be bought, one process that dies, and four of the statuses: one
from which a courier can still be sent away, one from which it cannot, and two
ends. `uber_found`: one worker, and a delivery made by hand with the order's
reference. The deliveries become too many for a look-up at any moment, or never.

*Bounds of the credit.* Two orders, of which one has tax, a grant of 3 that pays
one of them whole and the other in part, and one that takes credit back; two
keys, two attempts, whose ids begin where the orders' end so that they meet.
Staff end and reopen one of the orders by hand (`Edited`), the other meets it.
`BookingsBound`: five entries of the ledger with a key, of seven or more: a grant,
both orders' credit, and two entries more that add to it or release it.

*Bounds of the returns.* Two lines, one of two units at 3 cents with 1 of tax,
one of 2 cents, 6 in all: halves round, every split between two tenders (`credit`
from 0 to 6) leaves remainders, and ties occur. Three keys: two returns that are
through and one under way. Two callers: a request and a webhook, or two requests.

*Bounds of the print queue.* Two requests and the worker: three dispatchers can
meet on one job. Two tries, one retry by staff, one copy nobody hears of, one
crash, and a crowd: any two of these four in one run (`TroublesBound`), in any
order; deletions, reroutes and failures come on top.

Deadlock is not checked in any run: an order that is paid, refunded, delivered
and printed may stop. That something which must end does not get stuck is what
`TransactionsEnd`, `CourierIsFound` and `Settles` say.

*What staff can undo.* `NoOverage` is the assertion of the kernel
(`assertInventoryInvariants`), checked at every moment and without manual
movements. With one it fails: the movement is posted outside the kernel and
refuses only a negative balance, so it can commit less on hand than is on hold,
and every inventory transaction of the tenant is refused until the holds end.
What survives it is `NeverOversells`. Cash orders are consumed at closeout
(`routes/orders.ts:1294`), not when they are created as
`docs/inventory-write-path-map.md` has it; the model follows the code.

*Why these properties are not by construction.* `CheckoutIsHeld` and `NoOverage`
depend on `now()` being the transaction's start (a late transaction still sees
holds that have expired meanwhile), on the sweep sparing unresolved attempts, on
the hold being kept through a failed settlement, and on the kernel's lock;
`HeldForACause` on every path that ends an order or a checkout; `SoldAsOrdered`
on retries meeting rows of earlier tries; `ClaimIsKept` on the `WHERE` of a claim
naming what was read; `OneCreate` on no state leading back to one from which a
courier is bought; `NeverOverdrawn` on each of a dozen callers giving back what
it holds and no more; `StaysFinishable` on no return starting while another has
a refund at PayPal; `CopiesHaveCauses` on a claim being lost by all but one.

*Fairness.* The checkout, refund, credit, lifecycle and return modules state
safety only. The code starts no timer or worker that would finish a checkout or
a refund: reconciliation, expiry, retries and webhooks all wait for somebody
outside, so no fairness is assumed and no liveness claimed there.

* `Reservations` (`TransactionsEnd`): strong fairness for the steps of each
  transaction: PostgreSQL grants locks in the order they are asked for and aborts
  one transaction of a circle, and a call to PayPal ends after 15 seconds
  (`payments/paypal.ts:32`). Nothing is assumed of transactions that have not
  begun.
* `UberFulfillment` (`CourierIsFound`): weak fairness for a request that has
  begun, whose calls have timeouts, and for Uber's list; strong fairness for an
  operator's reconciliations (`routes/orders.ts:2505` is the only way; no worker
  does it) and for their look-up being answered. That a look-up is ever complete
  is not assumed: it is not once the tenant's deliveries outgrow five pages, and
  the property names that. The promise is one to an operator who keeps asking,
  and says so.
* `PrintQueue` (`Settles`): weak fairness for a dispatch that has begun, every
  wait in it having a timeout, and for the worker, whose ticks follow each other
  (`lib/printService.ts:898`), while it reads all that wait; strong fairness for the
  sweep, which is the beginning of every tick. Of a tick that reads ten of more
  nothing is assumed (884): the rows of deleted printers wait forever, and ten of
  them may be what it reads each time. `Settles` is about the rest.

## 4. Proofs

`PayPalCheckout_proofs`, for every value of the constants:

* `TypeCorrect`: every variable keeps its type. Its content is that the
  customer's reserve never goes below zero (`SpendKeyType`), and that each
  in-flight call refers to an existing attempt.
* `SettlementHolds`: the inductive invariant `SettlementInv`.
* `PaidStaysBacked`, `NothingSoldUnpaid`: `PaidIsBacked` and `SoldOnlyIfPaid`.
* `CapturedIsFinal`: the action property `CapturedNeverReopens`.

`PaidIsBacked` and `SoldOnlyIfPaid` are not inductive by themselves: a
cancellation could release the stock of a paid order if it had started while
the order was paid, and `reconcile` could reopen a captured attempt on an old
answer. `SettlementInv` adds what rules this out: calls that undo a checkout
run only while the order is unpaid, because they hold its lock; a captured row
means a paid order and money taken; and the answer `reconcile` holds is not one
that a captured row has left behind. The proof groups the steps by shape: those
that leave payment alone (`KeepSettlement`), those that end a call on an unpaid
order (`EndUnpaid`) and those that pay (`PayOrder`). All this is of `Spec`,
whatever a clean-up overwrites.

Of `IntactSpec`, as the run, and false of `Spec` (section 6):

* `ChargeHolds`: the inductive invariant `ChargeInv`. `OneAttemptAtATime` and
  `ChargesAreKnown` are `OneUnresolvedAttempt` and `ChargeNeverForgotten`. They
  relate PayPal's side to rows: only the latest attempt is unresolved or
  captured, and a charge that PayPal was asked for, holds pending or has ended
  belongs to such an attempt (`SidesInv`). What makes it inductive is in
  the two other parts: a capture event tells of a charge that has ended and
  does not change any more (`EventsInv`), and the call under the lock works on the
  attempt it believes to work on, with an answer of PayPal's that is not out of
  date where it matters (`TxInv`: who looked and saw no approval holds the lock
  without which no capture is asked for).
* `CheckoutKeepsPromise`: the refinement `KeepsPromise`, for any number of
  attempts. Every step adds no charge, or one completed charge (`TakenByPayPal`),
  and pays the order only with a charge that is there (`PromisedHolds`).

`RefundIntents_proofs`, for any finite set of keys, any callers, any number of
webhooks and any captured amount. `TypeCorrect` is unconditional; the others
assume `Exact` (PayPal reports the amount it was asked for; the constant that
run `refunds_misreport` turns off):

* `IdentitiesMatch`, `FinalizedBacked`, `FailedFinal` follow from the inductive
  invariant `Wiring`: what rows, requests, events and handlers claim of a
  refund is what PayPal says of it. Its delicate part is `HooksTrue`: a webhook
  is matched by amount and may pick another intent of the same amount, but only
  if its own intent already has PayPal's identity, so that the unique index
  makes the misdirected write fail.
* `WithinCapture`, `RefundBacked`, `BooksCorrect` and the action property
  `NeverPaidAgain` follow from `MoneyInv` and `BooksInv` on top of it. The sum
  of reserving rows is *not* an invariant: a failed intent that is sent again
  counts again (`Catch` revives it) when its amount has been given away. What
  is inductive is the sum of the intents that PayPal has not failed, which
  never exceeds the reserving sum that `Prepare` compares with. `Finalize` sums
  up under the lock, so `BooksInv` survives it; any other step that changes a
  row leaves some paid-back intent unfinalized, and the promise is vacuous
  until it is finalized again.
* The `Worth` lemmas are the arithmetic of sums: monotone in the set, equal for
  equal amounts, and one amount more for one intent more.
* `FinalizedExact` (`FinalizedIsExact`) does not assume `Exact`. Its invariant
  `Amounts` says that a row has the identity of a refund only with the amount
  PayPal reported for that one: a request compares before it writes, a webhook
  picks its row by the amount.

`OrderLifecycle_proofs`, for any representatives, any statuses and stages staff
may write and any number of stale requests: `TypeCorrect`, `OneOwner`,
`CompletedOnlyWhenDue`, `TakenOnce`, from one inductive invariant
(`Invariance`). What it adds is what a stale request may still rely on: a
reading for an acceptance is only written if assignee and shift are still those
it read, a completion is judged again by the order as it is. `PaidStays` is
`PaidNeverCancelled` under two assumptions that `lifecycle_paid` shows to be
needed: staff patch no order to a closed status and set no stage `cancelled`.

`UberFulfillment_proofs`, for any number of workers, deliveries, posts and
crashes: `TypeCorrect`, `AskedOnce`, `TrueOfCourier` and the action property
`CourierStays`, from one inductive invariant (`Invariance`): a row in one of the
open states has asked for nothing, and whatever a request holds as Uber's answer
was true of that delivery once. `EndReachesOrder` (`EndIsFlagged`) adds `EndInv`:
whoever wrote that a courier has ended badly flags the order next, unless it was
unpaid or the row was filled by a look-up, which looks at no status; and a courier
of the order's own is bought for a paid order only (`PaidFirst`), so that nothing
but a refund can make it unpaid again.

`CustomerCredit_proofs`, for any orders, amounts, keys and attempts.
`TypeCorrect`, of `Spec`: the reserve stays between zero and the balance, whatever
the callers do. Of `OrderlySpec` the invariant `CreditInv`
(`CreditHolds`) gives `EachItsOwn` (`NeverOverdrawn`), `StrandedKnown`
(`NothingStranded`) and `ConsumedOnce` (`SpentOnce`). What an order holds beyond the
credit applied to it while it is unpaid is never negative, and positive only for
a reason that stays one (`StrandedInv`, `SkipInv`); what the account reserves is the sum over all orders
(`SumInv`), so that a caller that releases its own share finds it there. The
ledger's keys enter in `ReleasedInv` and `IdsInv`: a release under a used key
does nothing, and this is right because the order has nothing applied any more,
and no attempt meets a key that was used before it had its id.

`Returns_proofs` is about the arithmetic, for every amount, split and quantity:
`SharesAddUp`, `SharesWithinPaid`, `SharesAreMonotone` (what a comment of
`lib/refundAccounting.ts` relies on: when more is given back no tender's share
shrinks), `ExactIsDivisible` (after exact returns the 409 for conflicting
allocations cannot happen), `ReturnStaysExact`, and for lines `AllUnitsAreTheLine`,
`UnitsNeverLoseValue`, `PiecesAddUp`. They rest on facts of division by a
positive total that are proved first.

On this arithmetic rests the invariant `ReturnsInv` (`ReturnsHold`) of every
reachable state, for any lines, quantities, keys and callers, and from it
`TypeCorrect`, `EachTenderExact` (`SharesAreExact`), `MoneyIsGoods`
(`MoneyMatchesGoods`) and `CanBeFinished` (`StaysFinishable`). `SharesAreExact` alone is not
inductive: a return in progress has given the credit but not the PayPal part, or
has a refund booked before it is completed, or loses the booking to a late
request. `ExternalInv` states the balance through all of that, by comparing
the refunds of completed returns with those that are booked; `WaitingInv` says
of the one return that is under way (`OneWaits`) that its lines are still there and
that its part for PayPal is what is due, which is why nothing else may begin
meanwhile.

`PrintQueue_proofs`, for any number of requests, retries and restarts:
`JobsKeepTheirType` and `EveryCopyHasACause`. `CopiesHaveCauses` is not inductive,
since it counts only what has come out. `Budget` counts also what may still
come out: jobs that nobody has queued, rows that wait, and dispatchers that hold
the permission to send, each of which is one copy at most; a claim turns a
waiting row into such a permission, and only staff or an unheard copy makes
room for another. `WaitersHaveTries` keeps a waiting row from being counted past
its limit. `NeverSilent` (`NeverDropped`) follows from `DropInv`: a row that has
failed has a reason, one that was rerouted has its successor, and a dispatcher
that is about to write either is about to write the truth.

`Reservations_proofs`, for any finite sets of orders and locations, any
quantities, stock, location order and number of manual movements; of the
location order it assumes that it names every location once
(`lib/inventoryReservations.ts:13`). `TypeCorrect`, `EveryHoldHasACause`
(`HeldForACause`, with bare status writes among the steps), `SalesAreExact`
(`SoldAsOrdered`), `CheckoutsAreHeld` (`CheckoutIsHeld`) and `StockIsNeverOversold` (`NeverOversells`) follow from one
inductive invariant, `StockedInv` (`StockedHolds`):

* Of what is committed: an order's hold is whole or not there and expires as a
  whole (`Whole`), so that a sweep can never leave half of it; a buyer at PayPal
  has one (`RowInv`); nobody works on a paid order (`OrderInv`); and a balance is
  the stock at first, plus manual movements, less the sales posted there, with
  holds and sales together within that stock (`StockInv`).
* Of the transaction in the kernel, of which there is one (`HolderInv`): what
  it has written and not committed leaves the rows of other orders alone, or
  gives them back for a reason, and fits in the stock (`RowsOf`); its own rows are on
  hold until it posts them, and when it commits it has posted all of them (`OwnInv`,
  for the archive `ArchivesInv`). It is right to keep the rows it began with
  only because nobody else writes any until it commits.

Two arguments carry the proof. The loop that spreads an order over locations
takes what is left, balance by balance; that it takes no more than there is
and in the end all that was ordered is shown without induction, from the least
pass at which it would not (`Least`, `LeftFacts`, `TakenTotal`). And the check
that refuses an order compares with *active* holds, while the invariant counts
*all* holds: what has expired is swept in the same transaction before anything is
taken, so that the two agree where it matters.

`NothingIsOverdrawn` (`NoOverage`) assumes `MaxDecreases = 0`, as run `stock`
does: staff may take away stock that is on hold, and no code forbids it
(`What staff can undo` in section 3). `NeverOversells` is the part that holds
whatever staff do, and is proved without the assumption.

*Only model-checked.* Liveness (`TransactionsEnd`,
`CourierIsFound`, `Settles`) is out of the proof system's reach: it has no rules for
fairness, which is a statement about ENABLED.

## 5. Not modelled

* Routing and the shift queue, clock-out totals, cash banks and close-out
  reports (`routes/shifts.ts` from 1635): sums over a shift's orders.
* Order creation, cart and tax quotes: pricing and validation. What an order
  does to stock, credit and its courier row when it is created is in the modules
  of those.
* Reading and writing single rows (catalogue, import, settings, users, feedback,
  reports, AI, WooCommerce), authentication and roles, the web client,
  deployment, generated clients: no protocol state.

`PROJECT.json` (`components`) says so of each. The web client, generated code
and row-at-a-time routes are most of the repository's lines.

## 6. What does not hold and is therefore not claimed

These turned up while modelling. Only the one that `lifecycle_paid` shows is a
run; the others are exceptions in a property, a specification without the step,
or a statement that is left out.

* `reconcile` marks a split-tender order paid without consuming its credit
  (`payments/service.ts:361`; capture does at 178). `NothingStranded` and `SpentOnce`
  except the method `"verified"`.
* The clean-up after a decline compares nothing and takes no lock
  (`routes/paypal-payments.ts:83`): overtaken by a reconciliation and a second
  capture, it fails an attempt that was charged, and it can release credit that
  a cancellation has released or a closeout consumed. What is claimed of charges
  is claimed of `IntactSpec`, and of credit of `OrderlySpec`, without these sequences.
* A refund whose reported amount differs is recorded and the record rolled back
  by the throw in the same transaction (`payments/service.ts:281`), although the
  comment at 276 calls it durable.
* A slower request under the same key takes a refund out of `locally_finalized`
  (`payments/service.ts:333`, and 278). For a return's refund this blocks further
  returns and can finish the refund a second time, as a refund of the order (316).
* Orders of two options of one item can wait for each other in a circle
  (`lib/orderCatalogEligibility.ts:23`), which the lock order was meant to avoid;
  PostgreSQL aborts one, possibly a capture after its charge.
* A checkout that the stale archive overtakes puts stock on hold for the
  archived order (`routes/orders.ts:2815`).
* Staff's cancellation of a partially refunded order releases credit its payment
  had consumed (`routes/orders.ts:2754`; not in `OrderlySpec`).
* The fulfilment route and `PATCH /orders/:id` end an order without giving back its
  stock or its credit (`routes/orders.ts:3073`, 2856), and the stale archive without its
  credit (2817). The stock is on hold until it expires, the credit stays in reserve.
  `apply-credit` reserves credit for an order that has ended. `HeldForACause` and
  `NothingStranded` name these orders.
* Two cancellations can share a ledger key, by an order's id and by an attempt's;
  the second gives back nothing (`routes/orders.ts:2760`). `NothingStranded` names it.
* Reassigning and mark-ready reopen closed orders (`lib/orderRouting.ts:360`,
  `routes/orders.ts:2257`).
* A cancellation's answer puts a courier's status back (`lib/uberFulfillment.ts:242`),
  and a process that dies between two statements leaves a failed courier
  unflagged (183, 244), or a request that nobody takes up again (99). A courier
  that is over when reconcile finds it is taken as under way and its order never
  flagged (204). `EndIsFlagged` names both ways.
* A tenant with more than five hundred deliveries finds none by reconciling
  (`lib/uberFulfillment.ts:191-203`); `CourierIsFound` ends there.
* Ten waiting rows whose printer was deleted keep all other jobs from being retried
  (`lib/printService.ts:884-887`); `Settles` ends there.
* The 409 of a return for a closed shift commits what the transaction has done
  (`routes/returns.ts:348`).
* A bridge that prints and answers late prints twice (`lib/printService.ts:293`).

## 7. Plan

1. Done: `PayPalCheckout`, `RefundIntents`, `Reservations`, `OrderLifecycle`,
   `UberFulfillment`, `CustomerCredit`, `Returns`, `PrintQueue`; every safety
   invariant and action property that a passing run checks is a theorem.
2. Compositions: the second checkout of a partially refunded order; lifecycle
   and stock, whose stale archive meets both.
3. `ShiftQueue`: routing, shift hand-over and the cash of a shift.
