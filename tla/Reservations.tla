------------------------------ MODULE Reservations ------------------------------
(***************************************************************************)
(* One stocked item, sold as several catalogue options, under competing    *)
(* orders: lib/inventoryReservations.ts inside lib/inventoryKernel.ts,     *)
(* with its callers in payments/ and routes/orders.ts, and the movements   *)
(* posted outside the kernel.                                              *)
(*                                                                         *)
(* tx[w] is the database transaction of worker w: the one that works for   *)
(* an order (the order's advisory lock admits one at a time), or that of   *)
(* the archive of stale orders, which takes no such lock.  A transaction   *)
(* stops only where it may have to wait: for a lock or for PayPal.         *)
(*                                                                         *)
(* Inventory work starts with an ALTER TABLE on the kernel's log, which    *)
(* PostgreSQL grants to one transaction at a time and until that one ends. *)
(* kernel is that lock with what its holder has written but not committed. *)
(***************************************************************************)
EXTENDS Integers, FiniteSets, Sequences, SequencesExt, FiniteSetsExt

CONSTANTS
    Orders,         \* orders of one line each
    Archiver,       \* the worker that archives stale orders
    Option,         \* the catalogue option each order buys
    Source,         \* the option whose catalogue row the stock is kept under
    Locations,      \* the locations that stock the item
    Ordered,        \* the quantity each order wants
    LocationOrder,  \* ORDER_LOCATION_POLICY of each order's type, a sequence
    OneLocation,    \* the orders whose line is evaluated PER_LOCATION
    Online,         \* the orders paid through PayPal; the others at the desk
    Stock,          \* what each location holds at first
    Ttl,            \* the life of a reservation
    Horizon,        \* bound: the last moment of the clock
    Edited,         \* bound: the orders whose status staff write by hand
    MaxDecreases    \* bound: manual decreases of a balance

ASSUME ReservationsAssumption ==
    /\ IsFiniteSet(Orders) /\ IsFiniteSet(Locations) /\ Archiver \notin Orders
    /\ Ordered \in [Orders -> Nat \ {0}]
    /\ LocationOrder \in [Orders -> Seq(Locations)]
    /\ \A o \in Orders : {LocationOrder[o][n] : n \in 1 .. Len(LocationOrder[o])} = Locations
    /\ \A o \in Orders : \A i, j \in 1 .. Len(LocationOrder[o]) :
         LocationOrder[o][i] = LocationOrder[o][j] => i = j
    /\ OneLocation \subseteq Orders /\ Online \subseteq Orders /\ Edited \subseteq Orders
    /\ Stock \in [Locations -> Nat]
    /\ Ttl \in Nat \ {0} /\ Horizon \in Nat /\ MaxDecreases \in Nat

VARIABLES
    clock,    \* the database's time
    order,    \* each order's status, as far as stock depends on it
    attempt,  \* the state of each order's payment attempts, see below
    row,      \* inventory_reservations: one row per order and location
    onHand,   \* inventory_balances.quantity_on_hand
    sold,     \* the sale movements posted per order and location
    moved,    \* what manual movements have added to each balance
    tx,       \* the transaction of each worker
    kernel    \* the transaction that does inventory work

vars == <<clock, order, attempt, row, onHand, sold, moved, tx, kernel>>

Workers == Orders \cup {Archiver}
Keys == Orders \X Locations
\* "dropped" is an end that a bare status write gave the order, see EditStatus;
\* one that is "cancelled" has given back its stock.
OrderStates == {"absent", "open", "paid", "cancelled", "dropped"}
\* The latest attempt.  "created" stands for approved too and "review" for
\* reconciliation_required; "revived" is one or the other, of an attempt that
\* had failed and given its hold back: a webhook or reconcile reopened it.
AttemptStates == {"none", "created", "review", "revived", "failed", "captured"}
Unresolved == {"created", "review", "revived"}
Rows == [st : {"none", "reserved", "confirmed", "released"}, qty : Nat, exp : Nat]
NoRow == [st |-> "none", qty |-> 0, exp |-> 0]

Settling == {"capture", "reconcile", "credit", "closeout"}
Releasing == {"decline", "cancel", "abandon", "void"}
Jobs == {"create", "checkout"} \cup Settling \cup Releasing
Steps == {"share", "row", "options", "provider", "kernel", "reserve", "confirm",
          "sync", "release", "archive"}
NoTx == [job |-> "none", step |-> "idle", now |-> 0, todo |-> <<>>]

\* by: the holder, if any.  locked: the balances it has locked.  posted: where
\* it has posted a sale.  done: the orders it has archived.
Idle == [by |-> {}, rows |-> [k \in Keys |-> NoRow], locked |-> {}, posted |-> {},
         done |-> {}]

-----------------------------------------------------------------------------
(* Reservations.                                                           *)
\* A sum, counted unit by unit.
Units(f, S) == UNION {{k} \X (1 .. f[k]) : k \in S}
Total(f, S) == Cardinality(Units(f, S))
Quantities(R) == [k \in Keys |-> R[k].qty]
Of(o) == {o} \X Locations

Protected(o) == attempt[o] \in Unresolved
Active_IgnoresCheckouts(k, R, now) == R[k].st = "reserved" /\ R[k].exp > now
Active(k, R, now) == R[k].st = "reserved" /\ (R[k].exp > now \/ Protected(k[1]))
ActiveIn(S, R, now) == Total(Quantities(R), {k \in S : Active(k, R, now)})

\* assertInventoryInvariants: no location has more on hold than on hand.
Sound(R, B, now) == \A l \in Locations : ActiveIn(Orders \X {l}, R, now) <= B[l]

With(R, S, new) == [k \in Keys |-> IF k \in S THEN new[k] ELSE R[k]]
Release(R, S) == With(R, S, [k \in S |-> [R[k] EXCEPT !.st = "released"]])

\* releaseExpiredInventoryReservations.
Expired_Unprotected(R, now) == {k \in Keys : R[k].st = "reserved" /\ R[k].exp <= now}
Expired(R, now) ==
    {k \in Keys : R[k].st = "reserved" /\ R[k].exp <= now /\ ~Protected(k[1])}
Sweep(R, now) == Release(R, Expired(R, now))

\* releaseInventoryReservationsForOrder leaves what a sale has consumed.
Releasable_FirstLocation(o, R) ==
    {k \in Of(o) : k[2] = LocationOrder[o][1] /\ R[k].st \in {"reserved", "confirmed"}}
Releasable(o, R) ==
    {k \in Of(o) : R[k].st \in {"reserved", "confirmed"} /\ sold[k] = 0}

\* What the transaction of o finds when it comes to reserve, and whether what
\* the order has already is enough: then it is kept, expiry included.
Swept(o) == Sweep(kernel.rows, tx[o].now)
Enough(o) ==
    \/ \E k \in Of(o) : Swept(o)[k].st = "confirmed"
    \/ ActiveIn(Of(o), Swept(o), tx[o].now) >= Ordered[o]

\* What the loop over the locked balances takes from one of them.
Free(o, l) == onHand[l] - ActiveIn(Orders \X {l}, Swept(o), tx[o].now)
TakenFrom(o, l, wanted) ==
    IF Free(o, l) <= 0 \/ (o \in OneLocation /\ Free(o, l) < wanted) THEN 0
    ELSE Min({wanted, Free(o, l)})

\* The quantity still wanted after each location.
Left(o) ==
    LET left[n \in 0 .. Len(LocationOrder[o])] ==
          IF n = 0 THEN Ordered[o]
          ELSE left[n - 1] - TakenFrom(o, LocationOrder[o][n], left[n - 1])
    IN left
Short_Never(o) == FALSE
Short(o) == Left(o)[Len(LocationOrder[o])] > 0

Taking(o) ==
    IF Enough(o) THEN {}
    ELSE {n \in 1 .. Len(LocationOrder[o]) : Left(o)[n] < Left(o)[n - 1]}
TakenKeys(o) == {<<o, LocationOrder[o][n]>> : n \in Taking(o)}
TakenRow(o, k) ==
    LET n == CHOOSE i \in Taking(o) : LocationOrder[o][i] = k[2]
    IN [st |-> "reserved", qty |-> Left(o)[n - 1] - Left(o)[n], exp |-> clock + Ttl]
Conflict(o) == \E k \in TakenKeys(o) : Swept(o)[k].st \in {"reserved", "confirmed"}

-----------------------------------------------------------------------------
(* Locks.                                                                  *)

\* requireOrderCatalogForSale locks the order's catalogue rows FOR UPDATE; the
\* insert of an order line takes a key-share lock of its row.
Buying == {"checkout", "capture", "decline", "credit", "closeout"}
HasOption(w) == tx[w].job \in Buying /\ tx[w].step \notin {"row", "options"}
SharesOption(w) == tx[w].job = "create" /\ tx[w].step # "share"
HasRow(w, o) ==
    \/ w = o /\ tx[w].job = "closeout" /\ tx[w].step # "row"
    \/ w = o /\ tx[w].step \in {"confirm", "sync"}
    \/ w = o /\ tx[w].job = "checkout" /\ tx[w].step = "provider"
    \/ w = Archiver /\ o \in kernel.done
Buyers(o, S) == {v \in Orders \ {o} : HasOption(v) /\ Option[v] \in S}

\* A new reservation row takes a key-share lock of the stock's catalogue row.
Inserts(o) == \E k \in TakenKeys(o) : Swept(o)[k].st = "none"

\* The workers whose end w waits for.  After a sale or a new order the rows of
\* all options of the item are updated.
Waits(w) ==
    CASE tx[w].step = "share" -> Buyers(w, {Option[w]})
      [] tx[w].step = "row" -> {v \in Workers \ {w} : HasRow(v, w)}
      [] tx[w].step = "options" ->
           Buyers(w, {Option[w]})
             \cup {v \in Orders \ {w} : SharesOption(v) /\ Option[v] = Option[w]}
      [] tx[w].step = "kernel" -> kernel.by
      [] tx[w].step = "reserve" /\ Inserts(w) -> Buyers(w, {Source})
      [] tx[w].step = "sync" -> Buyers(w, {Option[o] : o \in Orders})
      [] tx[w].step = "archive" /\ tx[w].todo # <<>> ->
           {v \in Workers \ {w} : HasRow(v, Head(tx[w].todo))}
      [] OTHER -> {}

\* PostgreSQL aborts a transaction that waits in a circle (external).
InCircle(w) ==
    LET behind[n \in 0 .. Cardinality(Workers)] ==
          IF n = 0 THEN Waits(w)
          ELSE behind[n - 1] \cup UNION {Waits(v) : v \in behind[n - 1]}
    IN w \in behind[Cardinality(Workers)]

-----------------------------------------------------------------------------
(* Transactions.                                                           *)
Data == <<clock, order, attempt, row, onHand, sold, moved>>
At(w, step) == tx[w].step = step /\ Waits(w) = {}
Goto(w, step) == tx' = [tx EXCEPT ![w].step = step]
Leave(w) ==
    /\ tx' = [tx EXCEPT ![w] = NoTx]
    /\ kernel' = IF w \in kernel.by THEN Idle ELSE kernel

\* A rollback.  A capture settles in a savepoint of its transaction: what is
\* undone is the sale, and the attempt goes to review.
Review(o) == IF attempt[o] = "revived" THEN "revived" ELSE "review"
Charged(w) == tx[w].job = "capture" /\ tx[w].step \notin {"options", "provider"}
Abort_KeepsLock(w) ==
    /\ tx' = [tx EXCEPT ![w] = NoTx]
    /\ attempt' = [o \in Orders |-> IF o = w /\ Charged(w) THEN Review(o) ELSE attempt[o]]
    /\ UNCHANGED <<clock, order, row, onHand, sold, moved, kernel>>
Abort(w) ==
    /\ Leave(w)
    /\ attempt' = [o \in Orders |-> IF o = w /\ Charged(w) THEN Review(o) ELSE attempt[o]]
    /\ UNCHANGED <<clock, order, row, onHand, sold, moved>>

\* The guards of the handlers, on committed data.
May(o, job) ==
    CASE job = "create"    -> order[o] = "absent"
      [] job = "checkout"  -> /\ o \in Online /\ order[o] = "open"
                              /\ attempt[o] \in {"none", "failed"}
      [] job = "capture"   -> order[o] = "open" /\ attempt[o] \in {"created", "revived"}
      [] job = "reconcile" -> order[o] # "paid" /\ (Protected(o) \/ attempt[o] = "failed")
      [] job = "credit"    -> order[o] \notin {"absent", "paid"} /\ attempt[o] = "none"
      [] job = "closeout"  -> o \notin Online /\ order[o] = "open"
      [] job = "cancel"    -> order[o] \notin {"absent", "paid"}
      [] job = "abandon"   -> order[o] # "paid" /\ attempt[o] \in {"created", "revived"}
      [] job = "void"      -> order[o] # "paid" /\ Protected(o)
      [] OTHER             -> FALSE

First(job) ==
    CASE job = "create" -> "share"
      [] job = "closeout" -> "row"
      [] job \in {"checkout", "capture", "credit"} -> "options"
      [] OTHER -> "kernel"

Begin(o, job) ==
    /\ tx[o] = NoTx
    /\ May(o, job)
    /\ tx' = [tx EXCEPT ![o] = [job |-> job, step |-> First(job), now |-> clock,
                                todo |-> <<>>]]
    /\ UNCHANGED <<Data, kernel>>

BeginArchive ==
    LET stale == {o \in Orders : order[o] = "open"}
    IN /\ tx[Archiver] = NoTx /\ stale # {}
       /\ \E s \in SetToSeqs(stale) :
            tx' = [tx EXCEPT ![Archiver] = [job |-> "archive", step |-> "kernel",
                                            now |-> clock, todo |-> s]]
       /\ UNCHANGED <<Data, kernel>>

LockRows(o) ==
    /\ \E step \in {"share", "row", "options"} : At(o, step)
    /\ tx[o].step = "row" => order[o] = "open"
    /\ Goto(o, CASE tx[o].step = "row" -> "options"
                 [] tx[o].job = "capture" -> "provider"
                 [] OTHER -> "kernel")
    /\ UNCHANGED <<Data, kernel>>

\* The closeout reads the order with its lock: it may have been archived.
CloseoutRefused(o) == At(o, "row") /\ order[o] # "open" /\ Abort(o)

EnterKernel(w) ==
    /\ At(w, "kernel")
    /\ kernel' = [Idle EXCEPT !.by = {w}, !.rows = row]
    /\ Goto(w, CASE w = Archiver -> "archive"
                 [] tx[w].job \in Releasing -> "release"
                 [] OTHER -> "reserve")
    /\ UNCHANGED Data

\* ensurePaidOrderInventoryReserved: PayPal is called with the stock reserved
\* and all locks held.
Reserve(o) ==
    /\ At(o, "reserve")
    /\ LET rows == With(Swept(o), TakenKeys(o), [k \in TakenKeys(o) |-> TakenRow(o, k)])
       IN IF (~Enough(o) /\ (Short(o) \/ Conflict(o))) \/ ~Sound(rows, onHand, tx[o].now)
          THEN Abort(o)
          ELSE /\ kernel' = [kernel EXCEPT !.rows = rows,
                               !.locked = IF Enough(o) THEN {} ELSE Locations]
               /\ Goto(o, CASE tx[o].job = "checkout" -> "provider"
                            [] tx[o].job = "create" -> "sync"
                            [] OTHER -> "confirm")
               /\ UNCHANGED Data

\* confirmInventoryReservationsForOrder posts a sale for every active
\* reservation.  No transaction gets here with one confirmed already.
Due(o) == {l \in Locations : Active(<<o, l>>, Swept(o), tx[o].now)}
Posted_Overwrites(o, S) ==
    [l \in Locations |-> IF l \in S THEN Stock[l] - kernel.rows[<<o, l>>].qty ELSE onHand[l]]
Posted(o, S) ==
    [l \in Locations |-> IF l \in S THEN onHand[l] - kernel.rows[<<o, l>>].qty ELSE onHand[l]]
Confirm(o) ==
    /\ At(o, "confirm")
    /\ LET rows == With(Swept(o), {o} \X Due(o),
                        [k \in {o} \X Due(o) |-> [Swept(o)[k] EXCEPT !.st = "confirmed"]])
           left == Posted(o, Due(o))
       IN IF Due(o) = {} \/ (\E l \in Locations : left[l] < 0)
               \/ ~Sound(rows, left, tx[o].now)
          THEN Abort(o)
          ELSE /\ kernel' = [kernel EXCEPT !.rows = rows, !.posted = Due(o),
                               !.locked = @ \cup Due(o)]
               /\ Goto(o, "sync")
               /\ UNCHANGED Data

\* The end of an order's creation and of its settlement.
Finish(o) ==
    /\ At(o, "sync")
    /\ row' = kernel.rows
    /\ onHand' = Posted(o, kernel.posted)
    /\ sold' = [k \in Keys |-> IF k \in {o} \X kernel.posted
                               THEN sold[k] + kernel.rows[k].qty ELSE sold[k]]
    /\ order' = [order EXCEPT ![o] = IF tx[o].job = "create" THEN "open" ELSE "paid"]
    /\ attempt' = [attempt EXCEPT ![o] =
                     IF tx[o].job \in {"capture", "reconcile"} THEN "captured" ELSE @]
    /\ Leave(o)
    /\ UNCHANGED <<clock, moved>>

Commit(o, rows, state) ==
    /\ row' = rows
    /\ attempt' = [attempt EXCEPT ![o] = state]
    /\ Leave(o)
    /\ UNCHANGED <<clock, order, onHand, sold, moved>>

\* PayPal answers create, or does not.
CheckoutAnswered(o) ==
    /\ At(o, "provider") /\ tx[o].job = "checkout"
    /\ \/ \E state \in {"created", "review"} : Commit(o, kernel.rows, state)
       \/ LET rows == Release(kernel.rows, Releasable(o, kernel.rows))
          IN IF Sound(rows, onHand, tx[o].now) THEN Commit(o, rows, "failed") ELSE Abort(o)

\* PayPal answers capture, or does not.
CaptureAnswered(o) ==
    /\ At(o, "provider") /\ tx[o].job = "capture"
    /\ \/ \E job \in {"capture", "decline"} :
            /\ tx' = [tx EXCEPT ![o].job = job, ![o].step = "kernel"]
            /\ UNCHANGED <<Data, kernel>>
       \/ Commit(o, row, Review(o))

\* A decline, a cancellation by staff or buyer, an abandoned or voided checkout.
Unsafe(o) == order[o] = "paid" \/ Protected(o)
GiveBack(o) ==
    /\ At(o, "release")
    /\ LET rows == Release(kernel.rows, Releasable(o, kernel.rows))
           refused == IF tx[o].job = "cancel" THEN Unsafe(o) ELSE order[o] = "paid"
       IN IF refused \/ ~Sound(rows, onHand, tx[o].now)
          THEN Abort(o)
          ELSE /\ row' = rows
               /\ attempt' = [attempt EXCEPT ![o] = IF tx[o].job = "cancel" THEN @ ELSE "failed"]
               /\ order' = [order EXCEPT ![o] =
                              IF tx[o].job \in {"cancel", "abandon"} THEN "cancelled" ELSE @]
               /\ Leave(o)
               /\ UNCHANGED <<clock, onHand, sold, moved>>

\* The archive releases one candidate after the other and throws on one that
\* must not be released.
ArchiveNext ==
    /\ At(Archiver, "archive") /\ tx[Archiver].todo # <<>>
    /\ LET o == Head(tx[Archiver].todo)
           rows == Release(kernel.rows, Releasable(o, kernel.rows))
       IN IF Unsafe(o) \/ ~Sound(rows, onHand, tx[Archiver].now)
          THEN Abort(Archiver)
          ELSE /\ kernel' = [kernel EXCEPT !.rows = rows, !.done = @ \cup {o}]
               /\ tx' = [tx EXCEPT ![Archiver].todo = Tail(@)]
               /\ UNCHANGED Data

ArchiveCommits ==
    /\ At(Archiver, "archive") /\ tx[Archiver].todo = <<>>
    /\ row' = kernel.rows
    /\ order' = [o \in Orders |-> IF o \in kernel.done THEN "cancelled" ELSE order[o]]
    /\ Leave(Archiver)
    /\ UNCHANGED <<clock, attempt, onHand, sold, moved>>

DeadlockVictim(w) == InCircle(w) /\ Abort(w)

-----------------------------------------------------------------------------
(* What takes none of these locks, or all of it at once.                   *)

\* A capture webhook sends an attempt to review; it waits for a transaction
\* that has written the attempt's row, and then overwrites what that one made
\* of it, a capture included.
ChargeFound(o) ==
    /\ attempt[o] \in {"created", "failed", "captured"}
    /\ ~(tx[o].job \in {"capture", "decline"} /\ tx[o].step # "options")
    /\ attempt' = [attempt EXCEPT ![o] = IF @ = "failed" THEN "revived" ELSE "review"]
    /\ UNCHANGED <<clock, order, row, onHand, sold, moved, tx, kernel>>

\* reconcile finds PayPal's order still open, were the attempt a failed one, or
\* charged when the order is paid already.
Recheck(o) ==
    /\ tx[o] = NoTx /\ attempt[o] \in {"review", "failed"}
    /\ attempt' = [attempt EXCEPT ![o] = CASE order[o] = "paid" -> "captured"
                                         [] @ = "failed" -> "revived"
                                         [] OTHER -> "created"]
    /\ UNCHANGED <<clock, order, row, onHand, sold, moved, tx, kernel>>

\* POST /orders/:id/fulfillment and PATCH /orders/:id write an order's status and
\* nothing else, and wait for its row only: they end it and leave its stock on
\* hold, or set an ended one going again.
EditStatus(o) ==
    /\ o \in Edited /\ order[o] \notin {"absent", "paid"}
    /\ \A v \in Workers : ~HasRow(v, o)
    /\ order' = [order EXCEPT ![o] = IF @ = "open" THEN "dropped" ELSE "open"]
    /\ UNCHANGED <<clock, attempt, row, onHand, sold, moved, tx, kernel>>

\* reconcileInventoryState, run by an administrator.
ReconcileInventory ==
    /\ kernel.by = {} /\ Expired(row, clock) # {}
    /\ row' = Sweep(row, clock)
    /\ Sound(row', onHand, clock)
    /\ UNCHANGED <<clock, order, attempt, onHand, sold, moved, tx, kernel>>

\* POST /admin/inventory/movements: postInventoryMovement without the kernel.
Move(l, delta) ==
    /\ l \notin kernel.locked
    /\ onHand[l] + delta >= 0
    /\ moved[l] + delta \in -MaxDecreases .. 0
    /\ onHand' = [onHand EXCEPT ![l] = @ + delta]
    /\ moved' = [moved EXCEPT ![l] = @ + delta]
    /\ UNCHANGED <<clock, order, attempt, row, sold, tx, kernel>>

Tick ==
    /\ clock < Horizon
    /\ clock' = clock + 1
    /\ UNCHANGED <<order, attempt, row, onHand, sold, moved, tx, kernel>>

-----------------------------------------------------------------------------
Init ==
    /\ clock = 0
    /\ order = [o \in Orders |-> "absent"]
    /\ attempt = [o \in Orders |-> "none"]
    /\ row = [k \in Keys |-> NoRow]
    /\ onHand = Stock
    /\ sold = [k \in Keys |-> 0]
    /\ moved = [l \in Locations |-> 0]
    /\ tx = [w \in Workers |-> NoTx]
    /\ kernel = Idle

OrderStep(o) ==
    LockRows(o) \/ CloseoutRefused(o) \/ EnterKernel(o) \/ Reserve(o) \/ Confirm(o) \/ Finish(o)
        \/ CheckoutAnswered(o) \/ CaptureAnswered(o) \/ GiveBack(o) \/ DeadlockVictim(o)
ArchiverStep ==
    EnterKernel(Archiver) \/ ArchiveNext \/ ArchiveCommits \/ DeadlockVictim(Archiver)

Next ==
    \/ \E o \in Orders : \/ \E job \in Jobs : Begin(o, job)
                         \/ OrderStep(o) \/ ChargeFound(o) \/ Recheck(o)
                         \/ EditStatus(o)
    \/ BeginArchive \/ ArchiverStep
    \/ ReconcileInventory
    \/ \E l \in Locations, delta \in {-1, 1} : Move(l, delta)
    \/ Tick

Spec == Init /\ [][Next]_vars

\* PayPal answers or times out, and PostgreSQL queues those that wait for a lock.
Fairness == (\A o \in Orders : SF_vars(OrderStep(o))) /\ SF_vars(ArchiverStep)
FairSpec == Spec /\ Fairness

-----------------------------------------------------------------------------
(* Properties.                                                             *)

\* The types, and that a transaction is past the kernel's lock iff it has it.
TypeOK ==
    /\ clock \in 0 .. Horizon
    /\ order \in [Orders -> OrderStates]
    /\ attempt \in [Orders -> AttemptStates]
    /\ row \in [Keys -> Rows] /\ kernel.rows \in [Keys -> Rows]
    /\ onHand \in [Locations -> Nat]
    /\ sold \in [Keys -> Nat]
    /\ \A w \in Workers : /\ tx[w].job \in Jobs \cup {"none", "archive"}
                          /\ tx[w].step \in Steps \cup {"idle"}
    /\ kernel.by = {w \in Workers :
                      \/ tx[w].step \in {"reserve", "confirm", "sync", "release", "archive"}
                      \/ tx[w].step = "provider" /\ tx[w].job = "checkout"}
    /\ kernel.posted \subseteq kernel.locked /\ kernel.locked \subseteq Locations

\* A paid order has consumed exactly what was ordered, however many attempts
\* its payment took; an unpaid one nothing.
SoldAsOrdered ==
    \A o \in Orders : Total(sold, Of(o)) = IF order[o] = "paid" THEN Ordered[o] ELSE 0

\* While PayPal may still take the buyer's money, the whole order is on hold,
\* however long that lasts.
CheckoutIsHeld ==
    \A o \in Orders : attempt[o] \in {"created", "review"} /\ order[o] # "paid" =>
        ActiveIn(Of(o), row, clock) = Ordered[o]

\* Stock is on hold only for an open order, for a buyer whom PayPal may still
\* charge, or for an order that the fulfilment route or PATCH /orders/:id ended,
\* which give nothing back (routes/orders.ts:3073 and 2856; such a hold stays
\* until it expires).  Every other cancellation, the archive, and every decline,
\* abandonment and void gives back all of it, whatever they overtake.
HeldForACause ==
    \A k \in Keys : row[k].st = "reserved" =>
        order[k[1]] \in {"open", "dropped"} \/ Protected(k[1])

\* What buyers may still count on at a location: holds that have not expired
\* and, expired or not, those of checkouts that PayPal may still charge.
Promised(l) ==
    Total(Quantities(row), {k \in Orders \X {l} :
      row[k].st = "reserved" /\ (row[k].exp > clock \/ attempt[k[1]] \in Unresolved)})

\* assertInventoryInvariants, at any moment and not only where the kernel looks:
\* no more is promised than is on hand.
NoOverage == \A l \in Locations : Promised(l) <= onHand[l]

\* Whatever staff take away meanwhile, no interleaving of checkouts, settlements,
\* sweeps and webhooks sells and promises more of a location than it once had.
NeverOversells ==
    \A l \in Locations : Promised(l) + Total(sold, Orders \X {l}) <= Stock[l]

\* Every transaction ends, those that wait in a circle included.
TransactionsEnd == \A w \in Workers : tx[w] # NoTx ~> tx[w] = NoTx

=============================================================================
