--------------------------- MODULE PayPalCheckout ---------------------------
(***************************************************************************)
(* The external-tender life of one order: payments/service.ts (create,     *)
(* capture, cancelBuyerCheckout, reconcile, expireAbandonedCreated and the *)
(* order and capture webhooks), the decline clean-up of the capture route  *)
(* (routes/paypal-payments.ts) and the staff cancellation of               *)
(* routes/orders.ts.  Every service call is one database transaction that  *)
(* holds the advisory lock of the order while it talks to PayPal, so at    *)
(* most one is in flight (tx).  Webhooks and the decline clean-up take no  *)
(* such lock: they read, and later write, between the steps of a call.     *)
(*                                                                         *)
(* The variables hold committed data.  What a transaction has written but  *)
(* not committed ("creating", "capturing", a fresh reservation) lives in   *)
(* tx and is lost when the process dies.                                   *)
(***************************************************************************)
EXTENDS Naturals, FiniteSets

CONSTANTS
    MaxAttempts,     \* bound: serial ids of payment_attempts handed out
    OtherCredit,     \* units of credit the customer's other orders hold
    HoldMayLapse,    \* may the reservation's expires_at pass?
    Sandbox          \* is the provider environment "sandbox"?

ASSUME ConstantsAssumption ==
    /\ MaxAttempts \in Nat \ {0}
    /\ OtherCredit \in Nat
    /\ HoldMayLapse \in BOOLEAN
    /\ Sandbox \in BOOLEAN

VARIABLES
    attempts,   \* rows of payment_attempts with their payment_captures row
    lastId,     \* the last serial id handed out (rollbacks consume ids)
    order,      \* the order's payment_status, status and customer_credit_applied
    hold,       \* the order's inventory_reservations
    account,    \* the customer's reserved credit and the ledger keys written
    provider,   \* PayPal's side of each attempt (external)
    mail,       \* webhook events PayPal keeps delivering (external)
    tx,         \* the transaction that holds the order's advisory lock
    hooks,      \* webhook handlers between their read and their write
    cleanups    \* decline clean-ups of the capture route not yet finished

vars == <<attempts, lastId, order, hold, account, provider, mail, tx, hooks,
          cleanups>>

Attempts == 1 .. MaxAttempts

\* States a committed row can have; "absent": no row.
AttemptStates == {"absent", "created", "approved", "captured", "failed",
                  "cancelled", "reconciliation_required"}

\* The states that block a new attempt and keep the reservation.
Unresolved == {"created", "approved", "reconciliation_required"}

ProviderStates == {"none", "CREATED", "APPROVED", "PENDING", "COMPLETED",
                   "DENIED", "VOIDED"}

AttemptRows == [state : AttemptStates, po : BOOLEAN, net : BOOLEAN,
                captured : BOOLEAN]
OrderRows == [paid : BOOLEAN, status : {"submitted", "confirmed", "cancelled"},
              credit : BOOLEAN]
Holds == [state : {"reserved", "released", "confirmed"}, lapsed : BOOLEAN]
CreditKeys == [why : {"consume", "release:declined", "release:cancel",
                      "release:abandoned", "release:staff"},
               a : 0 .. MaxAttempts]
Accounts == [reserved : Nat, keys : SUBSET CreditKeys]
Sides == [status : ProviderStates, asked : BOOLEAN]
Events == [type : {"APPROVED", "CAPTURE"}, a : Attempts]
Handlers == [e : Events, seen : AttemptStates]
CleanupTasks == [a : Attempts, stage : {"due", "read"}, unpaid : BOOLEAN,
                 credit : BOOLEAN]

\* op: the call; a: its attempt; fresh: create took the reservation anew;
\* credit: the order's credit as read at the start; seen: PayPal's answer.
NoTx == [op |-> "none", a |-> 0, fresh |-> FALSE, credit |-> FALSE,
         seen |-> "none"]
Calling == [op : {"create", "capture", "cancel", "reconcile", "expire"},
            a : Attempts, fresh : BOOLEAN, credit : BOOLEAN,
            seen : ProviderStates \cup {"error"}]
Transactions == {NoTx} \cup Calling

-----------------------------------------------------------------------------
(* Shared pieces of the handlers.                                          *)

Row(a) == attempts[a].state
HasRow(a) == Row(a) # "absent"
Free == tx.op = "none"
Payable == ~order.paid /\ order.status # "cancelled"

AnyUnresolved(rows) == \E a \in Attempts : rows[a].state \in Unresolved
SetState(a, s) == [attempts EXCEPT ![a].state = s]
Lock(op, a) == [NoTx EXCEPT !.op = op, !.a = a, !.credit = order.credit]

\* A new attempt needs an open order and no attempt that may still take money.
MayStart_NoUnresolvedCheck == Payable
MayStart == Payable /\ ~AnyUnresolved(attempts)

\* What a looked-up order means: money taken, nothing to be had any more, or
\* else the state the attempt gets.
Settled_AnyCapture(s) == s \in {"COMPLETED", "PENDING"}
Settled(s) == s = "COMPLETED"
Dead(s) == s = "VOIDED"
LocalState_Verbatim(s) == s
LocalState(s) == CASE s = "APPROVED" -> "approved"
                   [] s = "CREATED"  -> "created"
                   [] OTHER -> "reconciliation_required"

\* A reservation counts while it has not expired or a payment is unresolved.
HoldActive == hold.state = "reserved" /\ (~hold.lapsed \/ AnyUnresolved(attempts))

\* releaseInventoryReservationsForOrder refuses with this guard false and
\* never touches a reservation whose sale movement is posted.
MayRelease(rows) == ~order.paid /\ ~AnyUnresolved(rows)
ReleasedHold ==
    IF hold.state = "reserved" THEN [hold EXCEPT !.state = "released"] ELSE hold

\* releaseCustomerCredit and consumeCustomerCredit: idempotent by ledger key,
\* checked against what the whole account holds in reserve.
KeyFits(key) == key \in account.keys \/ account.reserved > 0
SpendKey(key) ==
    IF key \in account.keys THEN account
    ELSE [reserved |-> account.reserved - 1, keys |-> account.keys \cup {key}]

Key(why, a) == [why |-> why, a |-> a]

\* The createdAt order of attempts is taken to be the order of their ids.
Latest(a) == HasRow(a) /\ \A b \in Attempts : b > a => ~HasRow(b)

-----------------------------------------------------------------------------
Init ==
    /\ attempts = [a \in Attempts |->
                     [state |-> "absent", po |-> FALSE, net |-> FALSE,
                      captured |-> FALSE]]
    /\ lastId = 0
    /\ \E c \in BOOLEAN :
         /\ order = [paid |-> FALSE, status |-> "submitted", credit |-> c]
         /\ account = [reserved |-> OtherCredit + (IF c THEN 1 ELSE 0),
                       keys |-> {}]
    /\ hold = [state |-> "reserved", lapsed |-> FALSE]
    /\ provider = [a \in Attempts |-> [status |-> "none", asked |-> FALSE]]
    /\ mail = {}
    /\ tx = NoTx
    /\ hooks = {}
    /\ cleanups = {}

-----------------------------------------------------------------------------
(* create: a used idempotency key only replays or refuses, so each action  *)
(* below stands for a call with a fresh key.                               *)

\* Under the lock: refuse a closed or paid order and any unresolved attempt,
\* then make sure the stock is reserved.  An active reservation is kept as it
\* is (its expiry is not extended); otherwise it is taken anew, which fails,
\* and rolls everything back, when the stock is gone.
BeginCreate ==
    /\ Free /\ MayStart /\ lastId < MaxAttempts
    /\ lastId' = lastId + 1
    /\ tx' = [Lock("create", lastId + 1) EXCEPT !.fresh = ~HoldActive]
    /\ UNCHANGED <<attempts, order, hold, account, provider, mail, hooks,
                   cleanups>>

\* The reservation that the commit of create leaves behind.
CommittedHold ==
    IF tx.fresh THEN [state |-> "reserved", lapsed |-> FALSE] ELSE hold

NewRow(state, po) ==
    [attempts EXCEPT ![tx.a] = [state |-> state, po |-> po, net |-> tx.credit,
                                captured |-> FALSE]]

\* PayPal answered with an order of the right amount.
CreateSucceeds ==
    /\ tx.op = "create"
    /\ attempts' = NewRow("created", TRUE)
    /\ provider' = [provider EXCEPT ![tx.a].status = "CREATED"]
    /\ hold' = CommittedHold
    /\ tx' = NoTx
    /\ UNCHANGED <<lastId, order, account, mail, hooks, cleanups>>

\* Timed out, or the amount differs: the row keeps no provider order id.
CreateUnclear ==
    /\ tx.op = "create"
    /\ attempts' = NewRow("reconciliation_required", FALSE)
    /\ hold' = CommittedHold
    /\ tx' = NoTx
    /\ UNCHANGED <<lastId, order, account, provider, mail, hooks, cleanups>>

\* Any other error counts as definite: the attempt fails, the stock is freed.
CreateFails ==
    /\ tx.op = "create"
    /\ attempts' = NewRow("failed", FALSE)
    /\ MayRelease(attempts')
    /\ hold' = IF CommittedHold.state = "reserved"
               THEN [CommittedHold EXCEPT !.state = "released"] ELSE hold
    /\ tx' = NoTx
    /\ UNCHANGED <<lastId, order, account, provider, mail, hooks, cleanups>>

-----------------------------------------------------------------------------
(* capture                                                                 *)

\* The guards of capture, the row set to "capturing" (uncommitted: it locks
\* the row) and the POST.  PayPal refuses a capture that arrives before the
\* buyer's approval; one that arrives later it may still be executing after
\* the answer was lost.
BeginCapture(a) ==
    /\ Free /\ Payable
    /\ attempts[a].po /\ Row(a) \in {"created", "approved"}
    /\ attempts[a].net = order.credit
    /\ tx' = Lock("capture", a)
    /\ provider' = [provider EXCEPT
                      ![a].asked = @ \/ provider[a].status = "APPROVED"]
    /\ UNCHANGED <<attempts, lastId, order, hold, account, mail, hooks, cleanups>>

\* COMPLETED: the capture row is stored and, in a savepoint, the stock is
\* deducted (reserved anew if it was lost), the credit consumed, the order
\* paid and confirmed, the attempt captured.
CaptureSettles ==
    /\ tx.op = "capture" /\ Settled(provider[tx.a].status)
    /\ tx.credit => KeyFits(Key("consume", tx.a))
    /\ attempts' = [attempts EXCEPT ![tx.a].state = "captured",
                                    ![tx.a].captured = TRUE]
    /\ hold' = [hold EXCEPT !.state = "confirmed"]
    /\ account' = IF tx.credit THEN SpendKey(Key("consume", tx.a)) ELSE account
    /\ order' = [order EXCEPT !.paid = TRUE, !.status = "confirmed"]
    /\ tx' = NoTx
    /\ UNCHANGED <<lastId, provider, mail, hooks, cleanups>>

CaptureUnsettled_Failed ==
    /\ tx.op = "capture" /\ Settled(provider[tx.a].status)
    /\ attempts' = SetState(tx.a, "failed")
    /\ tx' = NoTx
    /\ UNCHANGED <<lastId, order, hold, account, provider, mail, hooks, cleanups>>

\* COMPLETED, but the savepoint rolled back (stock gone, credit mismatch, a
\* kernel invariant): the capture row stays, the attempt needs reconciling.
CaptureUnsettled ==
    /\ tx.op = "capture" /\ Settled(provider[tx.a].status)
    /\ attempts' = [attempts EXCEPT ![tx.a].state = "reconciliation_required",
                                    ![tx.a].captured = TRUE]
    /\ tx' = NoTx
    /\ UNCHANGED <<lastId, order, hold, account, provider, mail, hooks, cleanups>>

\* HTTP 422: the attempt fails and the stock is freed in the transaction; the
\* credit is left to the route's clean-up, which runs after the commit.
CaptureDeclined ==
    /\ tx.op = "capture"
    /\ provider[tx.a].status \in {"CREATED", "APPROVED", "VOIDED"}
    /\ attempts' = SetState(tx.a, "failed")
    /\ MayRelease(attempts')
    /\ hold' = ReleasedHold
    /\ provider' = [provider EXCEPT ![tx.a].asked = FALSE]
    /\ cleanups' = cleanups \cup {[a |-> tx.a, stage |-> "due",
                                   unpaid |-> FALSE, credit |-> FALSE]}
    /\ tx' = NoTx
    /\ UNCHANGED <<lastId, order, account, mail, hooks>>

CaptureUnclear_AsFailed ==
    /\ tx.op = "capture"
    /\ attempts' = SetState(tx.a, "failed")
    /\ tx' = NoTx
    /\ UNCHANGED <<lastId, order, hold, account, provider, mail, hooks, cleanups>>

\* Any other error, or a capture that is not COMPLETED.
CaptureUnclear ==
    /\ tx.op = "capture"
    /\ attempts' = SetState(tx.a, "reconciliation_required")
    /\ tx' = NoTx
    /\ UNCHANGED <<lastId, order, hold, account, provider, mail, hooks, cleanups>>

-----------------------------------------------------------------------------
(* The calls that look PayPal's order up before they write.                *)

\* cancelBuyerCheckout: only a "created" attempt without a capture row.
BeginCancel(a) ==
    /\ Free /\ ~order.paid
    /\ attempts[a].po /\ Row(a) = "created" /\ ~attempts[a].captured
    /\ tx' = Lock("cancel", a)
    /\ UNCHANGED <<attempts, lastId, order, hold, account, provider, mail, hooks,
                   cleanups>>

\* reconcile: the order's latest attempt, whatever its state and the order's.
BeginReconcile(a) ==
    /\ Free /\ Latest(a) /\ attempts[a].po
    /\ tx' = Lock("reconcile", a)
    /\ UNCHANGED <<attempts, lastId, order, hold, account, provider, mail, hooks,
                   cleanups>>

\* expireAbandonedCreated: sandbox only, an expired reservation.
BeginExpire(a) ==
    /\ Sandbox /\ Free /\ ~order.paid /\ order.status # "cancelled"
    /\ attempts[a].po /\ Row(a) = "created" /\ ~attempts[a].captured
    /\ hold.state = "reserved" /\ hold.lapsed
    /\ tx' = Lock("expire", a)
    /\ UNCHANGED <<attempts, lastId, order, hold, account, provider, mail, hooks,
                   cleanups>>

\* getOrder answers with the present state of PayPal's order, or not at all.
LookUp ==
    /\ tx.op \in {"cancel", "reconcile", "expire"} /\ tx.seen = "none"
    /\ \E s \in {provider[tx.a].status, "error"} : tx' = [tx EXCEPT !.seen = s]
    /\ UNCHANGED <<attempts, lastId, order, hold, account, provider, mail, hooks,
                   cleanups>>

\* cancelBuyerCheckout and expireAbandonedCreated end alike: the attempt is
\* closed, the stock and the credit are released, the order is cancelled.
CloseCheckout(state, why) ==
    /\ tx.seen = "CREATED"
    /\ attempts' = SetState(tx.a, state)
    /\ MayRelease(attempts')
    /\ hold' = ReleasedHold
    /\ tx.credit => KeyFits(Key(why, tx.a))
    /\ account' = IF tx.credit THEN SpendKey(Key(why, tx.a)) ELSE account
    /\ order' = [order EXCEPT !.status = "cancelled", !.credit = FALSE]
    /\ tx' = NoTx
    /\ UNCHANGED <<lastId, provider, mail, hooks, cleanups>>

CancelSucceeds == tx.op = "cancel" /\ CloseCheckout("cancelled", "release:cancel")
ExpireSucceeds == tx.op = "expire" /\ CloseCheckout("failed", "release:abandoned")

\* No answer, or PayPal's order is no longer CREATED.
CancelRefused ==
    /\ tx.op = "cancel" /\ tx.seen \notin {"none", "CREATED"}
    /\ attempts' = SetState(tx.a, "reconciliation_required")
    /\ tx' = NoTx
    /\ UNCHANGED <<lastId, order, hold, account, provider, mail, hooks, cleanups>>

\* reconcile found a completed capture: store it, deduct the stock unless the
\* order is already paid, and settle order and attempt.
ReconcileCaptured ==
    /\ tx.op = "reconcile" /\ Settled(tx.seen)
    /\ attempts' = [attempts EXCEPT ![tx.a].state = "captured",
                                    ![tx.a].captured = TRUE]
    /\ hold' = IF order.paid THEN hold ELSE [hold EXCEPT !.state = "confirmed"]
    /\ order' = [order EXCEPT !.paid = TRUE, !.status = "confirmed"]
    /\ tx' = NoTx
    /\ UNCHANGED <<lastId, account, provider, mail, hooks, cleanups>>

\* reconcile found a voided order that was never paid.
ReconcileVoided ==
    /\ tx.op = "reconcile" /\ Dead(tx.seen) /\ ~order.paid
    /\ attempts' = SetState(tx.a, "failed")
    /\ MayRelease(attempts')
    /\ hold' = ReleasedHold
    /\ tx' = NoTx
    /\ UNCHANGED <<lastId, order, account, provider, mail, hooks, cleanups>>

\* reconcile found anything else: the attempt takes the state PayPal reports.
ReconcileOpen ==
    /\ tx.op = "reconcile" /\ tx.seen \notin {"none", "error"}
    /\ ~Settled(tx.seen) /\ (Dead(tx.seen) => order.paid)
    /\ attempts' = SetState(tx.a, LocalState(tx.seen))
    /\ tx' = NoTx
    /\ UNCHANGED <<lastId, order, hold, account, provider, mail, hooks, cleanups>>

\* The process dies, the statement fails or the handler throws: the database
\* forgets the transaction, PayPal does not.
TxAborts ==
    /\ ~Free
    /\ tx' = NoTx
    /\ UNCHANGED <<attempts, lastId, order, hold, account, provider, mail, hooks,
                   cleanups>>

-----------------------------------------------------------------------------
(* transitionOrder to "cancelled" by staff: one transaction under the lock, *)
(* refused while a payment is unresolved or made.                           *)
StaffCancel ==
    /\ Free /\ MayRelease(attempts)
    /\ order.credit => KeyFits(Key("release:staff", 0))
    /\ account' = IF order.credit THEN SpendKey(Key("release:staff", 0)) ELSE account
    /\ hold' = ReleasedHold
    /\ order' = [order EXCEPT !.status = "cancelled", !.credit = FALSE]
    /\ UNCHANGED <<attempts, lastId, provider, mail, tx, hooks, cleanups>>

-----------------------------------------------------------------------------
(* The capture route's clean-up after a decline: a transaction of its own   *)
(* that does not take the order's lock.                                     *)

CleanupReads ==
    \E c \in cleanups :
      /\ c.stage = "due"
      /\ cleanups' = (cleanups \ {c}) \cup
                       {[c EXCEPT !.stage = "read", !.unpaid = ~order.paid,
                                  !.credit = order.credit]}
      /\ UNCHANGED <<attempts, lastId, order, hold, account, provider, mail, tx,
                     hooks>>

\* A capture in flight keeps its attempt's row locked.
RowUnlocked(a) == ~(tx.op = "capture" /\ tx.a = a)

\* The order row after a clean-up that released credit c.
Uncredited(c) == [order EXCEPT !.credit = @ /\ ~c]

\* Seen unpaid: fail the attempt and free the stock (refused, with everything
\* else, if a payment is unresolved or made by now; inventory work waits for
\* the one of create).  Seen credit: release it.
CleanUp(c) ==
    LET rows == IF c.unpaid THEN SetState(c.a, "failed") ELSE attempts IN
    /\ c.stage = "read" /\ RowUnlocked(c.a)
    /\ c.unpaid => tx.op # "create" /\ MayRelease(rows)
    /\ c.credit => KeyFits(Key("release:declined", c.a))
    /\ attempts' = rows
    /\ hold' = IF c.unpaid THEN ReleasedHold ELSE hold
    /\ account' = IF c.credit THEN SpendKey(Key("release:declined", c.a))
                  ELSE account
    /\ order' = Uncredited(c.credit)
    /\ cleanups' = cleanups \ {c}
    /\ UNCHANGED <<lastId, provider, mail, tx, hooks>>

\* It finds the attempt as the decline left it, or another state that was
\* written since: the code does not look, and both end up failed.
CleanupWrites == \E c \in cleanups : (c.unpaid => Row(c.a) = "failed") /\ CleanUp(c)
CleanupOverwrites == \E c \in cleanups : c.unpaid /\ Row(c.a) # "failed" /\ CleanUp(c)

\* The clean-up throws (its error is swallowed) or the process dies first.
CleanupLost ==
    \E c \in cleanups :
      /\ cleanups' = cleanups \ {c}
      /\ UNCHANGED <<attempts, lastId, order, hold, account, provider, mail, tx,
                     hooks>>

-----------------------------------------------------------------------------
(* Webhooks: the event's own lock keeps two deliveries of one event apart,  *)
(* nothing keeps the handler apart from the order's transactions.           *)

\* The handler finds the attempt of the event and reads its state.
HookReads ==
    \E e \in mail :
      /\ \A h \in hooks : h.e # e
      /\ attempts[e.a].po
      /\ hooks' = hooks \cup {[e |-> e, seen |-> Row(e.a)]}
      /\ UNCHANGED <<attempts, lastId, order, hold, account, provider, mail, tx,
                     cleanups>>

Approved_NoCompare(h) ==
    IF h.seen = "created" THEN SetState(h.e.a, "approved") ELSE attempts

\* CHECKOUT.ORDER.APPROVED: created -> approved, compared again on the write.
Approved(h) ==
    IF h.seen = "created" /\ Row(h.e.a) = "created"
    THEN SetState(h.e.a, "approved") ELSE attempts

\* PAYMENT.CAPTURE.*: to reconciliation unless seen captured; no comparison.
CaptureNoted(h) ==
    IF h.seen # "captured" THEN SetState(h.e.a, "reconciliation_required")
    ELSE attempts

HookWrites ==
    \E h \in hooks :
      /\ attempts' = IF h.e.type = "APPROVED" THEN Approved(h) ELSE CaptureNoted(h)
      /\ attempts' # attempts => RowUnlocked(h.e.a)
      /\ hooks' = hooks \ {h}
      /\ mail' = mail \ {h.e}
      /\ UNCHANGED <<lastId, order, hold, account, provider, tx, cleanups>>

\* The handler fails: the event stays recorded for a later delivery.
HookFails ==
    \E h \in hooks :
      /\ hooks' = hooks \ {h}
      /\ UNCHANGED <<attempts, lastId, order, hold, account, provider, mail, tx,
                     cleanups>>

-----------------------------------------------------------------------------
(* PayPal and the buyer (external), and the other orders of the tenant.     *)

Moves(a, s, asked, events) ==
    /\ provider' = [provider EXCEPT ![a] = [status |-> s, asked |-> asked]]
    /\ mail' = mail \cup events
    /\ UNCHANGED <<attempts, lastId, order, hold, account, tx, hooks, cleanups>>

Event(type, a) == {[type |-> type, a |-> a]}

\* The buyer needs the provider order id a committed create returned.
BuyerApproves(a) ==
    /\ attempts[a].po /\ provider[a].status = "CREATED"
    /\ Moves(a, "APPROVED", FALSE, Event("APPROVED", a))

\* A requested capture completes at once or stays pending at PayPal.
ProviderCaptures(a) ==
    /\ provider[a].status = "APPROVED" /\ provider[a].asked
    /\ \/ Moves(a, "COMPLETED", FALSE, Event("CAPTURE", a))
       \/ Moves(a, "PENDING", FALSE, {})

ProviderDecides(a) ==
    /\ provider[a].status = "PENDING"
    /\ \E s \in {"COMPLETED", "DENIED"} : Moves(a, s, FALSE, Event("CAPTURE", a))

ProviderVoids(a) ==
    /\ attempts[a].po /\ provider[a].status \in {"CREATED", "APPROVED"}
    /\ Moves(a, "VOIDED", FALSE, {})

\* expires_at passes.
HoldLapses ==
    /\ HoldMayLapse /\ hold.state = "reserved" /\ ~hold.lapsed
    /\ hold' = [hold EXCEPT !.lapsed = TRUE]
    /\ UNCHANGED <<attempts, lastId, order, account, provider, mail, tx, hooks,
                   cleanups>>

\* Another order's checkout sweeps expired reservations.  It sees committed
\* attempts only, but cannot run while create is in progress: inventory work
\* begins with an ALTER TABLE, whose lock lasts until its transaction ends.
OtherOrderSweeps ==
    /\ hold.state = "reserved" /\ hold.lapsed /\ ~AnyUnresolved(attempts)
    /\ tx.op # "create"
    /\ hold' = [hold EXCEPT !.state = "released"]
    /\ UNCHANGED <<attempts, lastId, order, account, provider, mail, tx, hooks,
                   cleanups>>

-----------------------------------------------------------------------------
Calls ==
    \/ BeginCreate \/ CreateSucceeds \/ CreateUnclear \/ CreateFails
    \/ \E a \in Attempts : BeginCapture(a) \/ BeginCancel(a)
                           \/ BeginReconcile(a) \/ BeginExpire(a)
    \/ CaptureSettles \/ CaptureUnsettled \/ CaptureDeclined \/ CaptureUnclear
    \/ LookUp \/ CancelSucceeds \/ CancelRefused \/ ExpireSucceeds
    \/ ReconcileCaptured \/ ReconcileVoided \/ ReconcileOpen
    \/ TxAborts \/ StaffCancel

Webhooks == HookReads \/ HookWrites \/ HookFails
Cleanups == CleanupReads \/ CleanupWrites \/ CleanupLost
World ==
    \/ \E a \in Attempts : BuyerApproves(a) \/ ProviderCaptures(a)
                           \/ ProviderDecides(a) \/ ProviderVoids(a)
    \/ HoldLapses \/ OtherOrderSweeps

IntactNext == Cleanups \/ Calls \/ Webhooks \/ World
Next == IntactNext \/ CleanupOverwrites

Spec == Init /\ [][Next]_vars

\* The behaviours in which no clean-up overwrites what was learned of its
\* attempt after the decline.
IntactSpec == Init /\ [][IntactNext]_vars

-----------------------------------------------------------------------------
(* Properties.                                                             *)

\* Every variable keeps its type, one committed row per attempt.
TypeOK ==
    /\ attempts \in [Attempts -> AttemptRows]
    /\ lastId \in 0 .. MaxAttempts
    /\ order \in OrderRows
    /\ hold \in Holds
    /\ account \in Accounts
    /\ provider \in [Attempts -> Sides]
    /\ mail \subseteq Events
    /\ tx \in Transactions
    /\ hooks \subseteq Handlers
    /\ cleanups \subseteq CleanupTasks

\* An order never has two payment attempts that could still take money:
\* whatever the calls, reconciliations and late webhooks, create's check of
\* the other attempts is never overtaken.  (Of IntactSpec: a clean-up that fails
\* an attempt revived since its decline lets a second one start.)
OneUnresolvedAttempt ==
    \A a, b \in Attempts :
      Row(a) \in Unresolved /\ Row(b) \in Unresolved => a = b

\* Money PayPal took is never forgotten: it has paid the order, or its
\* attempt still counts as unresolved, so that the order takes no second
\* payment and keeps its stock until somebody reconciles it.  (Of IntactSpec:
\* a clean-up that fails a revived attempt forgets what it is charged.)
ChargeNeverForgotten ==
    \A a \in Attempts : provider[a].status = "COMPLETED" =>
      \/ Row(a) \in Unresolved
      \/ Row(a) = "captured" /\ order.paid

\* A paid order has a stored capture of money PayPal really took, and its
\* stock was deducted in the same commit.
PaidIsBacked ==
    order.paid =>
      /\ hold.state = "confirmed"
      /\ \E a \in Attempts :
           attempts[a].captured /\ provider[a].status = "COMPLETED"

\* Stock is deducted only for a paid order: no refused, failed or crashed
\* payment leaves the sale behind.
SoldOnlyIfPaid == hold.state = "confirmed" => order.paid

\* A delayed approval, or any other stale write, never moves a captured
\* attempt back to one that can be captured, cancelled or retried.
CapturedNeverReopens ==
    [][\A a \in Attempts : Row(a) = "captured" =>
         attempts'[a].state \in {"captured", "reconciliation_required"}]_vars

\* Why the three properties above hold: a captured attempt belongs to a paid
\* order and to money PayPal took; the calls that undo a checkout run only
\* while the order is unpaid, which their lock keeps true; and reconcile's
\* answer from PayPal cannot be one that captured rows have left behind.
SettlementInv ==
    /\ PaidIsBacked
    /\ SoldOnlyIfPaid
    /\ \A a \in Attempts : Row(a) = "captured" =>
         order.paid /\ provider[a].status = "COMPLETED"
    /\ tx.op \in {"create", "capture", "cancel", "expire"} => ~order.paid
    /\ tx.seen = "COMPLETED" => provider[tx.a].status = "COMPLETED"
    /\ tx.op = "reconcile" /\ Row(tx.a) = "captured" =>
         tx.seen \in {"none", "error", "COMPLETED"}

-----------------------------------------------------------------------------
(* What is promised about the order, and where it is found.                *)

Promise == INSTANCE CheckoutPromise WITH
    charges <- Cardinality({a \in Attempts : provider[a].status = "COMPLETED"}),
    settled <- order.paid,
    sold    <- hold.state = "confirmed"

\* Checkout keeps the abstract promise: one charge at most, then one
\* settlement at most, each with the sale of the stock in the same commit.
\* (Of IntactSpec, for the same reason.)
KeepsPromise == Promise!Spec

=============================================================================
