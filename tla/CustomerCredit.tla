----------------------------- MODULE CustomerCredit -----------------------------
(***************************************************************************)
(* One customer's credit account and the orders that draw on it:           *)
(* payments/customerCredit.ts and every handler that calls it.             *)
(*                                                                         *)
(* Credit is reserved for an order, and later consumed by its payment or   *)
(* released.  The account keeps one reserved sum for all orders, so an     *)
(* order that gives back more than it holds takes it from another one.     *)
(* Each entry of the ledger has a key, and a key is booked once; a handler *)
(* holds the order's lock and the account's, but for the clean-up after a  *)
(* declined capture, which only takes the account's.                       *)
(***************************************************************************)
EXTENDS Integers, FiniteSets

CONSTANTS
    Orders,       \* ids of the customer's orders
    Total,        \* what an order costs, tax included
    Subtotal,     \* its merchandise
    Keys,         \* idempotency keys the customer sends with apply-credit
    Grants,       \* adjustments an administrator makes, one per key
    FirstAttempt, \* payment attempts have ids from a sequence of their own
    MaxAttempts,  \* bound: payment attempts
    Edited        \* bound: orders that staff end, or open again, by hand

ASSUME CreditAssumption ==
    /\ Orders \subseteq Nat \ {0} /\ Total \in [Orders -> Nat] /\ Subtotal \in [Orders -> Nat]
    /\ FirstAttempt \in Nat \ {0} /\ MaxAttempts \in Nat
    /\ Grants \subseteq Int /\ Edited \subseteq Orders

VARIABLES
    account,  \* balance, and how much of it is reserved
    order,    \* the orders
    attempt,  \* the latest payment attempt of each order; id 0: none yet
    attempts, \* how many attempts there have been
    cleanups, \* declined captures that have not been cleaned up
    used,     \* keys of the ledger
    held,     \* the ledger per order: reserved, less consumed and released
    spent,    \* ... consumed
    restored, \* ... given back by returns
    skipped   \* releases of credit taken for a replay: the order and the key

vars == <<account, order, attempt, attempts, cleanups, used, held, spent, restored,
          skipped>>

\* dropped: ended by a handler that gives no credit back, or given credit afterwards.
Stages == {"none", "open", "completed", "cancelled", "refunded", "dropped"}
Payments == {"unpaid", "paid", "partially_refunded", "refunded"}
Methods == {"none", "credit", "cash", "paypal", "verified"}
\* refused, lost: PayPal made no order, or did not say; there is no id to ask by.
States == {"none", "refused", "lost", "created", "unsettled", "failed", "cancelled", "captured"}
Unresolved == {"lost", "created", "unsettled"}
AttemptIds == FirstAttempt..(FirstAttempt + MaxAttempts - 1)
OrderRows == [stage : Stages, payment : Payments, method : Methods, applied : Nat]
Attempts == [id : {0} \cup AttemptIds, state : States, due : Nat]
\* A clean-up that has not read its order yet has seen -1.
Cleanups == [order : Orders, id : AttemptIds, seen : Nat \cup {-1}, unpaid : BOOLEAN]

Init ==
    /\ account = [balance |-> 0, reserved |-> 0]
    /\ order = [o \in Orders |->
                  [stage |-> "none", payment |-> "unpaid", method |-> "none", applied |-> 0]]
    /\ attempt = [o \in Orders |-> [id |-> 0, state |-> "none", due |-> 0]]
    /\ attempts = 0 /\ cleanups = {} /\ used = {} /\ skipped = {}
    /\ held = [o \in Orders |-> 0] /\ spent = held /\ restored = held

Due(o) == Total[o] - order[o].applied
Available == account.balance - account.reserved

-----------------------------------------------------------------------------
(* payments/customerCredit.ts: an entry of the ledger and what goes with it. *)

\* reserveCustomerCredit refuses what the order or the account has not got.
Reservable(o, x) == x <= Due(o) /\ x <= Available

\* consumeCustomerCredit takes x of what is reserved, after r has been added to it.
Consumable(x, r) == 0 < x /\ x <= account.reserved + r /\ x <= account.balance

\* Reserve r for the order, then consume c of what is reserved.
Book(o, r, c, keys) ==
    /\ account' = [balance |-> account.balance - c, reserved |-> account.reserved + r - c]
    /\ held' = [held EXCEPT ![o] = @ + r - c]
    /\ spent' = [spent EXCEPT ![o] = @ + c]
    /\ used' = used \cup keys

\* releaseCustomerCredit: nothing is booked under a key that is used.
Release_Booked(o, x, k) ==
    /\ used' = IF x = 0 THEN used ELSE used \cup {k}
    /\ UNCHANGED <<account, held, skipped>>
Release(o, x, k) ==
    /\ skipped' = IF x > 0 /\ k \in used THEN skipped \cup {<<o, k>>} ELSE skipped
    /\ IF x = 0 \/ k \in used
       THEN UNCHANGED <<account, held, used>>
       ELSE /\ x <= account.reserved
            /\ account' = [account EXCEPT !.reserved = @ - x]
            /\ held' = [held EXCEPT ![o] = @ - x]
            /\ used' = used \cup {k}

\* adjustCustomerCredit.
Adjustable_Blind(x) == account.balance + x >= 0
Adjustable(x) == account.balance + x >= account.reserved
Adjust(x) ==
    /\ <<"adjust", x>> \notin used /\ Adjustable(x)
    /\ account' = [account EXCEPT !.balance = @ + x]
    /\ used' = used \cup {<<"adjust", x>>}
    /\ UNCHANGED <<order, attempt, attempts, cleanups, held, spent, restored, skipped>>

-----------------------------------------------------------------------------
(* Orders paid with credit, cash or both.                                  *)
Paid(o, method) == [order[o] EXCEPT !.payment = "paid", !.method = method, !.stage = "open"]

\* A new order takes x of credit, and is paid if that is all of it.
Place(o, x) ==
    /\ order[o].stage = "none" /\ Reservable(o, x)
    /\ LET all == x = Total[o]
           row == [stage |-> "open", payment |-> "unpaid", method |-> "none", applied |-> x]
       IN /\ order' = [order EXCEPT ![o] =
                 IF all THEN [row EXCEPT !.payment = "paid", !.method = "credit"] ELSE row]
          /\ Book(o, x, IF all THEN x ELSE 0, IF x = 0 THEN {} ELSE {<<"initial", o>>})
    /\ UNCHANGED <<attempt, attempts, cleanups, restored, skipped>>

\* POST /payments/:orderId/apply-credit.  It does not look at the order's stage:
\* one that has ended is given credit all the same.
Given(o) == IF order[o].stage = "open" THEN order[o] ELSE [order[o] EXCEPT !.stage = "dropped"]
ApplyCredit(o, x, k) ==
    /\ order[o].stage # "none" /\ order[o].payment # "paid" /\ attempt[o].id = 0
    /\ <<"reserve", k>> \notin used /\ x > 0 /\ Reservable(o, x)
    /\ LET sum == order[o].applied + x
           all == sum = Total[o]
       IN /\ sum <= Subtotal[o]
          /\ all => Consumable(sum, x)
          /\ order' = [order EXCEPT ![o] =
                 [(IF all THEN Paid(o, "credit") ELSE Given(o)) EXCEPT !.applied = sum]]
          /\ Book(o, x, IF all THEN sum ELSE 0, {<<"reserve", k>>})
    /\ UNCHANGED <<attempt, attempts, cleanups, restored, skipped>>

\* POST /orders/:id/closeout.  A courier's order is not completed yet.
CloseCash(o) ==
    /\ order[o].stage = "open" /\ order[o].payment = "unpaid"
    /\ order[o].applied > 0 => Consumable(order[o].applied, 0)
    /\ Book(o, 0, order[o].applied, {})
    /\ \E stage \in {"open", "completed"} :
         order' = [order EXCEPT ![o] = [Paid(o, "cash") EXCEPT !.stage = stage]]
    /\ UNCHANGED <<attempt, attempts, cleanups, restored, skipped>>

\* The goods are handed over.
Complete(o) ==
    /\ order[o].stage = "open" /\ order[o].payment = "paid"
    /\ order' = [order EXCEPT ![o].stage = "completed"]
    /\ UNCHANGED <<account, attempt, attempts, cleanups, used, held, spent, restored, skipped>>

-----------------------------------------------------------------------------
(* PayPal.                                                                 *)
CreateAttempt(o, state) ==
    /\ order[o].stage = "open" /\ order[o].payment # "paid"
    /\ attempt[o].state \notin Unresolved /\ Due(o) > 0 /\ attempts < MaxAttempts
    /\ attempts' = attempts + 1
    /\ attempt' = [attempt EXCEPT ![o] =
                     [id |-> FirstAttempt + attempts, state |-> state, due |-> Due(o)]]
    /\ UNCHANGED <<account, order, cleanups, used, held, spent, restored, skipped>>

Capturable(o) ==
    /\ attempt[o].state = "created" /\ order[o].stage = "open" /\ order[o].payment # "paid"
    /\ Due(o) = attempt[o].due

Settle(o, state) == attempt' = [attempt EXCEPT ![o].state = state]

Captured(o) ==
    /\ Capturable(o)
    /\ order[o].applied > 0 => Consumable(order[o].applied, 0)
    /\ Book(o, 0, order[o].applied, {}) /\ Settle(o, "captured")
    /\ order' = [order EXCEPT ![o] = Paid(o, "paypal")]
    /\ UNCHANGED <<attempts, cleanups, restored, skipped>>

\* Not answered, or captured at PayPal while the order could not be paid here.
Unanswered(o) ==
    /\ Capturable(o) /\ Settle(o, "unsettled")
    /\ UNCHANGED <<account, order, attempts, cleanups, used, held, spent, restored, skipped>>

Declined(o) ==
    /\ Capturable(o) /\ Settle(o, "failed")
    /\ cleanups' = cleanups \cup {[order |-> o, id |-> attempt[o].id, seen |-> -1, unpaid |-> FALSE]}
    /\ UNCHANGED <<account, order, attempts, used, held, spent, restored, skipped>>

\* The route that sees the decline reads the order in a transaction of its own ...
ReadDeclined(c) ==
    /\ c.seen = -1
    /\ cleanups' = (cleanups \ {c}) \cup
         {[c EXCEPT !.seen = order[c.order].applied, !.unpaid = order[c.order].payment # "paid"]}
    /\ UNCHANGED <<account, order, attempt, attempts, used, held, spent, restored, skipped>>

\* ... and releases what it read, paid or not, unless a statement before it or
\* the release itself fails: then nothing of this is done, and nobody told.
CleanUp(c) ==
    /\ c.seen >= 0 /\ cleanups' = cleanups \ {c}
    /\ LET o == c.order
           blocked == c.unpaid /\ (attempt[o].state \in Unresolved \/ order[o].payment = "paid")
           short == c.seen > account.reserved
       IN IF blocked \/ short \/ c.seen = 0
          THEN UNCHANGED <<account, order, held, used, skipped>>
          ELSE /\ Release(o, c.seen, <<"declined", c.id>>)
               /\ order' = [order EXCEPT ![o].applied = 0]
    /\ UNCHANGED <<attempt, attempts, spent, restored>>

\* reconcile: what PayPal says of the order it made.  Credit is not consumed.
Reconciled(o) ==
    /\ attempt[o].state \in {"unsettled", "captured"}
    /\ Settle(o, "captured") /\ order' = [order EXCEPT ![o] = Paid(o, "verified")]
    /\ UNCHANGED <<account, attempts, cleanups, used, held, spent, restored, skipped>>

Reopened(o, state) ==
    /\ attempt[o].state \in {"created", "unsettled", "failed", "cancelled"}
    /\ state = "failed" => order[o].payment # "paid"
    /\ Settle(o, state)
    /\ UNCHANGED <<account, order, attempts, cleanups, used, held, spent, restored, skipped>>

-----------------------------------------------------------------------------
(* Orders that end without being paid, and returns.                        *)
Cancelled_Applied(o) == [order[o] EXCEPT !.stage = "cancelled"]
Cancelled(o) == [order[o] EXCEPT !.stage = "cancelled", !.applied = 0]

\* cancelBuyerCheckout.  Its key names the attempt.
BuyerCancel(o) ==
    /\ attempt[o].state = "created" /\ order[o].payment # "paid"
    /\ Release(o, order[o].applied, <<"cancel", attempt[o].id>>)
    /\ Settle(o, "cancelled") /\ order' = [order EXCEPT ![o] = Cancelled(o)]
    /\ UNCHANGED <<attempts, cleanups, spent, restored>>

\* expireAbandonedCreated.
Abandon(o) ==
    /\ attempt[o].state = "created" /\ order[o].payment = "unpaid" /\ order[o].stage = "open"
    /\ Release(o, order[o].applied, <<"abandoned", attempt[o].id>>)
    /\ Settle(o, "failed") /\ order' = [order EXCEPT ![o] = Cancelled(o)]
    /\ UNCHANGED <<attempts, cleanups, spent, restored>>

\* transitionOrder to cancelled, archived or voided, for the first time or again,
\* unless the order is "paid".  Its key, of the buyer's form, names the order.
StaffCancel(o) ==
    /\ order[o].stage # "none" /\ order[o].payment # "paid"
    /\ attempt[o].state \notin Unresolved
    /\ Release(o, order[o].applied, <<"cancel", o>>)
    /\ order' = [order EXCEPT ![o] = Cancelled(o)]
    /\ UNCHANGED <<attempt, attempts, cleanups, spent, restored>>

\* The handlers that end an order and leave its credit where it is.
Restage(o, stage) ==
    /\ o \in Edited /\ order' = [order EXCEPT ![o].stage = stage]
    /\ UNCHANGED <<account, attempt, attempts, cleanups, used, held, spent, restored, skipped>>

\* The clean-up of stale orders releases their stock, which an attempt that is not
\* resolved prevents, and nothing else.
Archive(o) ==
    /\ order[o].stage = "open" /\ order[o].payment = "unpaid"
    /\ attempt[o].state \notin Unresolved
    /\ Restage(o, "dropped")

\* The fulfilment route cancels.  It looked at the payment before, without a lock.
CancelFulfilment(o) == order[o].stage = "open" /\ Restage(o, "dropped")

\* PATCH /orders/:id writes any status: an order ends, or is open again.
EditStatus(o, stage) == order[o].stage # "none" /\ Restage(o, stage)

\* A return gives x of the credit back, the rest of the refund by other tenders.
\* It starts from credit that the ledger has consumed.
Returnable_Applied(o) == order[o].payment \in {"paid", "partially_refunded"}
Returnable(o) ==
    order[o].payment \in {"paid", "partially_refunded"} /\ spent[o] = order[o].applied
Return(o, x, full) ==
    /\ Returnable(o) /\ restored[o] + x <= order[o].applied
    /\ full => restored[o] + x = order[o].applied
    /\ account' = [account EXCEPT !.balance = @ + x]
    /\ restored' = [restored EXCEPT ![o] = @ + x]
    /\ order' = [order EXCEPT ![o] =
         IF full THEN [@ EXCEPT !.payment = "refunded", !.stage = "refunded"]
                 ELSE [@ EXCEPT !.payment = "partially_refunded"]]
    /\ UNCHANGED <<attempt, attempts, cleanups, used, held, spent, skipped>>

-----------------------------------------------------------------------------
CleaningUp == \E c \in cleanups : ReadDeclined(c) \/ CleanUp(c)
Adjusting == \E x \in Grants : Adjust(x)

\* What takes an order to be unpaid that is not "paid", refunded ones too ...
Using(o) ==
    \/ \E x \in 0..Total[o], k \in Keys : ApplyCredit(o, x, k)
    \/ \E state \in {"created", "refused", "lost"} : CreateAttempt(o, state)
    \/ Captured(o) \/ Unanswered(o) \/ Declined(o) \/ Reconciled(o)
    \/ \E state \in {"created", "failed", "unsettled"} : Reopened(o, state)
    \/ BuyerCancel(o) \/ StaffCancel(o)

\* ... and what does not.
Serving(o) ==
    \/ \E x \in 0..Total[o] : Place(o, x)
    \/ CloseCash(o) \/ Complete(o) \/ Abandon(o) \/ Archive(o) \/ CancelFulfilment(o)
    \/ \E stage \in {"open", "dropped"} : EditStatus(o, stage)
    \/ \E x \in 0..Total[o], full \in BOOLEAN : Return(o, x, full)

Next == CleaningUp \/ Adjusting \/ \E o \in Orders : Using(o) \/ Serving(o)

Spec == Init /\ [][Next]_vars

\* The runs the books are kept in.  The code has others, with two sequences that
\* take credit twice: an order that was refunded in part or in full is paid,
\* cancelled or given credit again, and something happens between a decline and
\* the end of its clean-up, which runs without the order's lock.
Refunded(o) == order[o].payment \in {"partially_refunded", "refunded"}

OrderlyNext ==
    \/ CleaningUp
    \/ /\ cleanups = {}
       /\ \/ Adjusting
          \/ \E o \in Orders : (~Refunded(o) /\ Using(o)) \/ Serving(o)

OrderlySpec == Init /\ [][OrderlyNext]_vars

-----------------------------------------------------------------------------
(* Properties.                                                             *)

\* Every variable has its type, and the account keeps the table's constraint:
\* never more is reserved than there is, and neither is negative.
TypeOK ==
    /\ account \in [balance : Nat, reserved : Nat] /\ account.reserved <= account.balance
    /\ order \in [Orders -> OrderRows] /\ attempt \in [Orders -> Attempts]
    /\ attempts \in 0..MaxAttempts /\ cleanups \subseteq Cleanups
    /\ held \in [Orders -> Int] /\ spent \in [Orders -> Nat] /\ restored \in [Orders -> Nat]

\* What the orders hold, unit by unit.
Units(f) == UNION {{o} \X (1..f[o]) : o \in Orders}

\* No order takes what another one holds: whatever the handlers that consume and
\* release do with the account's one reserved sum, each order gives up at most
\* what it has reserved, and an unpaid one still holds all that is applied to it.
NeverOverdrawn ==
    /\ account.reserved = Cardinality(Units(held))
    /\ \A o \in Orders : held[o] >= IF order[o].payment = "unpaid" THEN order[o].applied ELSE 0

\* What an order may keep in reserve.
Kept(o) ==
    IF order[o].payment = "unpaid" /\ order[o].stage \in {"open", "dropped"}
    THEN order[o].applied ELSE 0

\* Credit is reserved for an unpaid order that is open, and otherwise in three ways
\* only.  The stale clean-up, the fulfilment route and PATCH /orders/:id end an
\* order and leave its credit, and apply-credit gives some to an order that has
\* ended: "dropped".  An order that reconcile marked paid consumes none.  And a
\* cancellation's key had been used, by an earlier one or by one whose attempt or
\* order has that number: a clean-up's and an abandonment's never has.
NothingStranded ==
    /\ \A o \in Orders :
         held[o] > Kept(o) => order[o].method = "verified" \/ \E s \in skipped : s[1] = o
    /\ \A s \in skipped : s[2][1] = "cancel"

\* A payment consumes exactly the credit that is applied to its order, once, and
\* returns give no more of it back than that.
SpentOnce ==
    \A o \in Orders :
      /\ restored[o] <= spent[o] /\ spent[o] \in {0, order[o].applied}
      /\ order[o].payment # "unpaid" /\ order[o].method # "verified"
           => spent[o] = order[o].applied
      /\ order[o].payment = "unpaid" => spent[o] = 0

=============================================================================
