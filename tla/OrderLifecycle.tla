----------------------------- MODULE OrderLifecycle -----------------------------
(***************************************************************************)
(* One order between the people who work on it: routes/orders.ts with      *)
(* lib/orderStateMachine.ts, lib/orderRouting.ts and lib/adminQueueStart.ts,*)
(* and the payments that meet it there.                                    *)
(*                                                                         *)
(* Most handlers read the order, decide, and write it in a later statement *)
(* of its own: op[a] is the request of actor a between the two.  A write   *)
(* either names what it expects to find, or finds the order by its id.     *)
(* Handlers that decide inside one UPDATE, or under the order's lock, are  *)
(* one step.                                                               *)
(***************************************************************************)
EXTENDS Integers, FiniteSets

CONSTANTS
    Csrs,      \* sales representatives
    Manager,   \* a supervisor or admin
    Archiver,  \* the request that archives stale orders
    Nobody,    \* the assignee of an order in the general queue
    Statuses,  \* statuses staff write with PATCH /orders/:id
    Stages,    \* stages staff set with POST /orders/:id/fulfillment
    MaxPending \* bound: requests that have read the order and not written it

LifecycleStates == {"draft", "submitted", "in_progress", "preparing", "ready",
                    "completed", "cancelled", "refunded", "reconciliation_required"}

ASSUME LifecycleAssumption ==
    /\ Manager # Archiver /\ Nobody \notin {Manager, Archiver}
    /\ Manager \notin Csrs /\ Archiver \notin Csrs /\ Nobody \notin Csrs
    /\ Stages \subseteq LifecycleStates /\ MaxPending \in Nat

VARIABLES
    order,    \* the row of orders, see below
    attempt,  \* the state of the latest PayPal attempt
    onShift,  \* the representatives with an active shift
    op,       \* the request each actor has read for, and not yet written
    kept,     \* how often the order's total has been taken, less refunds
    claims    \* the actors told that the order is theirs, since it was last
              \* handed out by someone else

vars == <<order, attempt, onShift, op, kept, claims>>

Staff == Csrs \cup {Manager}
Actors == Staff \cup {Archiver}
OrderStatuses == LifecycleStates \cup {"confirmed", "archived", "purged"} \cup Statuses
Closed == {"cancelled", "refunded", "voided", "archived", "completed"}
\* "capturing": the capture is at PayPal and holds the order's lock.
Attempts == {"none", "created", "capturing", "review", "failed", "captured"}
Locked == attempt = "capturing"

\* status and fulfil are orders.status and fulfillment_status; who and shift
\* the assignee and whether the assigned shift is still open; tender the
\* selectedPaymentMethod; courier what is known of the Uber Direct courier
\* that an order may have.
Orders == [status : OrderStatuses, fulfil : LifecycleStates,
           payment : {"unpaid", "paid", "refunded"}, who : Csrs \cup {Nobody},
           shift : {"none", "open", "ended"}, accepted : BOOLEAN,
           tender : {"cash", "paypal", "credit"},
           courier : {"none", "due", "delivered"}]

\* to: the status or assignee asked for.  at: the shift to assign.  seen: the
\* assignee and shift that were read.
NoOp == [job |-> "none", to |-> "none", at |-> "none", seen |-> <<Nobody, "none">>]
Ops == [job : {"none", "accept", "start", "reassign", "transition", "fulfil", "archive"},
        to : {"none"} \cup LifecycleStates \cup {"archived"} \cup Csrs \cup {Nobody},
        at : {"none", "open", "ended"},
        seen : (Csrs \cup {Nobody}) \X {"none", "open", "ended"}]

-----------------------------------------------------------------------------
(* Requests.                                                               *)
Read(a, job, to, at) ==
    /\ op[a] = NoOp
    /\ Cardinality({b \in Actors : op[b] # NoOp}) < MaxPending
    /\ op' = [op EXCEPT ![a] = [job |-> job, to |-> to, at |-> at,
                                seen |-> IF job = "accept" THEN <<order.who, order.shift>>
                                         ELSE NoOp.seen]]
    /\ UNCHANGED <<order, attempt, onShift, kept, claims>>

Doing(a, job) == op[a].job = job /\ op' = [op EXCEPT ![a] = NoOp]

Write(new) == order' = new /\ UNCHANGED <<attempt, onShift, kept>>
Refused == UNCHANGED <<order, attempt, onShift, kept, claims>>

\* assertLegalOrderTransition; a stage it is in already is left as it is.
Legal(from, to) ==
    to \in CASE from = "draft" -> {"submitted", "cancelled"}
             [] from = "submitted" -> {"in_progress", "cancelled", "reconciliation_required"}
             [] from = "in_progress" ->
                  {"preparing", "ready", "cancelled", "reconciliation_required"}
             [] from = "preparing" -> {"ready", "cancelled", "reconciliation_required"}
             [] from = "ready" -> {"completed", "cancelled", "reconciliation_required"}
             [] from = "completed" -> {"refunded", "reconciliation_required"}
             [] from \in {"cancelled", "refunded"} -> {"reconciliation_required"}
             [] OTHER -> {}

\* paymentReadyForCompletion and uberDeliveryReadyForCompletion.
ReadyForCompletion_Unpaid == order.courier # "due"
ReadyForCompletion == order.payment = "paid" /\ order.courier # "due"

\* A representative works on the orders of the shift that is open.
Operates(c) == c \in onShift /\ order.who = c /\ order.shift = "open"

-----------------------------------------------------------------------------
(* Who works on the order.                                                 *)
ReadAccept(c) ==
    /\ c \in onShift
    /\ order.who \in {Nobody, c} /\ order.shift \in {"none", "open"}
    /\ ~order.accepted /\ order.fulfil = "submitted"
    /\ Read(c, "accept", "none", "open")

Unclaimed_ById(c) == order.fulfil = "submitted"
Unclaimed(c) == ~order.accepted /\ order.fulfil = "submitted"
                /\ <<order.who, order.shift>> = op[c].seen

WriteAccept(c) ==
    /\ Doing(c, "accept")
    /\ IF Unclaimed(c)
       THEN /\ Write([order EXCEPT !.accepted = TRUE, !.status = "in_progress",
                                   !.fulfil = "in_progress", !.who = c,
                                   !.shift = op[c].at])
            /\ claims' = claims \cup {c}
       ELSE Refused

\* Nobody's orders have the route source that is asked for here.
Unassigned == /\ order.who = Nobody /\ order.shift = "none" /\ ~order.accepted
              /\ order.fulfil = "submitted"

ReadStart == Unassigned /\ Read(Manager, "start", "none", "none")

WriteStart ==
    /\ Doing(Manager, "start")
    /\ IF Unassigned
       THEN /\ Write([order EXCEPT !.accepted = TRUE, !.status = "in_progress",
                                   !.fulfil = "in_progress"])
            /\ claims' = claims \cup {Manager}
       ELSE Refused

Freed == [order EXCEPT !.who = Nobody, !.shift = "none", !.accepted = FALSE,
                       !.status = "submitted", !.fulfil = "submitted"]

\* Release and assign refuse paid and closed orders in their UPDATE.
Movable == order.payment # "paid" /\ order.status \notin Closed

ReleaseOrder(a) ==
    /\ Movable /\ (a \in Csrs => order.who = a)
    /\ Write(Freed) /\ claims' = {} /\ UNCHANGED op

Assign(c) ==
    /\ Movable
    /\ Write([order EXCEPT !.who = c, !.accepted = TRUE, !.status = "in_progress",
                           !.fulfil = "in_progress",
                           !.shift = IF c \in onShift THEN "open" ELSE "none"])
    /\ claims' = {} /\ UNCHANGED op

\* reassignOrder looks for closed and ready orders once, and writes any order.
ReadReassign(w) ==
    /\ w = Nobody \/ w \in onShift
    /\ order.fulfil \notin Closed \cup {"ready"}
    /\ order.status \notin Closed \cup {"ready", "delivered"}
    /\ Read(Manager, "reassign", w, IF w = Nobody THEN "none" ELSE "open")

WriteReassign ==
    /\ Doing(Manager, "reassign")
    /\ Write([order EXCEPT !.who = op[Manager].to, !.shift = op[Manager].at,
                           !.accepted = FALSE, !.status = "submitted",
                           !.fulfil = "submitted"])
    /\ claims' = {}

\* POST /shifts/:id/reassign moves the orders of an active shift to another.
MoveShift(c) ==
    /\ order.who \in onShift /\ order.shift = "open" /\ c \in onShift
    /\ order.status \notin Closed
    /\ Write([order EXCEPT !.who = c, !.shift = "open"])
    /\ claims' = {} /\ UNCHANGED op

ClockIn(c) ==
    /\ c \notin onShift /\ onShift' = onShift \cup {c}
    /\ UNCHANGED <<order, attempt, op, kept, claims>>

\* Ending a shift touches no order: those assigned to it keep its id, and so
\* do requests that have read it.
Ended(shift) == IF shift = "open" THEN "ended" ELSE shift
Overtaken(a, c) == CASE a = c /\ op[a].job = "accept" -> Ended(op[a].at)
                     [] op[a].job = "reassign" /\ op[a].to = c -> Ended(op[a].at)
                     [] OTHER -> op[a].at
OvertakenSeen(a, c) ==
    IF op[a].seen[1] = c THEN <<c, Ended(op[a].seen[2])>> ELSE op[a].seen

ClockOut(c) ==
    /\ c \in onShift /\ onShift' = onShift \ {c}
    /\ order' = [order EXCEPT !.shift = IF order.who = c THEN Ended(@) ELSE @]
    /\ op' = [a \in Actors |-> [op[a] EXCEPT !.at = Overtaken(a, c),
                                             !.seen = OvertakenSeen(a, c)]]
    /\ UNCHANGED <<attempt, kept, claims>>

-----------------------------------------------------------------------------
(* How far the order is.                                                   *)
\* transitionOrder: complete, cancel, refunded, reconcile, archive and void.
\* Void is archive with another stamp; neither asks whether it is legal.
Target(to) == IF to = "archived" THEN "cancelled" ELSE to

ReadTransition(a, to) ==
    /\ a \in Csrs => to \in {"completed", "cancelled"} /\ Operates(a)
    /\ Target(to) = "cancelled" => order.payment # "paid"
    /\ order.fulfil # Target(to) /\ (to = "archived" \/ Legal(order.fulfil, to))
    /\ to = "completed" => ReadyForCompletion
    /\ Read(a, "transition", to, "none")

\* A cancellation waits for the order's lock, gives its stock back, which is
\* refused to a paid order or an unresolved attempt, and looks again.
Unresolved == attempt \in {"created", "capturing", "review"}
Cancellable_Seen == ~Unresolved
Cancellable == order.payment # "paid" /\ ~Unresolved

WriteTransition(a) ==
    /\ Doing(a, "transition")
    /\ LET to == Target(op[a].to) IN
       /\ to = "cancelled" => ~Locked
       /\ IF to = "cancelled" => Cancellable
          THEN Write([order EXCEPT !.status = to, !.fulfil = to]) /\ UNCHANGED claims
          ELSE Refused

\* updateOrderFulfillment: what is legal is decided on an action, and every
\* stage that has none is taken for a cancellation.
Judged(to) == IF to \in {"draft", "submitted"} THEN "cancelled" ELSE to

ReadFulfil(a, to) ==
    /\ a \in Csrs => Operates(a)
    /\ a = Manager => to # "in_progress"
    /\ order.fulfil # Judged(to) /\ Legal(order.fulfil, Judged(to))
    /\ to = "completed" => ReadyForCompletion
    /\ to = "cancelled" => order.payment # "paid"
    /\ Read(a, "fulfil", to, "none")

WriteFulfil(a) ==
    /\ Doing(a, "fulfil")
    /\ Write([order EXCEPT !.status = op[a].to, !.fulfil = op[a].to])
    /\ UNCHANGED claims

MarkReady ==
    /\ Write([order EXCEPT !.status = "ready", !.fulfil = "ready"])
    /\ UNCHANGED <<op, claims>>

PatchStatus(to) == Write([order EXCEPT !.status = to]) /\ UNCHANGED <<op, claims>>
Purge == Write([order EXCEPT !.status = "purged"]) /\ UNCHANGED <<op, claims>>

\* The archive of stale orders picks its candidates first.
ReadArchive ==
    /\ order.status = "submitted" /\ order.fulfil = "submitted"
    /\ order.payment = "unpaid"
    /\ Read(Archiver, "archive", "none", "none")

WriteArchive ==
    /\ Doing(Archiver, "archive")
    /\ IF Cancellable
       THEN /\ Write([order EXCEPT !.status = "archived", !.fulfil = "cancelled"])
            /\ UNCHANGED claims
       ELSE Refused

-----------------------------------------------------------------------------
(* Payment.                                                                *)
Settle(status, fulfil, tender) ==
    /\ order' = [order EXCEPT !.payment = "paid", !.status = status,
                              !.fulfil = fulfil, !.tender = tender]
    /\ kept' = kept + 1
    /\ UNCHANGED <<onShift, op, claims>>

\* The cash of an order routed to the general queue goes to the session of
\* the queue, if one is open; other cash to the shift of whoever takes it.
TakesCash(a, session) ==
    /\ a \in Csrs => order.who = a
    /\ IF session THEN TRUE
       ELSE order.shift = "none" \/ (order.who = a /\ order.shift = "open")
    /\ a \in onShift \cup {Manager}

Payable_Open == order.status \notin Closed /\ order.tender = "cash"
Payable == Payable_Open /\ order.payment = "unpaid"

Closeout(a, session) ==
    /\ ~Locked /\ Payable /\ TakesCash(a, session)
    /\ IF order.courier # "none" THEN Settle("confirmed", "submitted", "cash")
                        ELSE Settle("completed", "completed", "cash")
    /\ UNCHANGED attempt

\* A credit that pays the whole total; the route looks at no status.
ApplyCredit ==
    /\ ~Locked /\ order.payment # "paid" /\ attempt = "none"
    /\ Settle("confirmed", order.fulfil, "credit")
    /\ UNCHANGED attempt

CreateAttempt ==
    /\ ~Locked /\ order.payment # "paid" /\ order.tender = "paypal"
    /\ order.status \notin Closed /\ ~Unresolved
    /\ attempt' = "created"
    /\ UNCHANGED <<order, onShift, op, kept, claims>>

BeginCapture ==
    /\ ~Locked /\ attempt = "created" /\ order.payment # "paid"
    /\ order.status \notin Closed
    /\ attempt' = "capturing"
    /\ UNCHANGED <<order, onShift, op, kept, claims>>

\* The capture is completed, declined, or its outcome is not known.
EndCapture(outcome) ==
    /\ Locked /\ attempt' = outcome
    /\ IF outcome = "captured" THEN Settle("confirmed", order.fulfil, "paypal")
                               ELSE UNCHANGED <<order, onShift, op, kept, claims>>

\* reconcile, and the webhooks, learn of a charge; an order that is paid
\* already is set back to confirmed.
Reconcile ==
    /\ ~Locked /\ attempt \in {"created", "review", "captured"}
    /\ order.payment # "refunded"
    /\ attempt' = "captured"
    /\ IF order.payment = "unpaid" THEN Settle("confirmed", order.fulfil, "paypal")
       ELSE /\ order' = [order EXCEPT !.status = "confirmed"]
            /\ UNCHANGED <<onShift, op, kept, claims>>

BuyerCancel ==
    /\ ~Locked /\ attempt = "created" /\ order.payment # "paid"
    /\ attempt' = "failed"
    /\ order' = [order EXCEPT !.status = "cancelled", !.fulfil = "cancelled"]
    /\ UNCHANGED <<onShift, op, kept, claims>>

\* A full refund, by a return or through PayPal.
Refund ==
    /\ ~Locked /\ order.payment = "paid"
    /\ order' = [order EXCEPT !.payment = "refunded", !.status = "refunded"]
    /\ kept' = kept - 1
    /\ UNCHANGED <<attempt, onShift, op, claims>>

\* What Uber reports of the courier of a paid order.
CourierReports(delivered) ==
    /\ order.courier = "due" /\ order.payment = "paid"
    /\ Write(IF delivered THEN [order EXCEPT !.courier = "delivered"]
             ELSE [order EXCEPT !.fulfil = "reconciliation_required"])
    /\ UNCHANGED <<op, claims>>

-----------------------------------------------------------------------------
Init ==
    /\ \E who \in Csrs \cup {Nobody}, tender \in {"cash", "paypal"}, courier \in {"none", "due"} :
         order = [status |-> "submitted", fulfil |-> "submitted", payment |-> "unpaid",
                  who |-> who, shift |-> IF who = Nobody THEN "none" ELSE "open",
                  accepted |-> FALSE, tender |-> tender, courier |-> courier]
    /\ attempt = "none" /\ onShift = Csrs
    /\ op = [a \in Actors |-> NoOp] /\ kept = 0 /\ claims = {}

Assignment ==
    \/ \E c \in Csrs : ReadAccept(c) \/ WriteAccept(c) \/ Assign(c) \/ MoveShift(c)
    \/ \E c \in Csrs : ClockIn(c) \/ ClockOut(c)
    \/ \E a \in Staff : ReleaseOrder(a)
    \/ \E w \in Csrs \cup {Nobody} : ReadReassign(w)
    \/ ReadStart \/ WriteStart \/ WriteReassign

Progress ==
    \/ \E a \in Staff :
         \/ \E to \in {"completed", "cancelled", "refunded", "reconciliation_required",
                       "archived"} : ReadTransition(a, to)
         \/ \E to \in Stages : ReadFulfil(a, to)
         \/ WriteTransition(a) \/ WriteFulfil(a)
    \/ \E to \in Statuses : PatchStatus(to)
    \/ MarkReady \/ Purge \/ ReadArchive \/ WriteArchive

Payment ==
    \/ \E a \in Staff, session \in BOOLEAN : Closeout(a, session)
    \/ \E outcome \in {"captured", "failed", "review"} : EndCapture(outcome)
    \/ \E delivered \in BOOLEAN : CourierReports(delivered)
    \/ ApplyCredit \/ CreateAttempt \/ BeginCapture \/ Reconcile \/ BuyerCancel \/ Refund

Next == Assignment \/ Progress \/ Payment
Spec == Init /\ [][Next]_vars

-----------------------------------------------------------------------------
(* Every part of the state has its type, and an order in the general queue *)
(* belongs to no shift.                                                    *)
TypeOK ==
    /\ order \in Orders /\ attempt \in Attempts
    /\ onShift \in SUBSET Csrs /\ op \in [Actors -> Ops] /\ kept \in Nat
    /\ claims \in SUBSET Staff
    /\ order.who = Nobody => order.shift = "none"

(* Of several people who accept or start the order at once one wins, and   *)
(* stays its owner until somebody hands it out again: orders.ts:1940 says  *)
(* that two who race "cannot both win".                                    *)
ClaimIsKept ==
    claims # {} =>
      /\ order.accepted
      /\ claims = {IF order.who = Nobody THEN Manager ELSE order.who}

(* No order is completed that was never paid for or whose courier has not  *)
(* delivered it, whatever happened between the check and the write.        *)
CompletedIsDue ==
    order.fulfil = "completed" =>
      order.payment # "unpaid" /\ order.courier # "due"

(* Cash desk, credit and PayPal do not take the total of one order twice,  *)
(* and the order says whether it has been taken.                           *)
PaidOnce == kept = IF order.payment = "paid" THEN 1 ELSE 0

(* A paid order is not cancelled or archived: orders.ts:2811 wants the     *)
(* refund workflow for it, "never an archive-as-cancel shortcut".          *)
PaidNeverCancelled ==
    [][order.payment = "paid" =>
         /\ order'.fulfil = "cancelled" => order.fulfil = "cancelled"
         /\ order'.status \in {"cancelled", "archived"} => order.status = order'.status]_vars
=============================================================================
