---------------------------- MODULE UberFulfillment ----------------------------
(***************************************************************************)
(* The Uber Direct courier of one order: lib/uberFulfillment.ts and        *)
(* routes/uber-direct-webhooks.ts.                                         *)
(*                                                                         *)
(* A courier costs money and cannot be called back, so the row of          *)
(* uber_delivery_fulfillments is claimed state by state: every write names *)
(* the state it was decided on and gives up when it is gone.  op[w] is the *)
(* request a worker has under way between two statements.  Only a webhook  *)
(* locks the row.                                                          *)
(***************************************************************************)
EXTENDS Integers, Sequences, FiniteSets

CONSTANTS
    Workers,     \* requests under way at once
    Reports,     \* the delivery statuses Uber gets to
    Outside,     \* deliveries for this order made outside the program, by hand
    MaxPosts,    \* bound: calls that create a courier
    MaxCrashes   \* bound: requests cut off by the end of their process

Progress == <<"pending", "pickup", "pickup_complete", "dropoff", "delivered">>
Failures == {"canceled", "returned", "failed"}
Over == Failures \cup {"delivered"}
Statuses == {Progress[i] : i \in 1..5} \cup Failures

ASSUME FulfillmentAssumption ==
    /\ Reports \subseteq Statuses /\ {Outside, MaxPosts, MaxCrashes} \subseteq Nat

VARIABLES
    order,   \* payment_status and fulfillment_status of the order
    flagged, \* whether the order has been put on reconciliation_required
    quote,   \* the delivery quote the row refers to
    row,     \* the row of uber_delivery_fulfillments; id 0: no provider id
    uber,    \* the deliveries at Uber that carry this order's reference
    crowded, \* whether the tenant has more deliveries than a look-up reads
    handled, \* rows of uber_delivery_webhook_events
    posts,   \* how often Uber was asked to create a delivery
    crashes, \* how often a request was cut off
    op       \* what each worker has under way

vars == <<order, flagged, quote, row, uber, crowded, handled, posts, crashes, op>>

Couriers == 1..(MaxPosts + Outside)
RowStates == {"payment_pending", "awaiting_staff_request", "staff_requesting",
              "delivery_create_pending", "creating", "reconciliation_required",
              "manual_reconciliation_required", "configuration_required",
              "requote_required", "delivery_created", "canceling",
              "cancel_reconciliation_required"} \cup Over
Orders == [payment : {"unpaid", "paid", "refunded"},
           stage : {"preparing", "ready", "reconciliation_required", "closed"}]
Rows == [state : RowStates, id : Nat, status : Statuses \cup {"none"}]
\* had: every status so far, each announced by a webhook.  ours: made from the
\* quote of the row.  listed: shown by the list of deliveries, which lags.
Deliveries == [status : Statuses, had : SUBSET Statuses, ours : BOOLEAN, listed : BOOLEAN]

\* got: Uber's answer, a delivery and its status or how the lookup ended.
NoAnswer == [id |-> 0, status |-> "none"]
Answers == [id : Nat, status : Statuses \cup {"none", "several"}]
FirstRow == [state |-> "payment_pending", id |-> 0, status |-> "none"]
NoOp == [job |-> "none", at |-> "none", seen |-> FirstRow, got |-> NoAnswer]
Ops == [job : {"none", "request", "reconcile", "cancel"},
        at : {"none", "claim", "quote", "dispatch", "send", "sent", "ask", "answered", "flag"},
        seen : Rows, got : Answers]

Init ==
    /\ order = [payment |-> "unpaid", stage |-> "preparing"] /\ flagged = FALSE
    /\ quote = "fresh" /\ row = FirstRow /\ uber = << >> /\ crowded = FALSE /\ handled = {}
    /\ posts = 0 /\ crashes = 0 /\ op = [w \in Workers |-> NoOp]

-----------------------------------------------------------------------------
(* Delivery statuses.                                                      *)
Rank(status) == CHOOSE i \in 1..5 : Progress[i] = status

\* nextUberDeliveryStatus: whether a status that comes in replaces the one kept.
Advances(kept, incoming) ==
    /\ kept # incoming /\ kept \notin Over
    /\ \/ incoming \in Failures \/ kept = "none"
       \/ /\ incoming \notin Failures /\ kept # "none"
          /\ Rank(incoming) > Rank(kept)

\* The row of a delivery that has an id now, in "pending" if nothing else is said.
Adopted(got) == [state |-> "delivery_created", id |-> got.id, status |-> got.status]

\* The state that goes with a status, but for a cancellation under way.
StateOf(status) == IF status \in Over THEN status ELSE "delivery_created"
CancelInFlight(state) == state \in {"canceling", "cancel_reconciliation_required"}

-----------------------------------------------------------------------------
(* Requests, and the order's other handlers.                               *)
Start(w, job, at) ==
    /\ op[w] = NoOp
    /\ op' = [op EXCEPT ![w] = [NoOp EXCEPT !.job = job, !.at = at, !.seen = row]]
    /\ UNCHANGED <<order, flagged, quote, row, uber, crowded, handled, posts, crashes>>

At(w, job, at) == op[w].job = job /\ op[w].at = at
Goto(w, at) == op' = [op EXCEPT ![w].at = at]
Done(w) == op' = [op EXCEPT ![w] = NoOp]
Set(state) == row' = [row EXCEPT !.state = state]

\* UPDATE ... WHERE request_state = what was read.
Unchanged_Any(w) == TRUE
Unchanged(w) == row.state = op[w].seen.state

Pay ==
    /\ order.payment = "unpaid"
    /\ order' = [order EXCEPT !.payment = "paid"]
    /\ UNCHANGED <<flagged, quote, row, uber, crowded, handled, posts, crashes, op>>

MarkReady ==
    /\ order.stage # "ready"
    /\ order' = [order EXCEPT !.stage = "ready"]
    /\ UNCHANGED <<flagged, quote, row, uber, crowded, handled, posts, crashes, op>>

Close ==
    /\ order.stage # "closed"
    /\ \/ order' = [order EXCEPT !.stage = "closed"]
       \/ order.payment = "paid" /\ order' = [payment |-> "refunded", stage |-> "closed"]
    /\ UNCHANGED <<flagged, quote, row, uber, crowded, handled, posts, crashes, op>>

\* queueUberDeliveryForPaidOrder, after the payment and not within it.
Queue ==
    /\ order.payment = "paid" /\ row.state = "payment_pending"
    /\ Set("awaiting_staff_request")
    /\ UNCHANGED <<order, flagged, quote, uber, crowded, handled, posts, crashes, op>>

Expire ==
    /\ quote = "fresh" /\ quote' = "expired"
    /\ UNCHANGED <<order, flagged, row, uber, crowded, handled, posts, crashes, op>>

\* The second statement of those that end a courier, or lose one.
Flag(w) ==
    /\ op[w].at = "flag" /\ Done(w)
    /\ LET reached == order.payment = "paid" \/ op[w].job = "cancel"
       IN /\ order' = IF reached THEN [order EXCEPT !.stage = "reconciliation_required"] ELSE order
          /\ flagged' = (flagged \/ reached)
    /\ UNCHANGED <<quote, row, uber, crowded, handled, posts, crashes>>

Crash(w) ==
    /\ op[w] # NoOp /\ Done(w)
    /\ crashes < MaxCrashes /\ crashes' = crashes + 1
    /\ UNCHANGED <<order, flagged, quote, row, uber, crowded, handled, posts>>

-----------------------------------------------------------------------------
(* requestUberDelivery and dispatchPendingUberDelivery: staff call for the *)
(* courier of an order that is ready and paid for.                         *)
ReadRequest(w) ==
    /\ order.stage = "ready" /\ order.payment = "paid"
    /\ row.id = 0 /\ row.state \in {"awaiting_staff_request", "payment_pending"}
    /\ Start(w, "request", "claim")

ClaimRequest(w) ==
    /\ At(w, "request", "claim")
    /\ IF Unchanged(w) /\ row.id = 0
       THEN Set("staff_requesting") /\ Goto(w, "quote")
       ELSE Done(w) /\ UNCHANGED row
    /\ UNCHANGED <<order, flagged, quote, uber, crowded, handled, posts, crashes>>

\* A quote that has run out is asked for again, and must cost the same.
Requote(w, outcome) ==
    /\ At(w, "request", "quote")
    /\ (outcome = "kept") <=> (quote = "fresh")
    /\ LET held == row.state = "staff_requesting"
           next == CASE outcome \in {"kept", "refreshed"} -> "delivery_create_pending"
                     [] outcome = "mismatch" -> "manual_reconciliation_required"
                     [] outcome = "unavailable" -> "requote_required"
       IN /\ IF held THEN Set(next) ELSE UNCHANGED row
          /\ IF next = "delivery_create_pending" THEN Goto(w, "dispatch") ELSE Done(w)
          /\ quote' = IF outcome = "refreshed" THEN "fresh" ELSE quote
    /\ UNCHANGED <<order, flagged, uber, crowded, handled, posts, crashes>>

\* An order no longer ready or paid, or without the contact the courier needs,
\* stops here; it is not looked at again.
Dispatch(w) ==
    /\ At(w, "request", "dispatch")
    /\ IF row.id # 0 \/ row.state # "delivery_create_pending"
       THEN Done(w) /\ UNCHANGED row
       ELSE IF order.stage # "ready" \/ order.payment # "paid"
       THEN Set("configuration_required") /\ Done(w)
       ELSE IF quote = "expired"
       THEN Set("requote_required") /\ Goto(w, "flag")
       ELSE Goto(w, "send") /\ UNCHANGED row
    /\ UNCHANGED <<order, flagged, quote, uber, crowded, handled, posts, crashes>>

Delivery(ours) == [status |-> "pending", had |-> {"pending"}, ours |-> ours, listed |-> FALSE]

\* made: whether the call gets through to Uber.
Send(w, made) ==
    /\ At(w, "request", "send")
    /\ IF row.state = "delivery_create_pending"
       THEN /\ posts < MaxPosts /\ posts' = posts + 1
            /\ Set("creating")
            /\ uber' = IF made THEN Append(uber, Delivery(TRUE)) ELSE uber
            /\ op' = [op EXCEPT ![w].at = "sent",
                                ![w].got = IF made THEN [id |-> Len(uber'), status |-> "pending"]
                                           ELSE NoAnswer]
       ELSE Done(w) /\ UNCHANGED <<row, uber, posts>>
    /\ UNCHANGED <<order, flagged, quote, crowded, handled, crashes>>

\* The answer, an error, or the timeout after twenty seconds.
Created(w, arrives) ==
    /\ At(w, "request", "sent") /\ (arrives => op[w].got.id # 0) /\ Done(w)
    /\ row' = IF row.state # "creating" THEN row
              ELSE IF arrives THEN Adopted(op[w].got)
              ELSE [row EXCEPT !.state = "reconciliation_required"]
    /\ UNCHANGED <<order, flagged, quote, uber, crowded, handled, posts, crashes>>

-----------------------------------------------------------------------------
(* reconcileUberDelivery: an operator has Uber asked what became of it.    *)
Reconcilable_Settled == {"reconciliation_required", "manual_reconciliation_required",
                         "canceling", "cancel_reconciliation_required"}
Reconcilable == {"creating", "reconciliation_required", "manual_reconciliation_required",
                 "canceling", "cancel_reconciliation_required"}

ReadReconcile(w) == row.state \in Reconcilable /\ Start(w, "reconcile", "ask")

Matches == {d \in DOMAIN uber : uber[d].ours /\ uber[d].listed}

\* By its id, or by its reference among the first five pages of the tenant's
\* deliveries.  When these were not all, a delivery they show is not taken, and
\* two may be among them or not.
Several == [NoAnswer EXCEPT !.status = "several"]
LookedUp(known) ==
    LET state(d) == [id |-> d, status |-> uber[d].status]
    IN IF known # 0 THEN {state(known)}
       ELSE IF Cardinality(Matches) > 1 THEN {Several} \cup (IF crowded THEN {NoAnswer} ELSE {})
       ELSE IF crowded \/ Matches = {} THEN {NoAnswer}
       ELSE {state(d) : d \in Matches}

Lookup(w) ==
    /\ At(w, "reconcile", "ask")
    /\ \E got \in LookedUp(op[w].seen.id) :
         op' = [op EXCEPT ![w].at = "answered", ![w].got = got]
    /\ UNCHANGED <<order, flagged, quote, row, uber, crowded, handled, posts, crashes>>

\* Uber does not answer, and the request ends.
LookupFails(w) ==
    /\ At(w, "reconcile", "ask") /\ Done(w)
    /\ UNCHANGED <<order, flagged, quote, row, uber, crowded, handled, posts, crashes>>

\* What becomes of the row, or the row itself when nothing does.
Resolved(seen, got) ==
    LET manual == [row EXCEPT !.state = "manual_reconciliation_required"]
    IN CASE got.id = 0 -> manual
         [] got.id # 0 /\ seen.id = 0 ->
              IF row.id = 0 THEN Adopted(got) ELSE row
         [] got.id # 0 /\ seen.id # 0 ->
              IF ~uber[got.id].ours THEN manual
              ELSE IF \/ ~Advances(seen.status, got.status) /\ got.status # seen.status
                      \/ CancelInFlight(seen.state) /\ got.status \notin Over
              THEN row
              ELSE [row EXCEPT !.state = StateOf(got.status), !.status = got.status]

\* A courier that is lost or came to grief goes to the staff who have the order.
Concerns_Lost(got, state) == got = NoAnswer
Concerns(got, state) == got = NoAnswer \/ state \in Failures

Reconcile(w) ==
    /\ At(w, "reconcile", "answered")
    /\ LET got == op[w].got
           new == IF Unchanged(w) THEN Resolved(op[w].seen, got) ELSE row
       IN /\ row' = new
          /\ IF Unchanged(w) /\ Concerns(got, new.state)
             THEN Goto(w, "flag") ELSE Done(w)
    /\ UNCHANGED <<order, flagged, quote, uber, crowded, handled, posts, crashes>>

-----------------------------------------------------------------------------
(* requestUberCancellation: the customer or staff send the courier away.   *)
ReadCancel(w) ==
    /\ row.id # 0 /\ row.status \in {"pending", "pickup"}
    /\ row.state # "canceled" /\ ~CancelInFlight(row.state)
    /\ Start(w, "cancel", "claim")

ClaimCancel(w) ==
    /\ At(w, "cancel", "claim")
    /\ IF row.state = "delivery_created" THEN Set("canceling") /\ Goto(w, "ask")
       ELSE Done(w) /\ UNCHANGED row
    /\ UNCHANGED <<order, flagged, quote, uber, crowded, handled, posts, crashes>>

AskCancel(w, agreed) ==
    /\ At(w, "cancel", "ask")
    /\ LET d == op[w].seen.id
       IN /\ agreed => uber[d].status \in {"pending", "pickup"}
          /\ uber' = IF agreed
                     THEN [uber EXCEPT ![d].status = "canceled", ![d].had = @ \cup {"canceled"}]
                     ELSE uber
          /\ op' = [op EXCEPT ![w].at = "answered",
                              ![w].got = [id |-> d, status |-> uber'[d].status]]
    /\ UNCHANGED <<order, flagged, quote, row, crowded, handled, posts, crashes>>

Confirms_Any(answer, status) == answer = "status"
Confirms(answer, status) == answer = "status" /\ status = "canceled"

\* The answer is written as it came, or without a status the one read before.
Cancel(w, answer) ==
    /\ At(w, "cancel", "answered")
    /\ LET status == CASE answer = "status" -> op[w].got.status
                       [] answer = "no status" -> op[w].seen.status
                       [] answer = "lost" -> row.status
           ended == Confirms(answer, status)
       IN IF row.state = "canceling"
          THEN /\ row' = [row EXCEPT !.status = status,
                            !.state = IF ended THEN "canceled" ELSE "cancel_reconciliation_required"]
               /\ IF ended THEN Goto(w, "flag") ELSE Done(w)
          ELSE Done(w) /\ UNCHANGED row
    /\ UNCHANGED <<order, flagged, quote, uber, crowded, handled, posts, crashes>>

-----------------------------------------------------------------------------
(* Uber: its deliveries, and the webhooks that may be late, lost, repeated *)
(* and out of order.                                                       *)
Move(d, status) ==
    /\ d \in DOMAIN uber /\ Advances(uber[d].status, status)
    /\ uber' = [uber EXCEPT ![d].status = status, ![d].had = @ \cup {status}]
    /\ UNCHANGED <<order, flagged, quote, row, crowded, handled, posts, crashes, op>>

List(d) ==
    /\ d \in DOMAIN uber /\ ~uber[d].listed
    /\ uber' = [uber EXCEPT ![d].listed = TRUE]
    /\ UNCHANGED <<order, flagged, quote, row, crowded, handled, posts, crashes, op>>

MakeOutside ==
    /\ Cardinality({d \in DOMAIN uber : ~uber[d].ours}) < Outside
    /\ uber' = Append(uber, Delivery(FALSE))
    /\ UNCHANGED <<order, flagged, quote, row, crowded, handled, posts, crashes, op>>

\* The list has no filter, and what is on it stays.
Crowd ==
    /\ ~crowded /\ crowded' = TRUE
    /\ UNCHANGED <<order, flagged, quote, row, uber, handled, posts, crashes, op>>

Ours_Any(d) == TRUE
Ours(d) == row.id \in {0, d}

Webhook(d, status) ==
    /\ d \in DOMAIN uber /\ status \in uber[d].had
    /\ Ours(d) /\ <<d, status>> \notin handled
    /\ handled' = handled \cup {<<d, status>>}
    /\ LET news == Advances(row.status, status)
           ends == news /\ status \in Failures
       IN /\ row' = IF ~news THEN row
                    ELSE [id |-> d, status |-> status,
                          state |-> IF status \notin Over /\ CancelInFlight(row.state)
                                    THEN row.state ELSE StateOf(status)]
          /\ order' = IF ends THEN [order EXCEPT !.stage = "reconciliation_required"] ELSE order
          /\ flagged' = (flagged \/ ends)
    /\ UNCHANGED <<quote, uber, crowded, posts, crashes, op>>

-----------------------------------------------------------------------------
Request(w) ==
    \/ ReadRequest(w) \/ ClaimRequest(w) \/ Dispatch(w)
    \/ \E outcome \in {"kept", "refreshed", "mismatch", "unavailable"} : Requote(w, outcome)
    \/ \E made \in BOOLEAN : Send(w, made)
    \/ \E arrives \in BOOLEAN : Created(w, arrives)

Recover(w) == ReadReconcile(w) \/ Lookup(w) \/ LookupFails(w) \/ Reconcile(w)

Cancellation(w) ==
    \/ ReadCancel(w) \/ ClaimCancel(w)
    \/ \E agreed \in BOOLEAN : AskCancel(w, agreed)
    \/ \E answer \in {"status", "no status", "lost"} : Cancel(w, answer)

Environment ==
    \/ Pay \/ MarkReady \/ Close \/ Queue \/ Expire \/ MakeOutside \/ Crowd
    \/ \E d \in Couriers : List(d) \/ \E s \in Reports : Move(d, s) \/ Webhook(d, s)

Next ==
    \/ \E w \in Workers : Request(w) \/ Recover(w) \/ Cancellation(w) \/ Flag(w) \/ Crash(w)
    \/ Environment

\* Uber lists a delivery in the end and answers one who asks again and again, a
\* request that is not cut off goes on, and an operator keeps reconciling.
\* Nothing says that a look-up gets to see all deliveries.
Fairness ==
    /\ \A d \in Couriers : WF_vars(List(d))
    /\ \A w \in Workers :
         /\ WF_vars(Request(w)) /\ WF_vars(Cancellation(w)) /\ WF_vars(Flag(w))
         /\ SF_vars(ReadReconcile(w)) /\ SF_vars(Lookup(w)) /\ WF_vars(Reconcile(w))

Spec == Init /\ [][Next]_vars /\ Fairness

-----------------------------------------------------------------------------
(* Every part of the state has its type, and the row has a delivery status *)
(* exactly when it has a delivery, which is one at Uber.                   *)
TypeOK ==
    /\ order \in Orders /\ {flagged, crowded} \subseteq BOOLEAN /\ quote \in {"fresh", "expired"}
    /\ row \in Rows /\ uber \in Seq(Deliveries) /\ handled \subseteq Nat \X Statuses
    /\ posts \in 0..MaxPosts /\ crashes \in 0..MaxCrashes /\ op \in [Workers -> Ops]
    /\ row.id = 0 <=> row.status = "none"
    /\ row.id \in {0} \cup DOMAIN uber

(* Uber is asked for a courier once, however many staff call for one and   *)
(* whatever became of the first call: "Never issue a second create until a *)
(* provider lookup has reconciled the first attempt" (uberFulfillment.ts:12)*)
(* and there is no way back to one from there.                             *)
OneCreate == posts <= 1

(* What the row says of its courier is true: the status is one that this   *)
(* delivery has had, and if the row says that it is over, it ended so.  An *)
(* order is completed on the strength of it.                               *)
CourierIsTrue ==
    row.id # 0 =>
      /\ row.status \in uber[row.id].had
      /\ row.state \in Over => row.status = row.state /\ uber[row.id].status = row.state

(* A paid order whose courier, by the status the row has of it, was canceled,*)
(* failed or returned has been put on reconciliation, or a request is about *)
(* to do it, or an operator still has the row to reconcile.  There are two   *)
(* exceptions.  A process ended: between the statement that writes the       *)
(* courier's end and the one that flags the order nothing remembers the      *)
(* second.  And a delivery that was over before reconcile found it: it is    *)
(* taken as delivery_created whatever its status (uberFulfillment.ts:204),   *)
(* and the webhook of its end is no news then (uberDeliveryState.ts:9).      *)
FoundEnded == row.state = "delivery_created"
EndIsFlagged ==
    row.status \in Failures /\ order.payment = "paid" /\ row.state \notin Reconcilable =>
      \/ flagged \/ \E w \in Workers : op[w].at = "flag"
      \/ crashes > 0 \/ FoundEnded

(* The order keeps the delivery it has, also when another with the same     *)
(* reference turns up at Uber.                                             *)
KeepsCourier == [][row.id # 0 => row'.id = row.id]_vars

(* A courier that was made is found, even if the answer never came: an     *)
(* operator who keeps reconciling gets its id into the row, unless the     *)
(* tenant's deliveries outgrow the five pages of a hundred that a look-up  *)
(* reads.  From then on no look-up is complete, what it shows is dropped    *)
(* (uberFulfillment.ts:203), and only a webhook can tell.                  *)
CourierIsFound == (\E d \in DOMAIN uber : uber[d].ours) ~> row.id # 0 \/ crowded
=============================================================================
