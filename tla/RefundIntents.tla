---------------------------- MODULE RefundIntents ----------------------------
(***************************************************************************)
(* The refunds of one PayPal capture: payments/service.ts (prepareRefund,  *)
(* recordRefundProviderResult, finalizeRefund, refund, the refund webhooks *)
(* and reconcile as far as it touches a refunded order), for an order paid *)
(* by PayPal alone.  refund() is not one transaction: it commits the       *)
(* intent, then talks to PayPal without any lock, then commits PayPal's    *)
(* answer, then commits the local effect.  Two staff members, or a retry   *)
(* of the same request, may be anywhere in it at the same time, and only   *)
(* the first and the last of these transactions take the order's lock.     *)
(***************************************************************************)
EXTENDS Integers, FiniteSets

CONSTANTS
    Keys,      \* idempotency keys staff refund under
    Callers,   \* bound: refund requests that may run at once
    MaxHooks,  \* bound: refund webhooks handled at once
    Captured,  \* what the capture took, in units of money
    NoRefund,  \* "no refund identity"
    Exact,     \* does PayPal always report the amount it was asked for?
    Crashes    \* may the process die inside a request?

ASSUME RefundAssumption ==
    /\ IsFiniteSet(Keys)
    /\ MaxHooks \in Nat
    /\ Captured \in Nat \ {0}
    /\ NoRefund \notin Keys
    /\ Exact \in BOOLEAN
    /\ Crashes \in BOOLEAN

VARIABLES
    rows,      \* payment_refunds, one row per idempotency key
    payment,   \* the order's payment_status
    attempt,   \* the state of the captured attempt
    provider,  \* PayPal's refund for each row's request id (external)
    mail,      \* webhook events PayPal keeps delivering (external)
    calls,     \* refund() requests in progress
    hooks,     \* refund webhooks between their read and their write
    recon      \* the reconcile transaction that holds the order's lock

vars == <<rows, payment, attempt, provider, mail, calls, hooks, recon>>

Money == 1 .. Captured
RefundStates == {"requested", "pending", "provider_succeeded", "failed",
                 "locally_finalized", "reconciliation_required"}
Outcomes == {"PENDING", "COMPLETED", "FAILED"}
Identities == Keys \cup {NoRefund}

\* id: the provider_refund_id on the row, named by the row whose request made
\* that refund.
RefundRows == [state : RefundStates \cup {"absent"}, amount : 0 .. Captured,
               id : Identities]
Sides == [status : Outcomes \cup {"none"}, amount : 0 .. Captured,
          asked : BOOLEAN]
Events == [type : Outcomes, key : Keys]
            \cup [type : {"REFUNDED"}, key : {NoRefund}]
Idle == [step |-> "idle", key |-> NoRefund, seen |-> "none"]
Requests == {Idle}
    \cup [step : {"posting", "recorded"}, key : Keys, seen : Outcomes \cup {"none"}]
    \cup [step : {"answered"}, key : Keys, seen : Outcomes]
\* open: the attempt was read as reconciliation_required.
Handlers == [e : [type : Outcomes, key : Keys], target : Keys, open : {FALSE}]
    \cup [e : [type : {"REFUNDED"}, key : {NoRefund}], target : Identities, open : BOOLEAN]
Payments == {"unpaid", "paid", "partially_refunded", "refunded"}
AttemptStates == {"captured", "partially_refunded", "refunded",
                  "reconciliation_required"}

-----------------------------------------------------------------------------
State(k) == rows[k].state

\* The sum of the amounts of the intents S, counted unit by unit.
Units(S) == {u \in S \X Money : u[2] <= rows[u[1]].amount}
Total(S) == Cardinality(Units(S))

Finalized == {k \in Keys : State(k) = "locally_finalized"}

\* The rows that count against what may still be refunded.
Reserving_OnlyDone == {k \in Keys :
    State(k) \in {"provider_succeeded", "locally_finalized"}}
Reserving == {k \in Keys : State(k) \notin {"absent", "failed"}}
Remaining == Captured - Total(Reserving)

LocalState_Verbatim(outcome) == outcome
LocalState(outcome) == CASE outcome = "COMPLETED" -> "provider_succeeded"
                         [] outcome = "PENDING"   -> "pending"
                         [] outcome = "FAILED"    -> "failed"

\* The advisory lock of the order, as far as another transaction may hold it.
Unlocked == recon = "none"

\* payment_refunds_provider_refund_unique: no other row has this identity.
IdentityFree(id, k) == \A j \in Keys \ {k} : rows[j].id # id

Outcome(k, s, id) == [rows EXCEPT ![k] = [@ EXCEPT !.state = s, !.id = id]]
SetState(k, s) == [rows EXCEPT ![k].state = s]
Step(c, s) == [calls EXCEPT ![c].step = s]
Ends(c) == [calls EXCEPT ![c] = Idle]

Init ==
    /\ rows = [k \in Keys |->
                 [state |-> "absent", amount |-> 0, id |-> NoRefund]]
    \* capture settled the order, or kept the charge for reconciliation
    /\ \/ payment = "paid" /\ attempt = "captured"
       \/ payment = "unpaid" /\ attempt = "reconciliation_required"
    /\ provider = [k \in Keys |->
                     [status |-> "none", amount |-> 0, asked |-> FALSE]]
    /\ mail = {}
    /\ calls = [c \in Callers |-> Idle]
    /\ hooks = {}
    /\ recon = "none"

-----------------------------------------------------------------------------
(* refund                                                                   *)

\* prepareRefund of a new key, under the order's lock: the amount (all that
\* remains, when none is given) must fit into what no live intent holds.
Prepare(c, k) ==
    /\ Unlocked /\ calls[c] = Idle /\ State(k) = "absent"
    /\ \E a \in Money :
         /\ a <= Remaining
         /\ rows' = [rows EXCEPT ![k] = [state |-> "requested", amount |-> a,
                                         id |-> NoRefund]]
    /\ calls' = [calls EXCEPT ![c] =
                   [step |-> "posting", key |-> k, seen |-> "none"]]
    /\ UNCHANGED <<payment, attempt, provider, mail, hooks, recon>>

\* A known key resumes its intent: straight to the local effect if PayPal's
\* success is recorded, to PayPal again otherwise.  (A finalized intent, or a
\* different amount, only answers.)
Replay(c, k) ==
    /\ Unlocked /\ calls[c] = Idle
    /\ State(k) \notin {"absent", "locally_finalized"}
    /\ calls' = [calls EXCEPT ![c] =
                   [step |-> IF State(k) = "provider_succeeded"
                             THEN "recorded" ELSE "posting",
                    key |-> k, seen |-> "none"]]
    /\ UNCHANGED <<rows, payment, attempt, provider, mail, hooks, recon>>

\* The POST leaves under the intent's own request id, so sending it again only
\* makes PayPal repeat its answer: a request need not remember that it posted.
Post(c) ==
    /\ calls[c].step = "posting" /\ ~provider[calls[c].key].asked
    /\ provider' = [provider EXCEPT ![calls[c].key].asked = TRUE]
    /\ UNCHANGED <<rows, payment, attempt, mail, calls, hooks, recon>>

Answer(c) ==
    /\ calls[c].step = "posting" /\ provider[calls[c].key].status # "none"
    /\ calls' = [calls EXCEPT ![c] =
                   [step |-> "answered", key |-> calls[c].key,
                    seen |-> provider[calls[c].key].status]]
    /\ UNCHANGED <<rows, payment, attempt, provider, mail, hooks, recon>>

\* No token, refused, timed out or unreadable: the catch writes without a
\* lock and without looking at what the row has become.
Catch(c) ==
    /\ calls[c].step = "posting"
    /\ rows' = SetState(calls[c].key, "reconciliation_required")
    /\ calls' = Ends(c)
    /\ UNCHANGED <<payment, attempt, provider, mail, hooks, recon>>

SameAmount_Unchecked(k) == TRUE
SameAmount(k) == provider[k].amount = rows[k].amount

\* recordRefundProviderResult: no lock, no comparison with the row's state.
Record_AnyIsSuccess(c) ==
    LET k == calls[c].key IN
    /\ calls[c].step = "answered"
    /\ rows' = Outcome(k, "provider_succeeded", k)
    /\ calls' = Step(c, "recorded")
    /\ UNCHANGED <<payment, attempt, provider, mail, hooks, recon>>

Record(c) ==
    LET k == calls[c].key
        s == LocalState(calls[c].seen) IN
    /\ calls[c].step = "answered" /\ SameAmount(k)
    /\ IdentityFree(k, k)
    /\ rows' = Outcome(k, s, k)
    /\ calls' = IF s = "provider_succeeded" THEN Step(c, "recorded") ELSE Ends(c)
    /\ UNCHANGED <<payment, attempt, provider, mail, hooks, recon>>

\* PayPal reported another amount, or another row has the identity: the throw
\* rolls back what was recorded in the same transaction, and nothing catches it.
RecordMismatch(c) ==
    LET k == calls[c].key IN
    /\ calls[c].step = "answered" /\ ~(SameAmount(k) /\ IdentityFree(k, k))
    /\ calls' = Ends(c)
    /\ UNCHANGED <<rows, payment, attempt, provider, mail, hooks, recon>>

\* What the refunds finalized so far, and this one, make of the payment.
FullRefund_WithReserved(k) == Total(Reserving) = Captured
FullRefund_Alone(k) == rows[k].amount = Captured
FullRefund(k) == Total(Finalized \ {k}) + rows[k].amount = Captured

\* finalizeRefund, under the order's lock: order, attempt (and capture) are
\* written whatever they were before.
Finalize(c) ==
    LET k == calls[c].key
        s == IF FullRefund(k) THEN "refunded" ELSE "partially_refunded" IN
    /\ Unlocked /\ calls[c].step = "recorded"
    /\ State(k) = "provider_succeeded"
    /\ rows' = SetState(k, "locally_finalized")
    /\ payment' = s /\ attempt' = s
    /\ calls' = Ends(c)
    /\ UNCHANGED <<provider, mail, hooks, recon>>

\* Somebody else finalized the row, or it is no longer succeeded.
FinalizeRefused(c) ==
    /\ Unlocked /\ calls[c].step = "recorded"
    /\ State(calls[c].key) # "provider_succeeded"
    /\ calls' = Ends(c)
    /\ UNCHANGED <<rows, payment, attempt, provider, mail, hooks, recon>>

\* The process dies, or the connection to the database does.
Crash(c) ==
    /\ Crashes /\ calls[c] # Idle
    /\ calls' = Ends(c)
    /\ UNCHANGED <<rows, payment, attempt, provider, mail, hooks, recon>>

-----------------------------------------------------------------------------
(* Refund webhooks: a lock per event, none on the order.                    *)

\* The intents an event may be about: an event that names a refund is matched
\* by amount, a bare PAYMENT.CAPTURE.REFUNDED by there being only one.
Candidates(e) ==
    IF e.type = "REFUNDED"
    THEN {k \in Keys : State(k) \in {"requested", "reconciliation_required"}}
    ELSE {k \in Keys :
            /\ State(k) \in {"requested", "reconciliation_required", "pending"}
            /\ rows[k].amount = provider[e.key].amount}

\* With no candidate, or several, the event is parked for a later delivery;
\* a bare one is about no intent then, but still about the attempt.
HookReads ==
    \E e \in mail, k \in Identities :
      /\ Cardinality(hooks) < MaxHooks /\ \A h \in hooks : h.e # e
      /\ \/ Candidates(e) = {k}
         \/ e.type = "REFUNDED" /\ k = NoRefund /\ \A j \in Keys : Candidates(e) # {j}
      /\ hooks' = hooks \cup
           {[e |-> e, target |-> k,
             open |-> e.type = "REFUNDED" /\ attempt = "reconciliation_required"]}
      /\ UNCHANGED <<rows, payment, attempt, provider, mail, calls, recon>>

\* PAYMENT.REFUND.*: the row takes the event's identity and outcome, whatever
\* has become of it since it was read; a taken identity aborts the handler.
HookWrites ==
    \E h \in hooks :
      /\ h.e.type # "REFUNDED"
      /\ IdentityFree(h.e.key, h.target)
      /\ rows' = Outcome(h.target, LocalState(h.e.type), h.e.key)
      /\ hooks' = hooks \ {h}
      /\ mail' = mail \ {h.e}
      /\ UNCHANGED <<payment, attempt, provider, calls, recon>>

\* PAYMENT.CAPTURE.REFUNDED names no refund: the intent is only flagged, and
\* the event stays recorded for another delivery.  An attempt that was not
\* finalized when it was read is sent to reconciliation, whatever it is now.
HookFlags ==
    \E h \in hooks :
      /\ h.e.type = "REFUNDED"
      /\ rows' = IF h.target = NoRefund THEN rows
                 ELSE SetState(h.target, "reconciliation_required")
      /\ attempt' = IF h.open THEN "reconciliation_required" ELSE attempt
      /\ hooks' = hooks \ {h}
      /\ UNCHANGED <<payment, provider, mail, calls, recon>>

HookFails ==
    \E h \in hooks :
      /\ hooks' = hooks \ {h}
      /\ UNCHANGED <<rows, payment, attempt, provider, mail, calls, recon>>

-----------------------------------------------------------------------------
(* reconcile, one transaction under the order's lock around PayPal's answer. *)

\* Any completed refund changes the status of PayPal's capture.  (Taking the
\* lock earlier than at the look-up would only keep others out for longer.)
LookUp ==
    /\ Unlocked
    /\ recon' = IF \E k \in Keys : provider[k].status = "COMPLETED"
                THEN "refunded" ELSE "completed"
    /\ UNCHANGED <<rows, payment, attempt, provider, mail, calls, hooks>>

\* A completed capture (re)settles the order; anything else leaves the order
\* and sends the attempt to manual review.
Reconcile ==
    /\ recon # "none" /\ recon' = "none"
    /\ payment' = IF recon = "completed" THEN "paid" ELSE payment
    /\ attempt' = IF recon = "completed" THEN "captured"
                  ELSE "reconciliation_required"
    /\ UNCHANGED <<rows, provider, mail, calls, hooks>>

ReconcileAborts ==
    /\ recon # "none" /\ recon' = "none"
    /\ UNCHANGED <<rows, payment, attempt, provider, mail, calls, hooks>>

-----------------------------------------------------------------------------
(* PayPal (external).  That it would refuse to refund more than it captured *)
(* is not used: the local accounting alone must see to it.                  *)

Decides(k, s) ==
    /\ \E a \in Money :
         /\ Exact => a = rows[k].amount
         /\ provider' = [provider EXCEPT ![k] =
              [status |-> s, asked |-> provider[k].asked,
               amount |-> IF provider[k].status = "none" THEN a
                          ELSE provider[k].amount]]
    /\ mail' = mail \cup {[type |-> s, key |-> k]} \cup
         (IF s = "COMPLETED" THEN {[type |-> "REFUNDED", key |-> NoRefund]} ELSE {})
    /\ UNCHANGED <<rows, payment, attempt, calls, hooks, recon>>

ProviderRefunds(k) ==
    /\ provider[k].asked /\ provider[k].status = "none"
    /\ \E s \in Outcomes : Decides(k, s)

ProviderSettles(k) ==
    /\ provider[k].status = "PENDING"
    /\ \E s \in {"COMPLETED", "FAILED"} : Decides(k, s)

-----------------------------------------------------------------------------
Requesting == \E c \in Callers :
    \/ \E k \in Keys : Prepare(c, k) \/ Replay(c, k)
    \/ Post(c) \/ Answer(c) \/ Catch(c) \/ Record(c) \/ RecordMismatch(c)
    \/ Finalize(c) \/ FinalizeRefused(c) \/ Crash(c)
Webhooks == HookReads \/ HookWrites \/ HookFlags \/ HookFails
Reconciling == LookUp \/ Reconcile \/ ReconcileAborts
World == \E k \in Keys : ProviderRefunds(k) \/ ProviderSettles(k)

Next == Requesting \/ Webhooks \/ Reconciling \/ World

Spec == Init /\ [][Next]_vars

-----------------------------------------------------------------------------
(* Properties.                                                             *)

\* Every variable keeps its type.
TypeOK ==
    /\ rows \in [Keys -> RefundRows]
    /\ payment \in Payments
    /\ attempt \in AttemptStates
    /\ provider \in [Keys -> Sides]
    /\ mail \subseteq Events
    /\ calls \in [Callers -> Requests]
    /\ hooks \subseteq Handlers
    /\ recon \in {"none", "completed", "refunded"}

\* Whatever lost answers, retries and parallel requests, what PayPal has paid
\* back or may still pay back never exceeds what it captured.
ProviderWithinCapture ==
    Total({k \in Keys : provider[k].asked /\ provider[k].status # "FAILED"})
      <= Captured

\* A row never takes the identity of another intent's refund, though webhooks
\* are matched to intents by amount only.
IdentityMatches == \A k \in Keys : rows[k].id \in {NoRefund, k}

\* A refund that is locally final has really been paid out, whoever wrote the
\* row last.
FinalizedIsBacked ==
    \A k \in Keys : State(k) \in {"provider_succeeded", "locally_finalized"} =>
      provider[k].status = "COMPLETED"

\* An intent counts as failed, which frees its amount for another refund,
\* only once PayPal's refund of it has failed for good.
FailedIsFinal ==
    \A k \in Keys : State(k) = "failed" => provider[k].status = "FAILED"

\* The order is called refunded only when PayPal has paid back all of the
\* capture, and partially refunded only when it has paid back some of it.
RefundIsBacked ==
    LET paidBack == Total({k \in Keys : provider[k].status = "COMPLETED"}) IN
    /\ payment = "refunded" => paidBack = Captured
    /\ payment = "partially_refunded" => paidBack > 0

\* Once every refund PayPal made is locally final, the order says what they
\* amount to, in whatever order and by whomever they were finalized; and the
\* attempt says the same, unless it was sent to manual review.
BooksAgree ==
    (\A k \in Keys : provider[k].status = "COMPLETED" => k \in Finalized) =>
      /\ payment = "refunded" <=> Total(Finalized) = Captured
      /\ payment = "partially_refunded" <=> Total(Finalized) \in 1 .. Captured - 1
      /\ attempt = "refunded" => payment = "refunded"
      /\ attempt = "partially_refunded" => payment = "partially_refunded"

\* No reconciliation, however slow, turns a refunded order back into a paid
\* one: its answer from PayPal cannot be older than a finalized refund.
RefundedNeverPaid ==
    [][(payment \in {"partially_refunded", "refunded"}) =>
         payment' \in {"partially_refunded", "refunded"}]_vars

\* No refund is taken for done with another amount than PayPal reports of the
\* refund whose identity the row has, if only the amount tells whose that is:
\* neither the answer nor a webhook makes one locally final.
FinalizedIsExact == \A k \in Finalized :
    rows[k].id \in Keys /\ rows[k].amount = provider[rows[k].id].amount

=============================================================================
