-------------------------------- MODULE Returns --------------------------------
(***************************************************************************)
(* The returns of one paid order: routes/returns.ts and the arithmetic of  *)
(* lib/refundAccounting.ts.  An order was paid with customer credit, cash  *)
(* or PayPal, or credit and one of the others, and every return gives each *)
(* tender back its share, so that all of them together come out exact.     *)
(*                                                                         *)
(* A return by cash or credit is one transaction under the order's lock.   *)
(* A return with a part for PayPal commits an intent, asks PayPal without  *)
(* a lock, commits the answer, and finishes in two more transactions; it   *)
(* is resumed, from wherever it stopped, by posting the same key again.    *)
(***************************************************************************)
EXTENDS Integers, FiniteSets

CONSTANTS
    Lines,    \* lines of the order
    Quantity, \* units of a line
    Amount,   \* what a line cost, discount deducted, in cents
    Tax,      \* its tax
    Total,    \* what the order cost: the lines, their tax, delivery and tip
    Keys,     \* idempotency keys returns are posted under
    Callers   \* bound: requests and webhooks at work on refunds at PayPal

ASSUME ReturnsAssumption ==
    /\ IsFiniteSet(Lines) /\ IsFiniteSet(Keys)
    /\ Quantity \in [Lines -> Nat \ {0}] /\ Amount \in [Lines -> Nat] /\ Tax \in [Lines -> Nat]
    /\ Total \in Nat \ {0}

VARIABLES
    order,    \* its payment status, how it was paid, and whether its shift is active
    ret,      \* return_transactions
    returned, \* units of each line in completed returns
    given,    \* cents the ledgers say went back, per tender
    refund,   \* payment_refunds: the state of each return's refund at PayPal
    made,     \* what has become of that refund at PayPal (external)
    calls     \* requests and webhooks between two statements

vars == <<order, ret, returned, given, refund, made, calls>>

Tenders == {"credit", "external"}
Orders == [payment : {"paid", "partially_refunded", "refunded"}, credit : 0..Total,
           external : {"cash", "paypal"}, shift : BOOLEAN]
RefundStates == {"none", "requested", "pending", "provider_succeeded", "failed",
                 "reconciliation_required", "locally_finalized"}
Outcomes == {"pending", "provider_succeeded", "failed"}
\* tender, value and paypal are columns; units are the return's lines.
Rows == [status : {"none", "pending", "completed"}, tender : {"credit", "cash", "paypal"},
         value : Nat, paypal : Nat, units : [Lines -> Nat]]
NoRow == [status |-> "none", tender |-> "credit", value |-> 0, paypal |-> 0,
          units |-> [l \in Lines |-> 0]]
Steps == {"prepare", "ask", "record", "lost", "told", "finalize", "complete"}
Calls == [key : Keys, at : Steps, seen : {"none"} \cup Outcomes]
Idle == [at |-> "idle"]

Init ==
    /\ order \in {o \in Orders : o.payment = "paid"}
    /\ ret = [k \in Keys |-> NoRow] /\ returned = [l \in Lines |-> 0]
    /\ given = [t \in Tenders |-> 0]
    /\ refund = [k \in Keys |-> "none"] /\ made = [k \in Keys |-> "none"]
    /\ calls = [c \in Callers |-> Idle]

-----------------------------------------------------------------------------
(* lib/refundAccounting.ts.                                                *)

Paid(t) == IF t = "credit" THEN order.credit ELSE Total - order.credit

\* allocateCentsByWeight for two sources: whole cents first, then the one that
\* is left to the larger remainder; on a tie to the name that sorts first.
Whole(a, w) == (a * w) \div Total
Rest(a, w) == (a * w) % Total
Left(a) == a - Whole(a, Paid("credit")) - Whole(a, Paid("external"))
CreditFirst(a) ==
    \/ Rest(a, Paid("credit")) > Rest(a, Paid("external"))
    \/ Rest(a, Paid("credit")) = Rest(a, Paid("external")) /\ order.external = "paypal"
Share(t, a) ==
    Whole(a, Paid(t)) + IF Left(a) > 0 /\ (CreditFirst(a) <=> t = "credit") THEN 1 ELSE 0

Sum(f) == f["credit"] + f["external"]

\* allocateProportionalRefund: what is due now, after before, and when it refuses.
Due_Fresh(t, a, before) == Share(t, a)
Due(t, a, before) == Share(t, Sum(before) + a) - before[t]
Divisible(a, before) ==
    Sum(before) + a <= Total /\ \A t \in Tenders : Due(t, a, before) >= 0

\* allocateCumulativeQuantityCents, from no units to n of them; rounds half up.
Cents(cents, of, n) == (2 * cents * n + of) \div (2 * of)
Value_Fresh(l, n, m) == Cents(Amount[l], Quantity[l], m) + Cents(Tax[l], Quantity[l], m)
Value(l, n, m) ==
    Cents(Amount[l], Quantity[l], n + m) - Cents(Amount[l], Quantity[l], n)
      + Cents(Tax[l], Quantity[l], n + m) - Cents(Tax[l], Quantity[l], n)
\* The lines' values added up: the cents of all lines, counted.
Pieces(size) == UNION {{x} \X (1..size[x]) : x \in DOMAIN size}
Worth(from, units) == Cardinality(Pieces([l \in Lines |-> Value(l, from[l], units[l])]))

-----------------------------------------------------------------------------
(* POST /orders/:id/returns.                                               *)

\* Refunds that hold their cents at PayPal: all but those that never were, failed
\* or are through.
Active == {k \in Keys : refund[k] \notin {"none", "failed", "locally_finalized"}}
Waiting_ForCash == {k \in Keys : ret[k].status = "pending" /\ ret[k].tender # "paypal"}
Waiting == {k \in Keys : ret[k].status = "pending"}

Status(sum) == IF sum >= Total THEN "refunded" ELSE "partially_refunded"

Returnable(k, units) ==
    /\ ret[k].status = "none" /\ order.payment # "refunded"
    /\ Active = {} /\ Waiting = {}
    /\ \A l \in Lines : returned[l] + units[l] <= Quantity[l]
    /\ Worth(returned, units) > 0 /\ Divisible(Worth(returned, units), given)

Row(k, units, status, tender, paypal) ==
    ret' = [ret EXCEPT ![k] = [status |-> status, tender |-> tender,
              value |-> Worth(returned, units), paypal |-> paypal, units |-> units]]

ByPayPal(a) == order.external = "paypal" /\ Due("external", a, given) > 0
ByCash(a) == order.external = "cash" /\ Due("external", a, given) > 0

\* All at once: credit, and cash out of the order's own shift.
Return(k, units) ==
    /\ Returnable(k, units)
    /\ LET a == Worth(returned, units)
       IN /\ ~ByPayPal(a) /\ (ByCash(a) => order.shift)
          /\ Row(k, units, "completed", IF ByCash(a) THEN "cash" ELSE "credit", 0)
          /\ given' = [t \in Tenders |-> given[t] + Due(t, a, given)]
          /\ order' = [order EXCEPT !.payment = Status(Sum(given) + a)]
    /\ returned' = [l \in Lines |-> returned[l] + units[l]]
    /\ UNCHANGED <<refund, made, calls>>

\* Without an active shift the handler answers 409, but returns, so that what it
\* did so far is committed: the row, without lines, and the credit's part.
Refuse(k, units) ==
    /\ Returnable(k, units) /\ ByCash(Worth(returned, units)) /\ ~order.shift
    /\ Row(k, units, "pending", "cash", 0)
    /\ given' = [given EXCEPT !["credit"] = @ + Due("credit", Worth(returned, units), given)]
    /\ UNCHANGED <<order, returned, refund, made, calls>>

Call(c, k, at, seen) == calls' = [calls EXCEPT ![c] = [key |-> k, at |-> at, seen |-> seen]]
Goto(c, at) == calls' = [calls EXCEPT ![c].at = at]
Ends(c) == calls' = [calls EXCEPT ![c] = Idle]

\* With a part for PayPal the row, its lines and the intent are committed.
Begin(c, k, units) ==
    /\ calls[c].at = "idle" /\ Returnable(k, units) /\ ByPayPal(Worth(returned, units))
    /\ LET part == Due("external", Worth(returned, units), given)
       IN /\ part <= Paid("external") - given["external"]
          /\ Row(k, units, "pending", "paypal", part)
    /\ refund' = [refund EXCEPT ![k] = "requested"]
    /\ Call(c, k, "prepare", "none")
    /\ UNCHANGED <<order, returned, given, made>>

\* The same key again, whatever lines come with it.
Resume(c, k) ==
    /\ calls[c].at = "idle" /\ ret[k].status = "pending" /\ ret[k].tender = "paypal"
    /\ Call(c, k, "prepare", "none")
    /\ UNCHANGED <<order, ret, returned, given, refund, made>>

-----------------------------------------------------------------------------
(* PaymentService.refund, and webhooks.                                    *)

Prepare(c) ==
    /\ calls[c].at = "prepare"
    /\ Goto(c, CASE refund[calls[c].key] = "locally_finalized" -> "complete"
                 [] refund[calls[c].key] = "provider_succeeded" -> "finalize"
                 [] OTHER -> "ask")
    /\ UNCHANGED <<order, ret, returned, given, refund, made>>

\* PayPal makes one refund per request id, and reports on it from then on.
Ask(c) ==
    /\ calls[c].at = "ask"
    /\ \E o \in Outcomes :
         /\ made[calls[c].key] \in {"none", o}
         /\ made' = [made EXCEPT ![calls[c].key] = o]
         /\ \E at \in {"record", "lost"} : Call(c, calls[c].key, at, o)
    /\ UNCHANGED <<order, ret, returned, given, refund>>

Settle(k) ==
    /\ made[k] = "pending"
    /\ \E o \in {"provider_succeeded", "failed"} : made' = [made EXCEPT ![k] = o]
    /\ UNCHANGED <<order, ret, returned, given, refund, calls>>

\* A refund's row is written by its id alone.  One that was through no longer counts.
Write(k, state) ==
    /\ refund' = [refund EXCEPT ![k] = state]
    /\ given' = IF refund[k] = "locally_finalized"
                THEN [given EXCEPT !["external"] = @ - ret[k].paypal] ELSE given

Record(c) ==
    /\ calls[c].at = "record" /\ Write(calls[c].key, calls[c].seen)
    /\ IF calls[c].seen = "provider_succeeded" THEN Goto(c, "finalize") ELSE Ends(c)
    /\ UNCHANGED <<order, ret, returned, made>>

\* Not answered.
Lost(c) ==
    /\ calls[c].at = "lost" /\ Write(calls[c].key, "reconciliation_required")
    /\ Ends(c) /\ UNCHANGED <<order, ret, returned, made>>

\* A webhook takes the one refund it can be about, and later writes its outcome.
HookReads(c, k) ==
    /\ calls[c].at = "idle" /\ made[k] # "none"
    /\ refund[k] \in {"requested", "pending", "reconciliation_required"}
    /\ Call(c, k, "told", made[k])
    /\ UNCHANGED <<order, ret, returned, given, refund, made>>
HookWrites(c) ==
    /\ calls[c].at = "told" /\ Write(calls[c].key, calls[c].seen) /\ Ends(c)
    /\ UNCHANGED <<order, ret, returned, made>>

\* finalizeRefund.  The order is left to the return, unless that is completed.
Finalize(c) ==
    LET k == calls[c].key
        sum == given["external"] + ret[k].paypal
    IN /\ calls[c].at = "finalize" /\ Goto(c, "complete")
       /\ \/ refund[k] = "locally_finalized" /\ UNCHANGED <<order, given, refund>>
          \/ /\ refund[k] = "provider_succeeded"
             /\ refund' = [refund EXCEPT ![k] = "locally_finalized"]
             /\ given' = [given EXCEPT !["external"] = sum]
             /\ order' = IF ret[k].status = "pending" THEN order ELSE [order EXCEPT !.payment =
                  IF sum = Paid("external") THEN "refunded" ELSE "partially_refunded"]
       /\ UNCHANGED <<ret, returned, made>>

\* finalizePayPalReturn: the shares again, from what was given before this one.
Before_This(k) == given
Before(k) == [given EXCEPT !["external"] = @ - ret[k].paypal]
Finishable(k) ==
    /\ given["external"] >= ret[k].paypal /\ Divisible(ret[k].value, Before(k))
    /\ Due("external", ret[k].value, Before(k)) = ret[k].paypal
Complete(c) ==
    LET k == calls[c].key
        back == Due("credit", ret[k].value, Before(k))
    IN /\ calls[c].at = "complete" /\ ret[k].status = "pending" /\ Finishable(k)
       /\ given' = [given EXCEPT !["credit"] = @ + back]
       /\ order' = [order EXCEPT !.payment = Status(Sum(given) + back)]
       /\ returned' = [l \in Lines |-> returned[l] + ret[k].units[l]]
       /\ ret' = [ret EXCEPT ![k].status = "completed"]
       /\ Ends(c) /\ UNCHANGED <<refund, made>>

\* The request ends where it is: refused, already done, or its process died.
Stop(c) ==
    /\ calls[c].at # "idle" /\ Ends(c)
    /\ UNCHANGED <<order, ret, returned, given, refund, made>>

\* The shift the order was sold in is closed out.
CloseShift ==
    /\ order.shift /\ order' = [order EXCEPT !.shift = FALSE]
    /\ UNCHANGED <<ret, returned, given, refund, made, calls>>

-----------------------------------------------------------------------------
Requests == {u \in [Lines -> UNION {0..Quantity[l] : l \in Lines}] :
               \A l \in Lines : u[l] <= Quantity[l]}

Posting == \E k \in Keys, units \in Requests :
    Return(k, units) \/ Refuse(k, units) \/ \E c \in Callers : Begin(c, k, units)
Refunding == \E c \in Callers :
    \/ \E k \in Keys : Resume(c, k) \/ HookReads(c, k)
    \/ Prepare(c) \/ Ask(c) \/ Record(c) \/ Lost(c) \/ HookWrites(c)
    \/ Finalize(c) \/ Complete(c) \/ Stop(c)

Next == Posting \/ Refunding \/ CloseShift \/ \E k \in Keys : Settle(k)

Spec == Init /\ [][Next]_vars

-----------------------------------------------------------------------------
(* Properties.                                                             *)

\* Every variable has its type, and no line is returned more often than it was
\* sold, by whichever returns are completed or under way.
TypeOK ==
    /\ order \in Orders /\ ret \in [Keys -> Rows] /\ given \in [Tenders -> 0..Total]
    /\ refund \in [Keys -> RefundStates] /\ made \in [Keys -> {"none"} \cup Outcomes]
    /\ calls \in [Callers -> Calls \cup {Idle}]
    /\ returned \in [Lines -> Nat] /\ \A l \in Lines : returned[l] <= Quantity[l]

Quiet == Active = {} /\ Waiting = {}

\* However the order was returned, in whatever pieces and with whatever failures
\* between, once nothing is under way each tender got back its share of the sum,
\* as if that had been one return, and never more than was paid by it.
SharesAreExact ==
    \A t \in Tenders : given[t] <= Paid(t) /\ (Quiet => given[t] = Share(t, Sum(given)))

\* The money that went back is what the returned units are worth, to the cent, when
\* nothing is under way; all units returned are all lines paid back.
MoneyMatchesGoods ==
    Quiet => Sum(given) = Worth([l \in Lines |-> 0], returned)

\* A completed return whose refund was written again by a request or webhook that
\* came late.
Reopened == {k \in Keys : ret[k].status = "completed" /\ k \in Active}

\* Once PayPal's part has gone back and is booked, the rest of the return can be
\* done: no other return has come between and changed the shares.
StaysFinishable ==
    \A k \in Keys : ret[k].status = "pending" /\ refund[k] = "locally_finalized" =>
      Finishable(k) \/ Reopened # {}

=============================================================================
