------------------------- MODULE CustomerCredit_proofs -------------------------
(***************************************************************************)
(* Theorems about CustomerCredit for any orders, prices, keys, grants and  *)
(* number of attempts.                                                     *)
(***************************************************************************)
EXTENDS CustomerCredit, FiniteSetTheorems, TLAPS

-----------------------------------------------------------------------------
(* Type correctness, of all that the code may do.                          *)

\* An attempt has an id once it has a state.
TypeInv == TypeOK /\ \A o \in Orders : attempt[o].id = 0 <=> attempt[o].state = "none"

\* A step on one order: what has to be shown of it.
LEMMA TypeOne ==
    ASSUME TypeInv, NEW o \in Orders, NEW r \in OrderRows, NEW t \in Attempts,
           order' = [order EXCEPT ![o] = r], attempt' = [attempt EXCEPT ![o] = t],
           t.id = 0 <=> t.state = "none",
           account' \in [balance : Nat, reserved : Nat],
           account'.reserved <= account'.balance,
           held' \in [Orders -> Int], spent' \in [Orders -> Nat],
           restored' \in [Orders -> Nat],
           attempts' \in 0..MaxAttempts, cleanups' \subseteq Cleanups
    PROVE  TypeInv'
BY DEF TypeInv, TypeOK

\* Nothing but the order's row, or nothing but its attempt, is another one.
LEMMA SameRow ==
    ASSUME TypeOK, NEW o \in Orders
    PROVE  /\ order[o] \in OrderRows /\ order = [order EXCEPT ![o] = order[o]]
           /\ attempt[o] \in Attempts /\ attempt = [attempt EXCEPT ![o] = attempt[o]]
BY DEF TypeOK

LEMMA PaidRow ==
    ASSUME TypeOK, NEW o \in Orders, NEW m \in Methods
    PROVE  /\ Paid(o, m) \in OrderRows
           /\ Paid(o, m).applied = order[o].applied /\ Paid(o, m).method = m
           /\ Paid(o, m).payment = "paid" /\ Paid(o, m).stage = "open"
BY DEF TypeOK, OrderRows, Paid, Payments, Stages

LEMMA GivenRow ==
    ASSUME TypeOK, NEW o \in Orders
    PROVE  /\ Given(o) \in OrderRows
           /\ Given(o).payment = order[o].payment /\ Given(o).method = order[o].method
           /\ Given(o).stage \in {"open", "dropped"}
BY DEF TypeOK, OrderRows, Given, Stages

LEMMA CancelledRow ==
    ASSUME TypeOK, NEW o \in Orders
    PROVE  /\ Cancelled(o) \in OrderRows
           /\ Cancelled(o).applied = 0 /\ Cancelled(o).method = order[o].method
           /\ Cancelled(o).payment = order[o].payment
           /\ Cancelled(o).stage = "cancelled"
BY DEF TypeOK, OrderRows, Cancelled, Stages

\* The attempt in another state.
LEMMA SettleRow ==
    ASSUME TypeOK, NEW o \in Orders, NEW s \in States, Settle(o, s)
    PROVE  \E t \in Attempts : /\ attempt' = [attempt EXCEPT ![o] = t]
                               /\ t.id = attempt[o].id /\ t.state = s
<1>1. [attempt[o] EXCEPT !.state = s] \in Attempts
  BY DEF TypeOK, Attempts
<1> QED BY <1>1 DEF Settle, TypeOK, Attempts

\* A booking the guards allow.
LEMMA BookTypes ==
    ASSUME TypeOK, NEW o \in Orders, NEW r \in Nat, NEW c \in Nat, NEW keys,
           Book(o, r, c, keys), r <= Available, c > 0 => Consumable(c, r)
    PROVE  /\ account' \in [balance : Nat, reserved : Nat]
           /\ account'.reserved <= account'.balance
           /\ held' \in [Orders -> Int] /\ spent' \in [Orders -> Nat]
<1>1. account.balance \in Nat /\ account.reserved \in Nat /\ account.reserved <= account.balance
  BY DEF TypeOK
<1>2. r <= account.balance - account.reserved
  BY DEF Available
<1>3. c <= account.reserved + r /\ c <= account.balance
  BY <1>1 DEF Consumable
<1>4. account.balance - c \in Nat /\ account.reserved + r - c \in Nat
      /\ account.reserved + r - c <= account.balance - c
  BY <1>1, <1>2, <1>3
<1>5. held' \in [Orders -> Int] /\ spent' \in [Orders -> Nat]
  BY DEF Book, TypeOK
<1> QED BY <1>4, <1>5 DEF Book

\* A release, whether or not anything is booked.
LEMMA ReleaseTypes ==
    ASSUME TypeOK, NEW o \in Orders, NEW x \in Nat, NEW k, Release(o, x, k)
    PROVE  /\ account' \in [balance : Nat, reserved : Nat]
           /\ account'.reserved <= account'.balance
           /\ held' \in [Orders -> Int]
<1>1. account.balance \in Nat /\ account.reserved \in Nat /\ account.reserved <= account.balance
  BY DEF TypeOK
<1>2. CASE x = 0 \/ k \in used
  BY <1>1, <1>2 DEF Release, TypeOK
<1>3. CASE ~(x = 0 \/ k \in used)
  <2>1. account.reserved - x \in Nat /\ account.reserved - x <= account.balance
    BY <1>1, <1>3 DEF Release
  <2>2. account' = [account EXCEPT !.reserved = account.reserved - x]
        /\ held' = [held EXCEPT ![o] = held[o] - x]
    BY <1>3 DEF Release
  <2> QED BY <1>1, <2>1, <2>2 DEF TypeOK
<1> QED BY <1>2, <1>3

LEMMA TypeInit == Init => TypeInv
BY CreditAssumption DEF Init, TypeInv, TypeOK, OrderRows, Attempts, Stages, Payments,
   Methods, States

\* The orders' steps with credit and cash.
LEMMA TypeCash ==
    ASSUME TypeInv, NEW o \in Orders,
           \/ \E x \in 0..Total[o] : Place(o, x) \/ \E k \in Keys : ApplyCredit(o, x, k)
           \/ CloseCash(o) \/ Complete(o)
    PROVE  TypeInv'
<1>t. /\ TypeOK /\ order[o] \in OrderRows /\ Total[o] \in Nat /\ order[o].applied \in Nat
      /\ attempts \in 0..MaxAttempts /\ cleanups \subseteq Cleanups
      /\ restored \in [Orders -> Nat] /\ spent \in [Orders -> Nat]
      /\ held \in [Orders -> Int]
      /\ account.balance \in Nat /\ account.reserved \in Nat
  BY CreditAssumption DEF TypeInv, TypeOK, OrderRows
<1>a. /\ attempt[o] \in Attempts /\ attempt = [attempt EXCEPT ![o] = attempt[o]]
      /\ attempt[o].id = 0 <=> attempt[o].state = "none"
  BY SameRow DEF TypeInv
<1>m. {"none", "credit", "cash", "paypal", "verified"} \subseteq Methods
  BY DEF Methods
<1>1. ASSUME NEW x \in 0..Total[o], Place(o, x) PROVE TypeInv'
  <2> DEFINE all == x = Total[o]
             base == [stage |-> "open", payment |-> "unpaid", method |-> "none", applied |-> x]
             paid == [base EXCEPT !.payment = "paid", !.method = "credit"]
             row == IF all THEN paid ELSE base
  <2>1. base \in OrderRows /\ paid \in OrderRows
    <3>1. x \in Nat
      BY <1>t, <1>1
    <3>2. base \in OrderRows
      BY <3>1 DEF OrderRows, Stages, Payments, Methods
    <3>3. paid \in OrderRows
      <4> HIDE DEF base
      <4> QED BY <3>2 DEF OrderRows, Payments, Methods
    <3> QED BY <3>2, <3>3
  <2>2. /\ order' = [order EXCEPT ![o] = row]
        /\ Book(o, x, IF all THEN x ELSE 0, IF x = 0 THEN {} ELSE {<<"initial", o>>})
        /\ Reservable(o, x) /\ UNCHANGED <<attempt, attempts, cleanups, restored>>
    BY <1>1 DEF Place
  <2>3. x \in Nat /\ (IF all THEN x ELSE 0) \in Nat /\ x <= Available
    BY <1>t, <2>2 DEF Reservable
  <2>4. (IF all THEN x ELSE 0) > 0 => Consumable(IF all THEN x ELSE 0, x)
    BY <1>t, <2>3 DEF Consumable, Available
  <2>5. /\ account' \in [balance : Nat, reserved : Nat]
        /\ account'.reserved <= account'.balance
        /\ held' \in [Orders -> Int] /\ spent' \in [Orders -> Nat]
    <3> HIDE DEF all
    <3> QED BY <1>t, <2>2, <2>3, <2>4, BookTypes
  <2> HIDE DEF base, paid, all
  <2> QED BY <1>t, <1>a, <2>1, <2>2, <2>5, TypeOne
<1>2. ASSUME NEW x \in 0..Total[o], NEW k \in Keys, ApplyCredit(o, x, k) PROVE TypeInv'
  <2> DEFINE sum == order[o].applied + x
             all == sum = Total[o]
             row == [(IF all THEN Paid(o, "credit") ELSE Given(o)) EXCEPT !.applied = sum]
  <2>1. sum \in Nat
    BY <1>t
  <2>2. (IF all THEN Paid(o, "credit") ELSE Given(o)) \in OrderRows
    BY <1>t, <1>m, PaidRow, GivenRow
  <2>3. row \in OrderRows
    <3> HIDE DEF sum, all
    <3> QED BY <2>1, <2>2 DEF OrderRows
  <2>4. /\ order' = [order EXCEPT ![o] = row]
        /\ Book(o, x, IF all THEN sum ELSE 0, {<<"reserve", k>>})
        /\ Reservable(o, x) /\ (all => Consumable(sum, x))
        /\ UNCHANGED <<attempt, attempts, cleanups, restored>>
    BY <1>2, <1>t DEF ApplyCredit, TypeOK
  <2>5. x \in Nat /\ (IF all THEN sum ELSE 0) \in Nat /\ x <= Available
        /\ ((IF all THEN sum ELSE 0) > 0 => Consumable(IF all THEN sum ELSE 0, x))
    BY <1>t, <2>1, <2>4 DEF Reservable
  <2>6. /\ account' \in [balance : Nat, reserved : Nat]
        /\ account'.reserved <= account'.balance
        /\ held' \in [Orders -> Int] /\ spent' \in [Orders -> Nat]
    <3> HIDE DEF all, sum
    <3> QED BY <1>t, <2>4, <2>5, BookTypes
  <2> HIDE DEF row, all, sum
  <2> QED BY <1>t, <1>a, <2>3, <2>4, <2>6, TypeOne
<1>3. CASE CloseCash(o)
  <2>1. PICK stage \in {"open", "completed"} :
          order' = [order EXCEPT ![o] = [Paid(o, "cash") EXCEPT !.stage = stage]]
    BY <1>3 DEF CloseCash
  <2>2. [Paid(o, "cash") EXCEPT !.stage = stage] \in OrderRows
    BY <1>t, <1>m, PaidRow DEF OrderRows, Stages
  <2>3. /\ Book(o, 0, order[o].applied, {})
        /\ order[o].applied > 0 => Consumable(order[o].applied, 0)
        /\ UNCHANGED <<attempt, attempts, cleanups, restored>>
    BY <1>3 DEF CloseCash
  <2>4. 0 <= Available
    BY <1>t DEF TypeOK, Available
  <2>5. /\ account' \in [balance : Nat, reserved : Nat]
        /\ account'.reserved <= account'.balance
        /\ held' \in [Orders -> Int] /\ spent' \in [Orders -> Nat]
    BY <1>t, <2>3, <2>4, BookTypes
  <2> QED BY <1>t, <1>a, <2>1, <2>2, <2>3, <2>5, TypeOne
<1>4. CASE Complete(o)
  <2>1. [order[o] EXCEPT !.stage = "completed"] \in OrderRows
    BY <1>t DEF OrderRows, Stages
  <2>2. order' = [order EXCEPT ![o] = [order[o] EXCEPT !.stage = "completed"]]
    BY <1>4 DEF Complete
  <2>3. UNCHANGED <<account, attempt, attempts, cleanups, used, held, spent, restored>>
    BY <1>4 DEF Complete
  <2> QED BY <1>t, <1>a, <2>1, <2>2, <2>3, TypeOne DEF TypeOK
<1> QED BY <1>1, <1>2, <1>3, <1>4

\* PayPal's steps.
LEMMA TypePayPal ==
    ASSUME TypeInv, NEW o \in Orders,
           \/ \E state \in {"created", "refused", "lost"} : CreateAttempt(o, state)
           \/ Captured(o) \/ Unanswered(o) \/ Declined(o) \/ Reconciled(o)
           \/ \E state \in {"created", "failed", "unsettled"} : Reopened(o, state)
    PROVE  TypeInv'
<1>t. /\ TypeOK /\ order[o] \in OrderRows /\ Total[o] \in Nat /\ order[o].applied \in Nat
      /\ attempts \in 0..MaxAttempts /\ cleanups \subseteq Cleanups
      /\ restored \in [Orders -> Nat] /\ spent \in [Orders -> Nat]
      /\ held \in [Orders -> Int] /\ account \in [balance : Nat, reserved : Nat]
      /\ account.reserved <= account.balance
      /\ attempt[o] \in Attempts /\ order = [order EXCEPT ![o] = order[o]]
      /\ attempt[o].id = 0 <=> attempt[o].state = "none"
  BY CreditAssumption, SameRow DEF TypeInv, TypeOK, OrderRows
<1>s. {"refused", "lost", "created", "unsettled", "failed", "cancelled", "captured"}
        \subseteq States \ {"none"}
  BY DEF States
<1>m. {"paypal", "verified"} \subseteq Methods
  BY DEF Methods
<1>1. ASSUME NEW state \in {"created", "refused", "lost"}, CreateAttempt(o, state)
      PROVE  TypeInv'
  <2> DEFINE t == [id |-> FirstAttempt + attempts, state |-> state, due |-> Due(o)]
  <2>1. /\ attempt' = [attempt EXCEPT ![o] = t] /\ attempts' = attempts + 1
        /\ Due(o) > 0 /\ attempts < MaxAttempts
        /\ UNCHANGED <<account, order, cleanups, used, held, spent, restored>>
    BY <1>1 DEF CreateAttempt
  <2>2. Due(o) \in Nat /\ attempts + 1 \in 0..MaxAttempts
        /\ FirstAttempt + attempts \in AttemptIds /\ FirstAttempt + attempts # 0
    BY <1>t, <2>1, CreditAssumption DEF Due, AttemptIds
  <2>3. t \in Attempts /\ t.id # 0 /\ t.state # "none"
    BY <1>s, <2>2 DEF Attempts
  <2> HIDE DEF t
  <2> QED BY <1>t, <2>1, <2>2, <2>3, TypeOne
<1>2. ASSUME Unanswered(o) \/ Declined(o)
             \/ \E state \in {"created", "failed", "unsettled"} : Reopened(o, state)
      PROVE  TypeInv'
  <2>1. PICK s \in States \ {"none"} : Settle(o, s)
    BY <1>2, <1>s DEF Unanswered, Declined, Reopened
  <2>2. /\ UNCHANGED <<account, order, attempts, used, held, spent, restored>>
        /\ attempt[o].state # "none"
    BY <1>2 DEF Unanswered, Declined, Reopened, Capturable
  <2>3. cleanups' \subseteq Cleanups
    <3>1. CASE Declined(o)
      <4>1. attempt[o].id \in AttemptIds
        BY <1>t, <2>2 DEF Attempts
      <4>2. [order |-> o, id |-> attempt[o].id, seen |-> -1, unpaid |-> FALSE] \in Cleanups
        BY <4>1 DEF Cleanups
      <4> QED BY <1>t, <3>1, <4>2 DEF Declined
    <3>2. CASE ~Declined(o)
      BY <1>2, <1>t, <3>2 DEF Unanswered, Reopened
    <3> QED BY <3>1, <3>2
  <2>4. PICK t \in Attempts : /\ attempt' = [attempt EXCEPT ![o] = t]
                              /\ t.id = attempt[o].id /\ t.state = s
    BY <1>t, <2>1, SettleRow
  <2> QED BY <1>t, <2>2, <2>3, <2>4, TypeOne
<1>3. CASE Captured(o) \/ Reconciled(o)
  <2>1. PICK m \in Methods : order' = [order EXCEPT ![o] = Paid(o, m)]
    BY <1>3, <1>m DEF Captured, Reconciled
  <2>2. /\ Settle(o, "captured") /\ attempt[o].state # "none"
        /\ UNCHANGED <<attempts, cleanups, restored>>
    BY <1>3 DEF Captured, Reconciled, Capturable
  <2>3. PICK t \in Attempts : /\ attempt' = [attempt EXCEPT ![o] = t]
                              /\ t.id = attempt[o].id /\ t.state = "captured"
    BY <1>t, <1>s, <2>2, SettleRow
  <2>4. /\ account' \in [balance : Nat, reserved : Nat]
        /\ account'.reserved <= account'.balance
        /\ held' \in [Orders -> Int] /\ spent' \in [Orders -> Nat]
    <3>1. CASE Captured(o)
      <4>1. /\ Book(o, 0, order[o].applied, {})
            /\ order[o].applied > 0 => Consumable(order[o].applied, 0)
        BY <3>1 DEF Captured
      <4>2. 0 <= Available
        BY <1>t DEF Available
      <4> QED BY <1>t, <4>1, <4>2, BookTypes
    <3>2. CASE Reconciled(o)
      BY <1>t, <3>2 DEF Reconciled
    <3> QED BY <1>3, <3>1, <3>2
  <2>5. Paid(o, m) \in OrderRows
    BY <1>t, PaidRow
  <2> QED BY <1>t, <2>1, <2>2, <2>3, <2>4, <2>5, TypeOne
<1> QED BY <1>1, <1>2, <1>3

\* Cancellations and returns.
LEMMA TypeEnds ==
    ASSUME TypeInv, NEW o \in Orders,
           \/ BuyerCancel(o) \/ Abandon(o) \/ StaffCancel(o)
           \/ Archive(o) \/ CancelFulfilment(o)
           \/ \E stage \in {"open", "dropped"} : EditStatus(o, stage)
           \/ \E x \in 0..Total[o], full \in BOOLEAN : Return(o, x, full)
    PROVE  TypeInv'
<1>t. /\ TypeOK /\ order[o] \in OrderRows /\ Total[o] \in Nat /\ order[o].applied \in Nat
      /\ attempts \in 0..MaxAttempts /\ cleanups \subseteq Cleanups
      /\ restored \in [Orders -> Nat] /\ spent \in [Orders -> Nat]
      /\ held \in [Orders -> Int]
      /\ attempt[o] \in Attempts /\ attempt = [attempt EXCEPT ![o] = attempt[o]]
      /\ attempt[o].id = 0 <=> attempt[o].state = "none"
  BY CreditAssumption, SameRow DEF TypeInv, TypeOK, OrderRows
<1>1. CASE BuyerCancel(o) \/ Abandon(o) \/ StaffCancel(o)
  <2>1. PICK k : Release(o, order[o].applied, k)
    BY <1>1 DEF BuyerCancel, Abandon, StaffCancel
  <2>2. /\ account' \in [balance : Nat, reserved : Nat]
        /\ account'.reserved <= account'.balance
        /\ held' \in [Orders -> Int]
    BY <1>t, <2>1, ReleaseTypes
  <2>3. /\ order' = [order EXCEPT ![o] = Cancelled(o)] /\ Cancelled(o) \in OrderRows
        /\ UNCHANGED <<attempts, cleanups, spent, restored>>
    BY <1>1, <1>t, CancelledRow DEF BuyerCancel, Abandon, StaffCancel
  <2>4. PICK t \in Attempts : /\ attempt' = [attempt EXCEPT ![o] = t]
                              /\ t.id = 0 <=> t.state = "none"
    <3>1. CASE StaffCancel(o)
      BY <1>t, <3>1 DEF StaffCancel
    <3>2. CASE BuyerCancel(o) \/ Abandon(o)
      <4>1. PICK s \in States \ {"none"} : Settle(o, s)
        BY <3>2 DEF BuyerCancel, Abandon, States
      <4>2. attempt[o].state # "none"
        BY <3>2 DEF BuyerCancel, Abandon
      <4> QED BY <1>t, <4>1, <4>2, SettleRow
    <3> QED BY <1>1, <3>1, <3>2
  <2> QED BY <1>t, <2>2, <2>3, <2>4, TypeOne
<1>2. ASSUME NEW x \in 0..Total[o], NEW full \in BOOLEAN, Return(o, x, full)
      PROVE  TypeInv'
  <2> DEFINE row == IF full THEN [order[o] EXCEPT !.payment = "refunded", !.stage = "refunded"]
                            ELSE [order[o] EXCEPT !.payment = "partially_refunded"]
  <2>1. row \in OrderRows
    BY <1>t DEF OrderRows, Stages, Payments
  <2>2. /\ order' = [order EXCEPT ![o] = row]
        /\ account' = [account EXCEPT !.balance = account.balance + x]
        /\ restored' = [restored EXCEPT ![o] = restored[o] + x]
        /\ UNCHANGED <<attempt, attempts, cleanups, used, held, spent>>
    BY <1>2, <1>t DEF Return, TypeOK
  <2>3. /\ account' \in [balance : Nat, reserved : Nat]
        /\ account'.reserved <= account'.balance
        /\ restored' \in [Orders -> Nat]
    BY <1>t, <2>2 DEF TypeOK
  <2> HIDE DEF row
  <2> QED BY <1>t, <2>1, <2>2, <2>3, TypeOne
<1>3. ASSUME NEW stage \in {"open", "dropped"}, Restage(o, stage)
      PROVE  TypeInv'
  <2>1. [order[o] EXCEPT !.stage = stage] \in OrderRows
    BY <1>t DEF OrderRows, Stages
  <2>2. /\ order' = [order EXCEPT ![o] = [order[o] EXCEPT !.stage = stage]]
        /\ UNCHANGED <<account, attempt, attempts, cleanups, held, spent, restored>>
    BY <1>3 DEF Restage
  <2> QED BY <1>t, <2>1, <2>2, TypeOne DEF TypeOK
<1> QED BY <1>1, <1>2, <1>3 DEF Archive, CancelFulfilment, EditStatus

\* The account's own steps and the clean-ups.
LEMMA TypeAccount ==
    ASSUME TypeInv, Adjusting \/ CleaningUp
    PROVE  TypeInv'
<1>t. TypeOK
  BY DEF TypeInv
<1>1. ASSUME NEW x \in Grants, Adjust(x) PROVE TypeInv'
  <2>1. /\ x \in Int /\ account.balance + x >= account.reserved
        /\ account' = [account EXCEPT !.balance = account.balance + x]
        /\ UNCHANGED <<order, attempt, attempts, cleanups, held, spent, restored>>
    BY <1>1, CreditAssumption DEF Adjust, Adjustable
  <2>2. account' \in [balance : Nat, reserved : Nat] /\ account'.reserved <= account'.balance
    BY <2>1 DEF TypeInv, TypeOK
  <2> QED BY <2>1, <2>2 DEF TypeInv, TypeOK
<1>2. ASSUME NEW c \in cleanups, ReadDeclined(c) PROVE TypeInv'
  <2>1. c \in Cleanups /\ order[c.order].applied \in Nat
    BY <1>t DEF TypeOK, Cleanups, OrderRows
  <2>2. [c EXCEPT !.seen = order[c.order].applied, !.unpaid = order[c.order].payment # "paid"]
          \in Cleanups
    BY <2>1 DEF Cleanups
  <2>3. cleanups' \subseteq Cleanups
    BY <1>2, <1>t, <2>2 DEF ReadDeclined, TypeOK
  <2> QED BY <1>2, <2>3 DEF ReadDeclined, TypeInv, TypeOK
<1>3. ASSUME NEW c \in cleanups, CleanUp(c) PROVE TypeInv'
  <2> DEFINE o == c.order
  <2>1. o \in Orders /\ cleanups' \subseteq Cleanups
    BY <1>3, <1>t DEF CleanUp, TypeOK, Cleanups
  <2>2. CASE UNCHANGED <<account, order, held, used, skipped>>
    BY <1>3, <2>1, <2>2 DEF CleanUp, TypeInv, TypeOK
  <2>3. CASE ~UNCHANGED <<account, order, held, used, skipped>>
    <3>1. c.seen \in Nat
      BY <1>3, <1>t DEF CleanUp, TypeOK, Cleanups
    <3>2. /\ Release(o, c.seen, <<"declined", c.id>>)
          /\ order' = [order EXCEPT ![o].applied = 0]
          /\ UNCHANGED <<attempt, attempts, spent, restored>>
      BY <1>3, <2>3 DEF CleanUp
    <3> HIDE DEF o
    <3>3. /\ account' \in [balance : Nat, reserved : Nat]
          /\ account'.reserved <= account'.balance
          /\ held' \in [Orders -> Int]
      BY <1>t, <2>1, <3>1, <3>2, ReleaseTypes
    <3>4. [order[o] EXCEPT !.applied = 0] \in OrderRows
      BY <1>t, <2>1 DEF TypeOK, OrderRows
    <3>5. order' = [order EXCEPT ![o] = [order[o] EXCEPT !.applied = 0]]
      BY <3>2
    <3>6. /\ attempt[o] \in Attempts /\ attempt' = [attempt EXCEPT ![o] = attempt[o]]
          /\ attempt[o].id = 0 <=> attempt[o].state = "none"
      BY <2>1, <3>2 DEF TypeInv, TypeOK
    <3> QED BY <1>t, <2>1, <3>2, <3>3, <3>4, <3>5, <3>6, TypeOne DEF TypeOK
  <2> QED BY <2>2, <2>3
<1> QED BY <1>1, <1>2, <1>3 DEF CleaningUp, Adjusting

LEMMA TypeStep == TypeInv /\ [Next]_vars => TypeInv'
<1> SUFFICES ASSUME TypeInv, [Next]_vars PROVE TypeInv'
  OBVIOUS
<1>1. ASSUME NEW o \in Orders, Using(o) \/ Serving(o) PROVE TypeInv'
  BY <1>1, TypeCash, TypePayPal, TypeEnds DEF Using, Serving
<1>2. CASE CleaningUp \/ Adjusting
  BY <1>2, TypeAccount
<1>3. CASE UNCHANGED vars
  BY <1>3 DEF vars, TypeInv, TypeOK
<1> QED BY <1>1, <1>2, <1>3 DEF Next

\* The orderly runs are runs of the system.
LEMMA OrderlyIsNext == OrderlyNext => Next
BY DEF OrderlyNext, Next

LEMMA OrderlyTypes == OrderlySpec => []TypeInv
<1>1. TypeInv /\ [OrderlyNext]_vars => TypeInv'
  BY TypeStep, OrderlyIsNext
<1> QED BY <1>1, TypeInit, PTL DEF OrderlySpec

THEOREM TypesHold == Spec => []TypeInv
<1> QED BY TypeInit, TypeStep, PTL DEF Spec

\* Never more is reserved than there is, and neither is negative: no handler
\* can break the table's constraint, in whatever order they meet.
THEOREM TypeCorrect == Spec => []TypeOK
<1>1. TypeInv => TypeOK
  BY DEF TypeInv
<1> QED BY <1>1, TypesHold, PTL

-----------------------------------------------------------------------------
(* The invariant behind the properties.                                    *)

\* What an order holds beyond the credit that is applied to it.
Excess(o) == held[o] - (IF order[o].payment = "unpaid" THEN order[o].applied ELSE 0)

\* An order that is new or cancelled has not been paid and has no credit; one that
\* is completed or refunded has been; one without an attempt has no attempt's state.
RowInv(o) ==
    /\ order[o].stage \in {"none", "cancelled"} =>
         order[o].payment = "unpaid" /\ order[o].applied = 0
    /\ order[o].stage \in {"completed", "refunded"} => order[o].payment # "unpaid"
    /\ order[o].payment = "unpaid" => order[o].method = "none"
    /\ order[o].stage = "none" => attempt[o].id = 0
    /\ attempt[o].id = 0 <=> attempt[o].state = "none"
    /\ attempt[o].id # 0 => attempt[o].id < FirstAttempt + attempts

\* The two ways to hold too much, both of them final.
StrandedInv(o) ==
    /\ Excess(o) >= 0
    /\ Excess(o) > 0 => order[o].method = "verified" \/ \E s \in skipped : s[1] = o

\* A clean-up and an abandonment leave nothing for a second one to release.
Freed(i) == <<"declined", i>> \in used \/ <<"abandoned", i>> \in used

ReleasedInv(o) ==
    attempt[o].id # 0 /\ Freed(attempt[o].id) => order[o].applied = 0

SpentInv(o) ==
    /\ restored[o] <= spent[o] /\ spent[o] \in {0, order[o].applied}
    /\ order[o].payment # "unpaid" /\ order[o].method # "verified"
         => spent[o] = order[o].applied
    /\ order[o].payment = "unpaid" => spent[o] = 0

OrderInv(o) == RowInv(o) /\ StrandedInv(o) /\ ReleasedInv(o) /\ SpentInv(o)

\* Attempts have ids of their own, which nothing was released under before.
IdsInv ==
    /\ \A o, p \in Orders : attempt[o].id = attempt[p].id /\ attempt[o].id # 0 => o = p
    /\ \A i \in AttemptIds : i >= FirstAttempt + attempts => ~Freed(i)

\* One clean-up at a time, and the order waits for it.
CleanInv ==
    \A c \in cleanups :
      /\ order[c.order].payment = "unpaid"
      /\ attempt[c.order].id = c.id /\ attempt[c.order].state = "failed"
      /\ c.seen \in {-1, order[c.order].applied}
      /\ cleanups = {c}

SkipInv == \A s \in skipped : s[2][1] = "cancel"

SumInv == IsFiniteSet(Units(held)) /\ account.reserved = Cardinality(Units(held))

CreditInv == (\A o \in Orders : OrderInv(o)) /\ IdsInv /\ CleanInv /\ SkipInv /\ SumInv

-----------------------------------------------------------------------------
(* Sums.                                                                   *)

\* When one order holds another amount, the sum changes by the difference.
LEMMA UnitsChange ==
    ASSUME NEW f \in [Orders -> Nat], NEW o \in Orders, NEW n \in Nat,
           IsFiniteSet(Units(f))
    PROVE  /\ IsFiniteSet(Units([f EXCEPT ![o] = n]))
           /\ Cardinality(Units([f EXCEPT ![o] = n])) = Cardinality(Units(f)) - f[o] + n
<1> DEFINE g == [f EXCEPT ![o] = n]
           rest == UNION {{p} \X (1..f[p]) : p \in Orders \ {o}}
<1>1. ASSUME NEW m \in Nat
      PROVE  IsFiniteSet({o} \X (1..m)) /\ Cardinality({o} \X (1..m)) = m
  <2>1. IsFiniteSet(1..m) /\ Cardinality(1..m) = m
    <3>1. /\ IsFiniteSet(1..m)
          /\ Cardinality(1..m) = IF 1 > m THEN 0 ELSE m - 1 + 1
      BY FS_Interval
    <3> QED BY <3>1
  <2>2. IsFiniteSet({o}) /\ Cardinality({o}) = 1
    BY FS_Singleton, Zenon
  <2>3. /\ IsFiniteSet({o} \X (1..m))
        /\ Cardinality({o} \X (1..m)) = Cardinality({o}) * Cardinality(1..m)
    BY <2>1, <2>2, FS_Product
  <2>4. Cardinality({o} \X (1..m)) = 1 * m
    BY <2>1, <2>2, <2>3
  <2> QED BY <2>3, <2>4
<1>2. rest \cap ({o} \X (1..f[o])) = {} /\ rest \cap ({o} \X (1..n)) = {}
  BY SMT
<1>3. Units(f) = rest \cup ({o} \X (1..f[o]))
  BY SMT DEF Units
<1>4. Units(g) = rest \cup ({o} \X (1..n))
  BY SMT DEF Units
<1>5. IsFiniteSet(rest)
  BY <1>3, FS_Subset
<1> HIDE DEF rest, g
<1>6. Cardinality(Units(f)) = Cardinality(rest) + Cardinality({o} \X (1..f[o])) - Cardinality({})
  BY <1>1, <1>2, <1>3, <1>5, FS_Union
<1>7. IsFiniteSet(Units(g))
      /\ Cardinality(Units(g)) = Cardinality(rest) + Cardinality({o} \X (1..n)) - Cardinality({})
  BY <1>1, <1>2, <1>4, <1>5, FS_Union
<1>8. Cardinality({}) = 0 /\ Cardinality(rest) \in Nat
  BY <1>5, FS_EmptySet, FS_CardinalityType
<1>9. Cardinality({o} \X (1..f[o])) = f[o] /\ Cardinality({o} \X (1..n)) = n /\ f[o] \in Nat
  BY <1>1
<1>10. Cardinality(Units(g)) = Cardinality(Units(f)) - f[o] + n
  BY <1>6, <1>7, <1>8, <1>9
<1> QED BY <1>7, <1>10, Zenon DEF g

\* Nobody holds a negative amount.
LEMMA HeldNat ==
    ASSUME TypeInv, CreditInv
    PROVE  held \in [Orders -> Nat]
<1>1. /\ held \in [Orders -> Int]
      /\ \A o \in Orders : order[o].applied \in Nat
  BY DEF TypeInv, TypeOK, OrderRows
<1>2. \A o \in Orders : held[o] - (IF order[o].payment = "unpaid" THEN order[o].applied ELSE 0) >= 0
  BY DEF CreditInv, OrderInv, StrandedInv, Excess
<1>3. \A o \in Orders : held[o] >= 0
  BY <1>1, <1>2
<1> QED BY <1>1, <1>3

LEMMA SumChange ==
    ASSUME TypeInv, CreditInv, NEW o \in Orders, NEW n \in Nat,
           held' = [held EXCEPT ![o] = n],
           account'.reserved = account.reserved - held[o] + n
    PROVE  SumInv'
<1>1. held \in [Orders -> Nat] /\ IsFiniteSet(Units(held))
      /\ account.reserved = Cardinality(Units(held))
  BY HeldNat DEF CreditInv, SumInv
<1>2. /\ IsFiniteSet(Units(held'))
      /\ Cardinality(Units(held')) = Cardinality(Units(held)) - held[o] + n
  BY <1>1, UnitsChange
<1> QED BY <1>1, <1>2 DEF SumInv, Units

LEMMA CreditInit == Init => CreditInv
<1> SUFFICES ASSUME Init PROVE CreditInv
  OBVIOUS
<1>1. \A o \in Orders : OrderInv(o)
  BY DEF Init, OrderInv, RowInv, StrandedInv, ReleasedInv, SpentInv, Excess
<1>2. IdsInv /\ CleanInv /\ SkipInv
  BY DEF Init, IdsInv, CleanInv, SkipInv, Freed
<1>3. Units(held) = {}
  BY DEF Init, Units
<1>4. SumInv
  BY <1>3, FS_EmptySet DEF Init, SumInv
<1> QED BY <1>1, <1>2, <1>4 DEF CreditInv

-----------------------------------------------------------------------------
(* One step concerns one order.                                            *)

\* What a step on order o leaves of the other orders.
OnlyOne(o) ==
    /\ \A p \in Orders \ {o} :
         /\ order'[p] = order[p] /\ attempt'[p] = attempt[p] /\ held'[p] = held[p]
         /\ spent'[p] = spent[p] /\ restored'[p] = restored[p]
    /\ \/ attempts' = attempts /\ attempt'[o].id = attempt[o].id
       \/ attempts' = attempts + 1 /\ attempt'[o].id = FirstAttempt + attempts
    /\ used \subseteq used'
    /\ \A w \in {"declined", "abandoned"}, i \in AttemptIds :
         <<w, i>> \in used' => <<w, i>> \in used \/ i = attempt[o].id
    /\ skipped \subseteq skipped'
    /\ \A s \in skipped' : s \in skipped \/ s[2][1] = "cancel"

LEMMA OthersKept ==
    ASSUME TypeInv, CreditInv, NEW o \in Orders, OnlyOne(o)
    PROVE  /\ \A p \in Orders \ {o} : OrderInv(p)'
           /\ IdsInv' /\ SkipInv'
<1>t. /\ attempts \in Nat /\ FirstAttempt \in Nat \ {0}
      /\ \A p \in Orders : attempt[p].id # 0 => attempt[p].id \in AttemptIds
      /\ \A i \in AttemptIds : i \in Nat \ {0}
  BY CreditAssumption DEF TypeInv, TypeOK, Attempts, AttemptIds
<1>1. \A p \in Orders \ {o} : attempt[p].id # 0 => (Freed(attempt[p].id)' => Freed(attempt[p].id))
  BY <1>t DEF OnlyOne, Freed, CreditInv, IdsInv
<1>2. \A p \in Orders \ {o} : RowInv(p)' /\ SpentInv(p)'
  BY <1>t DEF OnlyOne, CreditInv, OrderInv, RowInv, SpentInv
<1>3. \A p \in Orders \ {o} : StrandedInv(p)'
  <2> TAKE p \in Orders \ {o}
  <2>1. /\ order'[p] = order[p] /\ attempt'[p] = attempt[p] /\ held'[p] = held[p]
        /\ skipped \subseteq skipped'
    BY DEF OnlyOne
  <2>2. StrandedInv(p)
    BY DEF CreditInv, OrderInv
  <2> QED BY <2>1, <2>2 DEF StrandedInv, Excess
<1>4. \A p \in Orders \ {o} : ReleasedInv(p)'
  BY <1>t DEF OnlyOne, CreditInv, OrderInv, ReleasedInv, Freed, IdsInv
<1>5. IdsInv'
  <2>1. \A p, q \in Orders : attempt'[p].id = attempt'[q].id /\ attempt'[p].id # 0 => p = q
    <3>1. \A p \in Orders : attempt[p].id # 0 => attempt[p].id < FirstAttempt + attempts
      BY DEF CreditInv, OrderInv, RowInv
    <3>2. \A p \in Orders : attempt[p].id \in Nat
      BY <1>t
    <3> QED BY <1>t, <3>1, <3>2 DEF OnlyOne, CreditInv, IdsInv
  <2>2. ASSUME NEW i \in AttemptIds, i >= FirstAttempt + attempts'
        PROVE  ~(<<"declined", i>> \in used' \/ <<"abandoned", i>> \in used')
    <3>1. i >= FirstAttempt + attempts
      BY <1>t, <2>2 DEF OnlyOne
    <3>2. ~Freed(i)
      BY <3>1 DEF CreditInv, IdsInv
    <3>3. i # attempt[o].id
      BY <1>t, <3>1 DEF CreditInv, OrderInv, RowInv
    <3> QED BY <3>2, <3>3 DEF OnlyOne, Freed
  <2> QED BY <2>1, <2>2 DEF IdsInv, Freed
<1>6. SkipInv'
  BY DEF OnlyOne, CreditInv, SkipInv
<1> QED BY <1>2, <1>3, <1>4, <1>5, <1>6 DEF OrderInv

\* What holds of one order before a step.
LEMMA Unpacked ==
    ASSUME TypeInv, CreditInv, NEW o \in Orders
    PROVE  /\ RowInv(o) /\ StrandedInv(o) /\ ReleasedInv(o) /\ SpentInv(o)
           /\ order[o] \in OrderRows /\ attempt[o] \in Attempts
           /\ order[o].applied \in Nat /\ held[o] \in Nat /\ spent[o] \in Nat
           /\ restored[o] \in Nat /\ attempts \in Nat
           /\ Excess(o) \in Nat
           /\ Total[o] \in Nat
<1>1. /\ order[o] \in OrderRows /\ order[o].applied \in Nat /\ held[o] \in Nat
      /\ attempt[o] \in Attempts /\ spent[o] \in Nat /\ restored[o] \in Nat
      /\ attempts \in Nat /\ Total[o] \in Nat
  BY HeldNat, CreditAssumption DEF TypeInv, TypeOK, OrderRows
<1>2. RowInv(o) /\ StrandedInv(o) /\ ReleasedInv(o) /\ SpentInv(o)
  BY DEF CreditInv, OrderInv
<1> QED BY <1>1, <1>2 DEF StrandedInv, Excess

\* An order whose excess stays what it was, and for whose sake.
LEMMA ExcessKept ==
    ASSUME TypeInv, CreditInv, NEW o \in Orders, skipped \subseteq skipped',
           Excess(o)' = Excess(o),
           order[o].method = "verified" => order'[o].method = "verified"
    PROVE  StrandedInv(o)'
<1>1. StrandedInv(o)
  BY Unpacked
<1>2. Excess(o)' >= 0
  BY <1>1 DEF StrandedInv
<1>3. ASSUME Excess(o)' > 0
      PROVE  order'[o].method = "verified" \/ \E s \in skipped' : s[1] = o
  BY <1>1, <1>3 DEF StrandedInv
<1> QED BY <1>2, <1>3 DEF StrandedInv, Excess

\* A booking: what it leaves, and that the sum is kept.
LEMMA BookSum ==
    ASSUME TypeInv, CreditInv, NEW o \in Orders, NEW r \in Nat, NEW c \in Nat, NEW keys,
           Book(o, r, c, keys), held[o] + r - c >= 0
    PROVE  /\ SumInv'
           /\ held'[o] = held[o] + r - c /\ spent'[o] = spent[o] + c
           /\ \A p \in Orders \ {o} : held'[p] = held[p] /\ spent'[p] = spent[p]
           /\ used' = used \cup keys
<1>1. held[o] \in Nat /\ account.reserved \in Nat
      /\ held \in [Orders -> Int] /\ spent \in [Orders -> Nat]
  BY Unpacked DEF TypeInv, TypeOK
<1>2. /\ held' = [held EXCEPT ![o] = held[o] + r - c]
      /\ account'.reserved = account.reserved + r - c
      /\ spent' = [spent EXCEPT ![o] = spent[o] + c] /\ used' = used \cup keys
  BY DEF Book
<1>3. held[o] + r - c \in Nat
      /\ account'.reserved = account.reserved - held[o] + (held[o] + r - c)
  BY <1>1, <1>2
<1>4. SumInv'
  BY <1>2, <1>3, SumChange
<1> QED BY <1>1, <1>2, <1>4

LEMMA SumKept ==
    ASSUME CreditInv, held' = held, account'.reserved = account.reserved
    PROVE  SumInv'
BY DEF CreditInv, SumInv, Units

\* A release of what is applied to an unpaid order, which is not applied any more.
LEMMA ReleaseSum ==
    ASSUME TypeInv, CreditInv, NEW o \in Orders, NEW k, order[o].payment = "unpaid",
           Release(o, order[o].applied, k)
    PROVE  /\ SumInv'
           /\ \/ held'[o] = Excess(o) /\ skipped' = skipped
              \/ /\ held'[o] = held[o] /\ k \in used /\ order[o].applied # 0
                 /\ skipped' = skipped \cup {<<o, k>>}
           /\ \A p \in Orders \ {o} : held'[p] = held[p]
           /\ used' = used \/ used' = used \cup {k}
<1>1. /\ held[o] \in Nat /\ account.reserved \in Nat /\ held \in [Orders -> Int]
      /\ order[o].applied \in Nat /\ Excess(o) \in Nat
      /\ Excess(o) = held[o] - order[o].applied
  BY Unpacked DEF TypeInv, TypeOK, Excess
<1>2. CASE order[o].applied = 0 \/ k \in used
  <2>1. /\ UNCHANGED <<account, held, used>>
        /\ order[o].applied = 0 => skipped' = skipped
        /\ order[o].applied # 0 => skipped' = skipped \cup {<<o, k>>}
    BY <1>1, <1>2 DEF Release
  <2> QED BY <1>1, <1>2, <2>1, SumKept
<1>3. CASE ~(order[o].applied = 0 \/ k \in used)
  <2>1. /\ account' = [account EXCEPT !.reserved = account.reserved - order[o].applied]
        /\ held' = [held EXCEPT ![o] = held[o] - order[o].applied]
        /\ used' = used \cup {k} /\ skipped' = skipped
    BY <1>3 DEF Release
  <2>2. account'.reserved = account.reserved - order[o].applied
    BY <2>1 DEF TypeInv, TypeOK
  <2>3. account'.reserved = account.reserved - held[o] + Excess(o)
        /\ held' = [held EXCEPT ![o] = Excess(o)]
    BY <1>1, <2>1, <2>2
  <2>4. SumInv'
    BY <1>1, <2>3, SumChange
  <2> QED BY <1>1, <2>1, <2>3, <2>4
<1> QED BY <1>2, <1>3

\* A step of a handler on order o.
LEMMA StepDone ==
    ASSUME TypeInv, CreditInv, NEW o \in Orders, OnlyOne(o), SumInv', cleanups' = {},
           RowInv(o)', StrandedInv(o)', ReleasedInv(o)', SpentInv(o)'
    PROVE  CreditInv'
<1>1. /\ \A p \in Orders \ {o} : OrderInv(p)'
      /\ IdsInv' /\ SkipInv'
  BY OthersKept
<1>2. OrderInv(o)'
  BY DEF OrderInv
<1>3. CleanInv'
  BY DEF CleanInv
<1>4. \A p \in Orders : OrderInv(p)'
  BY <1>1, <1>2
<1> QED BY <1>1, <1>3, <1>4 DEF CreditInv

-----------------------------------------------------------------------------
(* The handlers, one order at a time.                                      *)

LEMMA CreditPlace ==
    ASSUME TypeInv, CreditInv, cleanups = {}, NEW o \in Orders,
           NEW x \in 0..Total[o], Place(o, x)
    PROVE  CreditInv'
<1> DEFINE c == IF x = Total[o] THEN x ELSE 0
           keys == IF x = 0 THEN {} ELSE {<<"initial", o>>}
<1>u. /\ RowInv(o) /\ StrandedInv(o) /\ ReleasedInv(o) /\ SpentInv(o)
      /\ order[o] \in OrderRows /\ held[o] \in Nat /\ spent[o] \in Nat
      /\ restored[o] \in Nat /\ Excess(o) \in Nat /\ Total[o] \in Nat
  BY Unpacked
<1>1. /\ order[o].stage = "none" /\ Book(o, x, c, keys)
      /\ UNCHANGED <<attempt, attempts, cleanups, restored, skipped>>
      /\ order'[o].stage = "open" /\ order'[o].applied = x
      /\ x = Total[o] => order'[o].payment = "paid" /\ order'[o].method = "credit"
      /\ x # Total[o] => order'[o].payment = "unpaid" /\ order'[o].method = "none"
      /\ \A p \in Orders \ {o} : order'[p] = order[p]
  BY DEF Place, TypeInv, TypeOK
<1>2. /\ order[o].payment = "unpaid" /\ order[o].applied = 0 /\ attempt[o].id = 0
      /\ spent[o] = 0 /\ restored[o] = 0 /\ order[o].method = "none"
      /\ Excess(o) = held[o]
  BY <1>u, <1>1 DEF RowInv, SpentInv, Excess
<1>3. x \in Nat /\ c \in Nat /\ held[o] + x - c >= 0
  BY <1>u
<1> HIDE DEF c, keys
<1>4. /\ SumInv'
      /\ held'[o] = held[o] + x - c /\ spent'[o] = spent[o] + c
      /\ \A p \in Orders \ {o} : held'[p] = held[p] /\ spent'[p] = spent[p]
      /\ used' = used \cup keys
  BY <1>1, <1>3, BookSum
<1>5. OnlyOne(o)
  BY <1>1, <1>4 DEF OnlyOne, keys
<1>6. Excess(o)' = Excess(o)
  BY <1>u, <1>1, <1>2, <1>3, <1>4 DEF Excess, c
<1>7. StrandedInv(o)'
  BY <1>1, <1>2, <1>5, <1>6, ExcessKept DEF OnlyOne
<1>8. RowInv(o)' /\ ReleasedInv(o)'
  BY <1>u, <1>1, <1>2 DEF RowInv, ReleasedInv
<1>9. SpentInv(o)'
  BY <1>1, <1>2, <1>3, <1>4 DEF SpentInv, c
<1> QED BY <1>1, <1>4, <1>5, <1>7, <1>8, <1>9, StepDone

\* A payment consumes what is applied to an unpaid order.
LEMMA CreditPays ==
    ASSUME TypeInv, CreditInv, TypeInv', NEW o \in Orders, cleanups' = {},
           order[o].payment = "unpaid", order[o].stage = "open",
           Book(o, 0, order[o].applied, {}),
           order'[o].payment = "paid", order'[o].method # "verified",
           order'[o].stage \in {"open", "completed"},
           order'[o].applied = order[o].applied,
           attempt'[o].id = attempt[o].id,
           \A p \in Orders \ {o} : order'[p] = order[p] /\ attempt'[p] = attempt[p],
           UNCHANGED <<attempts, restored, skipped>>
    PROVE  CreditInv'
<1>u. /\ RowInv(o) /\ ReleasedInv(o) /\ SpentInv(o)
      /\ order[o].applied \in Nat /\ held[o] \in Nat /\ spent[o] \in Nat
      /\ Excess(o) \in Nat /\ restored[o] \in Nat
  BY Unpacked
<1>1. /\ spent[o] = 0 /\ restored[o] = 0 /\ order[o].method = "none"
      /\ Excess(o) = held[o] - order[o].applied
  BY <1>u DEF RowInv, SpentInv, Excess
<1>z. 0 \in Nat /\ held[o] + 0 - order[o].applied >= 0
  BY <1>u, <1>1
<1>2. /\ SumInv'
      /\ held'[o] = held[o] + 0 - order[o].applied /\ spent'[o] = spent[o] + order[o].applied
      /\ \A p \in Orders \ {o} : held'[p] = held[p] /\ spent'[p] = spent[p]
      /\ used' = used \cup {}
  BY <1>u, <1>z, BookSum
<1>3. OnlyOne(o)
  BY <1>2 DEF OnlyOne
<1>4. StrandedInv(o)'
  <2>1. Excess(o)' = Excess(o)
    BY <1>u, <1>1, <1>2 DEF Excess
  <2> QED BY <1>1, <1>2, <2>1, ExcessKept
<1>5. RowInv(o)'
  BY <1>u DEF RowInv, TypeInv
<1>6. ReleasedInv(o)'
  BY <1>u, <1>2 DEF ReleasedInv, Freed
<1>7. SpentInv(o)'
  BY <1>u, <1>1, <1>2 DEF SpentInv
<1> QED BY <1>2, <1>3, <1>4, <1>5, <1>6, <1>7, StepDone

LEMMA CreditApply ==
    ASSUME TypeInv, CreditInv, TypeInv', cleanups = {}, NEW o \in Orders, ~Refunded(o),
           NEW x \in 0..Total[o], NEW k \in Keys, ApplyCredit(o, x, k)
    PROVE  CreditInv'
<1> DEFINE sum == order[o].applied + x
           c == IF sum = Total[o] THEN sum ELSE 0
<1>u. /\ RowInv(o) /\ SpentInv(o)
      /\ order[o].applied \in Nat /\ held[o] \in Nat /\ spent[o] \in Nat
      /\ restored[o] \in Nat
      /\ Excess(o) \in Nat /\ Total[o] \in Nat /\ order[o] \in OrderRows
  BY Unpacked
<1>1. /\ order[o].payment = "unpaid" /\ attempt[o].id = 0 /\ order[o].stage # "none"
  BY <1>u DEF ApplyCredit, Refunded, OrderRows, Payments
<1>2. /\ Book(o, x, c, {<<"reserve", k>>})
      /\ UNCHANGED <<attempt, attempts, cleanups, restored, skipped>>
      /\ order'[o].applied = sum
      /\ sum = Total[o] => /\ order'[o].payment = "paid" /\ order'[o].method = "credit"
                           /\ order'[o].stage = "open"
      /\ sum # Total[o] => /\ order'[o].payment = order[o].payment
                           /\ order'[o].method = order[o].method
                           /\ order'[o].stage \in {"open", "dropped"}
      /\ \A p \in Orders \ {o} : order'[p] = order[p]
  BY PaidRow, GivenRow DEF ApplyCredit, TypeInv, TypeOK, OrderRows, Methods
<1>3. /\ spent[o] = 0 /\ restored[o] = 0 /\ order[o].method = "none"
      /\ Excess(o) = held[o] - order[o].applied
  BY <1>u, <1>1 DEF RowInv, SpentInv, Excess
<1>4. x \in Nat /\ c \in Nat /\ sum \in Nat /\ held[o] + x - c >= 0
  BY <1>u, <1>3
<1> HIDE DEF c, sum
<1>5. /\ SumInv'
      /\ held'[o] = held[o] + x - c /\ spent'[o] = spent[o] + c
      /\ \A p \in Orders \ {o} : held'[p] = held[p] /\ spent'[p] = spent[p]
      /\ used' = used \cup {<<"reserve", k>>}
  BY <1>2, <1>4, BookSum
<1>6. OnlyOne(o)
  BY <1>2, <1>5 DEF OnlyOne
<1>7. StrandedInv(o)'
  <2>1. Excess(o)' = Excess(o)
    BY <1>u, <1>1, <1>2, <1>3, <1>4, <1>5 DEF Excess, c, sum
  <2> QED BY <1>1, <1>3, <1>6, <2>1, ExcessKept DEF OnlyOne
<1>8. RowInv(o)' /\ ReleasedInv(o)'
  BY <1>u, <1>1, <1>2 DEF RowInv, ReleasedInv
<1>9. SpentInv(o)'
  <2>1. spent'[o] = c /\ restored'[o] = 0 /\ c \in {0, sum}
    BY <1>2, <1>3, <1>4, <1>5 DEF c
  <2> QED BY <1>1, <1>2, <1>4, <2>1 DEF SpentInv, c
<1> QED BY <1>2, <1>5, <1>6, <1>7, <1>8, <1>9, StepDone

LEMMA CreditCash ==
    ASSUME TypeInv, CreditInv, TypeInv', cleanups = {}, NEW o \in Orders,
           CloseCash(o) \/ Complete(o)
    PROVE  CreditInv'
<1>u. /\ RowInv(o) /\ StrandedInv(o) /\ ReleasedInv(o) /\ SpentInv(o)
      /\ order[o] \in OrderRows
  BY Unpacked
<1>1. CASE CloseCash(o)
  <2>1. PICK stage \in {"open", "completed"} :
          order' = [order EXCEPT ![o] = [Paid(o, "cash") EXCEPT !.stage = stage]]
    BY <1>1 DEF CloseCash
  <2>2. /\ order'[o].payment = "paid" /\ order'[o].method = "cash"
        /\ order'[o].stage = stage /\ order'[o].applied = order[o].applied
        /\ \A p \in Orders \ {o} : order'[p] = order[p]
    BY <1>u, <2>1 DEF TypeInv, TypeOK, OrderRows, Paid
  <2>3. /\ order[o].stage = "open" /\ order[o].payment = "unpaid"
        /\ Book(o, 0, order[o].applied, {})
        /\ UNCHANGED <<attempt, attempts, cleanups, restored, skipped>>
    BY <1>1 DEF CloseCash
  <2> QED BY <2>2, <2>3, CreditPays
<1>2. CASE Complete(o)
  <2>1. /\ order[o].stage = "open" /\ order[o].payment = "paid"
        /\ order'[o].payment = "paid" /\ order'[o].method = order[o].method
        /\ order'[o].stage = "completed" /\ order'[o].applied = order[o].applied
        /\ \A p \in Orders \ {o} : order'[p] = order[p]
        /\ UNCHANGED <<account, attempt, attempts, cleanups, used, held, spent, restored, skipped>>
    BY <1>2 DEF Complete, TypeInv, TypeOK, OrderRows
  <2>2. OnlyOne(o) /\ SumInv'
    BY <2>1, SumKept DEF OnlyOne
  <2>3. StrandedInv(o)'
    BY <2>1, ExcessKept DEF Excess
  <2>4. RowInv(o)' /\ ReleasedInv(o)' /\ SpentInv(o)'
    BY <1>u, <2>1 DEF RowInv, ReleasedInv, SpentInv, Freed
  <2> QED BY <2>1, <2>2, <2>3, <2>4, StepDone
<1> QED BY <1>1, <1>2

LEMMA CreditAttempt ==
    ASSUME TypeInv, CreditInv, TypeInv', cleanups = {}, NEW o \in Orders,
           NEW state \in {"created", "refused", "lost"}, CreateAttempt(o, state)
    PROVE  CreditInv'
<1>u. /\ RowInv(o) /\ SpentInv(o) /\ attempts \in Nat
      /\ attempt \in [Orders -> Attempts] /\ attempts \in 0..MaxAttempts
  BY Unpacked DEF TypeInv, TypeOK
<1>1. /\ order[o].stage = "open" /\ attempts < MaxAttempts
      /\ attempts' = attempts + 1
      /\ attempt'[o].id = FirstAttempt + attempts /\ attempt'[o].state = state
      /\ \A p \in Orders \ {o} : attempt'[p] = attempt[p]
      /\ UNCHANGED <<account, order, cleanups, used, held, spent, restored, skipped>>
  BY <1>u DEF CreateAttempt
<1>2. FirstAttempt + attempts \in AttemptIds /\ FirstAttempt + attempts < FirstAttempt + (attempts + 1)
  BY <1>u, <1>1, CreditAssumption DEF AttemptIds
<1>3. ~Freed(FirstAttempt + attempts)
  BY <1>2, <1>u, CreditAssumption DEF CreditInv, IdsInv
<1>4. OnlyOne(o) /\ SumInv'
  BY <1>1, SumKept DEF OnlyOne
<1>5. StrandedInv(o)'
  BY <1>1, ExcessKept DEF Excess
<1>6. RowInv(o)'
  BY <1>u, <1>1, <1>2 DEF RowInv, TypeInv
<1>7. ReleasedInv(o)' /\ SpentInv(o)'
  BY <1>u, <1>1, <1>3 DEF ReleasedInv, SpentInv, Freed
<1> QED BY <1>1, <1>4, <1>5, <1>6, <1>7, StepDone

LEMMA CreditPayPal ==
    ASSUME TypeInv, CreditInv, TypeInv', cleanups = {}, NEW o \in Orders, ~Refunded(o),
           \/ Captured(o) \/ Unanswered(o) \/ Declined(o) \/ Reconciled(o)
           \/ \E state \in {"created", "failed", "unsettled"} : Reopened(o, state)
    PROVE  CreditInv'
<1>u. /\ RowInv(o) /\ StrandedInv(o) /\ ReleasedInv(o) /\ SpentInv(o)
      /\ order[o] \in OrderRows /\ TypeOK /\ attempt[o] \in Attempts
      /\ held[o] \in Nat
  BY Unpacked DEF TypeInv
<1>s. PICK s \in States \ {"none"} : Settle(o, s)
  BY DEF Captured, Unanswered, Declined, Reconciled, Reopened, States
<1>1. /\ attempt'[o].id = attempt[o].id /\ attempt'[o].state = s
      /\ \A p \in Orders \ {o} : attempt'[p] = attempt[p]
      /\ attempts' = attempts /\ restored' = restored
  BY <1>u, <1>s DEF Settle, TypeOK, Attempts, Captured, Unanswered, Declined, Reconciled,
                    Reopened
<1>2. CASE Captured(o)
  <2>1. order' = [order EXCEPT ![o] = Paid(o, "paypal")]
    BY <1>2 DEF Captured
  <2>2. /\ order'[o].payment = "paid" /\ order'[o].method = "paypal"
        /\ order'[o].stage = "open" /\ order'[o].applied = order[o].applied
        /\ \A p \in Orders \ {o} : order'[p] = order[p]
    BY <1>u, <2>1 DEF TypeOK, OrderRows, Paid
  <2>3. /\ order[o].stage = "open" /\ order[o].payment = "unpaid"
        /\ Book(o, 0, order[o].applied, {}) /\ UNCHANGED <<cleanups, skipped>>
    BY <1>2, <1>u DEF Captured, Capturable, Refunded, OrderRows, Payments
  <2> QED BY <1>1, <2>2, <2>3, CreditPays
<1>3. CASE Unanswered(o) \/ \E state \in {"created", "failed", "unsettled"} : Reopened(o, state)
  <2>1. UNCHANGED <<account, order, cleanups, used, held, spent, skipped>>
    BY <1>3 DEF Unanswered, Reopened
  <2>2. OnlyOne(o) /\ SumInv'
    BY <1>1, <2>1, SumKept DEF OnlyOne
  <2>3. StrandedInv(o)'
    BY <1>1, <2>1, ExcessKept DEF Excess
  <2>4. RowInv(o)' /\ ReleasedInv(o)' /\ SpentInv(o)'
    BY <1>u, <1>1, <2>1 DEF RowInv, ReleasedInv, SpentInv, Freed, TypeInv
  <2> QED BY <2>1, <2>2, <2>3, <2>4, StepDone
<1>4. CASE Declined(o)
  <2>1. /\ UNCHANGED <<account, order, used, held, spent, skipped>>
        /\ order[o].payment = "unpaid" /\ s = "failed" /\ attempt'[o].state = "failed"
        /\ cleanups' = {[order |-> o, id |-> attempt[o].id, seen |-> -1, unpaid |-> FALSE]}
    <3>1. order[o].payment = "unpaid"
      BY <1>4, <1>u DEF Declined, Capturable, Refunded, OrderRows, Payments
    <3>2. s = "failed" /\ attempt'[o].state = "failed"
      BY <1>4, <1>u, <1>1 DEF Declined, Settle, TypeOK, Attempts
    <3> QED BY <1>4, <3>1, <3>2 DEF Declined
  <2>2. OnlyOne(o) /\ SumInv'
    BY <1>1, <2>1, SumKept DEF OnlyOne
  <2>3. StrandedInv(o)'
    BY <1>1, <2>1, ExcessKept DEF Excess
  <2>4. RowInv(o)' /\ ReleasedInv(o)' /\ SpentInv(o)'
    BY <1>u, <1>1, <2>1 DEF RowInv, ReleasedInv, SpentInv, Freed, TypeInv
  <2>5. /\ \A p \in Orders : OrderInv(p)'
        /\ IdsInv' /\ SkipInv'
    BY <2>2, <2>3, <2>4, OthersKept DEF OrderInv
  <2>6. CleanInv'
    <3> DEFINE d == [order |-> o, id |-> attempt[o].id, seen |-> -1, unpaid |-> FALSE]
    <3>1. /\ d.order = o /\ d.id = attempt[o].id /\ d.seen = -1
          /\ cleanups' = {d}
      BY <2>1
    <3> HIDE DEF d
    <3> QED BY <1>1, <2>1, <3>1 DEF CleanInv
  <2> QED BY <2>2, <2>5, <2>6 DEF CreditInv
<1>5. CASE Reconciled(o)
  <2>1. order' = [order EXCEPT ![o] = Paid(o, "verified")]
    BY <1>5 DEF Reconciled
  <2>2. /\ order'[o].payment = "paid" /\ order'[o].method = "verified"
        /\ order'[o].stage = "open" /\ order'[o].applied = order[o].applied
        /\ \A p \in Orders \ {o} : order'[p] = order[p]
    BY <1>u, <2>1 DEF TypeOK, OrderRows, Paid
  <2>3. /\ UNCHANGED <<account, attempts, cleanups, used, held, spent, restored, skipped>>
    BY <1>5 DEF Reconciled
  <2>4. OnlyOne(o) /\ SumInv'
    BY <1>1, <2>2, <2>3, SumKept DEF OnlyOne
  <2>5. StrandedInv(o)'
    BY <1>u, <2>2, <2>3 DEF StrandedInv, Excess
  <2>6. RowInv(o)' /\ ReleasedInv(o)' /\ SpentInv(o)'
    BY <1>u, <1>1, <2>2, <2>3 DEF RowInv, ReleasedInv, SpentInv, Freed, TypeInv
  <2> QED BY <2>3, <2>4, <2>5, <2>6, StepDone
<1> QED BY <1>2, <1>3, <1>4, <1>5

LEMMA CreditCancels ==
    ASSUME TypeInv, CreditInv, TypeInv', cleanups = {}, NEW o \in Orders, ~Refunded(o),
           BuyerCancel(o) \/ Abandon(o) \/ StaffCancel(o)
    PROVE  CreditInv'
<1>u. /\ RowInv(o) /\ StrandedInv(o) /\ ReleasedInv(o) /\ SpentInv(o)
      /\ order[o] \in OrderRows /\ attempt[o] \in Attempts /\ TypeOK
      /\ held[o] \in Nat /\ restored[o] \in Nat /\ spent[o] \in Nat
      /\ Excess(o) \in Nat /\ order[o].applied \in Nat
  BY Unpacked DEF TypeInv
<1>1. order[o].payment = "unpaid"
  BY <1>u DEF BuyerCancel, Abandon, StaffCancel, Refunded, OrderRows, Payments
<1>2. /\ order'[o].payment = "unpaid" /\ order'[o].method = order[o].method
      /\ order'[o].stage = "cancelled" /\ order'[o].applied = 0
      /\ \A p \in Orders \ {o} : order'[p] = order[p]
  <2>1. order' = [order EXCEPT ![o] = Cancelled(o)]
    BY DEF BuyerCancel, Abandon, StaffCancel
  <2> QED BY <1>u, <1>1, <2>1, CancelledRow DEF TypeOK
<1>3. /\ attempt'[o].id = attempt[o].id
      /\ \A p \in Orders \ {o} : attempt'[p] = attempt[p]
      /\ UNCHANGED <<attempts, cleanups, spent, restored>>
  BY <1>u DEF BuyerCancel, Abandon, StaffCancel, Settle, TypeOK, Attempts
<1>4. PICK k : /\ Release(o, order[o].applied, k)
               /\ \/ k = <<"cancel", attempt[o].id>> /\ attempt[o].id # 0
                  \/ k = <<"abandoned", attempt[o].id>> /\ attempt[o].id # 0
                  \/ k = <<"cancel", o>>
  BY <1>u DEF BuyerCancel, Abandon, StaffCancel, RowInv
<1>5. /\ SumInv'
      /\ \/ held'[o] = Excess(o) /\ skipped' = skipped
         \/ /\ held'[o] = held[o] /\ k \in used /\ order[o].applied # 0
            /\ skipped' = skipped \cup {<<o, k>>}
      /\ \A p \in Orders \ {o} : held'[p] = held[p]
      /\ used' = used \/ used' = used \cup {k}
  BY <1>1, <1>4, ReleaseSum
<1>6. skipped' = skipped \/ (skipped' = skipped \cup {<<o, k>>} /\ k[1] = "cancel")
  <2>1. k = <<"abandoned", attempt[o].id>> /\ attempt[o].id # 0 =>
          ~(k \in used /\ order[o].applied # 0)
    BY <1>u DEF ReleasedInv, Freed
  <2> QED BY <1>4, <1>5, <2>1
<1>7. OnlyOne(o)
  BY <1>2, <1>3, <1>4, <1>5, <1>6 DEF OnlyOne
<1>8. StrandedInv(o)'
  <2>1. Excess(o)' = held'[o]
    BY <1>u, <1>2, <1>5 DEF Excess
  <2>2. CASE held'[o] = Excess(o) /\ skipped' = skipped
    BY <1>2, <2>1, <2>2, ExcessKept
  <2>3. CASE held'[o] = held[o] /\ skipped' = skipped \cup {<<o, k>>}
    <3>1. <<o, k>> \in skipped' /\ <<o, k>>[1] = o
      BY <2>3
    <3>2. held'[o] >= 0
      BY <1>u, <2>3
    <3> QED BY <2>1, <3>1, <3>2 DEF StrandedInv, Excess
  <2> QED BY <1>5, <2>2, <2>3
<1>9. RowInv(o)'
  BY <1>u, <1>1, <1>2, <1>3 DEF RowInv, TypeInv
<1>10. ReleasedInv(o)' /\ SpentInv(o)'
  BY <1>u, <1>1, <1>2, <1>3 DEF ReleasedInv, SpentInv
<1> QED BY <1>3, <1>5, <1>7, <1>8, <1>9, <1>10, StepDone

\* An order that ends, or is open again, with its credit.
LEMMA CreditStages ==
    ASSUME TypeInv, CreditInv, TypeInv', cleanups = {}, NEW o \in Orders,
           NEW stage \in {"open", "dropped"}, order[o].stage # "none", Restage(o, stage)
    PROVE  CreditInv'
<1>u. /\ RowInv(o) /\ ReleasedInv(o) /\ SpentInv(o) /\ order[o] \in OrderRows
  BY Unpacked
<1>1. /\ order'[o].stage = stage /\ order'[o].payment = order[o].payment
      /\ order'[o].method = order[o].method /\ order'[o].applied = order[o].applied
      /\ \A p \in Orders \ {o} : order'[p] = order[p]
      /\ UNCHANGED <<account, attempt, attempts, cleanups, used, held, spent, restored, skipped>>
  BY <1>u DEF Restage, TypeInv, TypeOK, OrderRows
<1>2. OnlyOne(o) /\ SumInv'
  BY <1>1, SumKept DEF OnlyOne
<1>3. StrandedInv(o)'
  BY <1>1, ExcessKept DEF Excess
<1>4. RowInv(o)' /\ ReleasedInv(o)' /\ SpentInv(o)'
  BY <1>u, <1>1 DEF RowInv, ReleasedInv, SpentInv, Freed
<1> QED BY <1>1, <1>2, <1>3, <1>4, StepDone

LEMMA CreditReturns ==
    ASSUME TypeInv, CreditInv, TypeInv', cleanups = {}, NEW o \in Orders,
           NEW x \in 0..Total[o], NEW full \in BOOLEAN, Return(o, x, full)
    PROVE  CreditInv'
<1>u. /\ RowInv(o) /\ StrandedInv(o) /\ ReleasedInv(o) /\ SpentInv(o)
      /\ order[o] \in OrderRows /\ TypeOK
      /\ restored[o] \in Nat /\ spent[o] \in Nat
  BY Unpacked DEF TypeInv
<1>1. /\ order[o].payment # "unpaid" /\ spent[o] = order[o].applied
      /\ restored[o] + x <= order[o].applied
  BY DEF Return, Returnable
<1>2. /\ order'[o].payment # "unpaid" /\ order'[o].method = order[o].method
      /\ order'[o].applied = order[o].applied
      /\ order'[o].stage \in {order[o].stage, "refunded"}
      /\ \A p \in Orders \ {o} : order'[p] = order[p]
  BY <1>u DEF Return, TypeOK, OrderRows
<1>3. /\ restored'[o] = restored[o] + x
      /\ \A p \in Orders \ {o} : restored'[p] = restored[p]
      /\ account'.reserved = account.reserved
      /\ UNCHANGED <<attempt, attempts, cleanups, used, held, spent, skipped>>
  BY <1>u DEF Return, TypeOK
<1>4. OnlyOne(o) /\ SumInv'
  BY <1>2, <1>3, SumKept DEF OnlyOne
<1>5. order[o].stage \notin {"none", "cancelled"}
  BY <1>u, <1>1 DEF RowInv
<1>6. StrandedInv(o)'
  BY <1>1, <1>2, <1>3, <1>5, ExcessKept DEF Excess
<1>7. RowInv(o)' /\ ReleasedInv(o)' /\ SpentInv(o)'
  BY <1>u, <1>1, <1>2, <1>3, <1>5 DEF RowInv, ReleasedInv, SpentInv, Freed
<1> QED BY <1>3, <1>4, <1>6, <1>7, StepDone

\* Nothing changes but the account's balance, keys and clean-ups.
LEMMA CreditRest ==
    ASSUME TypeInv, CreditInv, TypeInv', CleanInv',
           UNCHANGED <<order, attempt, attempts, held, spent, restored, skipped>>,
           account'.reserved = account.reserved, used \subseteq used',
           \A w \in {"declined", "abandoned"}, i \in AttemptIds :
             <<w, i>> \in used' => <<w, i>> \in used
    PROVE  CreditInv'
<1>1. \A p \in Orders : attempt[p].id # 0 => (Freed(attempt[p].id)' => Freed(attempt[p].id))
  BY DEF Freed, TypeInv, TypeOK, Attempts
<1>2. \A p \in Orders : StrandedInv(p)'
  <2> TAKE p \in Orders
  <2>1. Excess(p)' = Excess(p)
    BY DEF Excess
  <2> QED BY <2>1, ExcessKept
<1>3. \A p \in Orders : RowInv(p)' /\ ReleasedInv(p)' /\ SpentInv(p)'
  BY <1>1 DEF CreditInv, OrderInv, RowInv, ReleasedInv, SpentInv, Freed
<1>4. IdsInv' /\ SkipInv'
  BY DEF CreditInv, IdsInv, SkipInv, Freed
<1>5. SumInv'
  BY SumKept
<1> QED BY <1>2, <1>3, <1>4, <1>5 DEF CreditInv, OrderInv

LEMMA CreditCleans ==
    ASSUME TypeInv, CreditInv, TypeInv', NEW c \in cleanups,
           ReadDeclined(c) \/ CleanUp(c)
    PROVE  CreditInv'
<1>o. PICK o \in Orders : o = c.order
  BY DEF TypeInv, TypeOK, Cleanups
<1>u. /\ RowInv(o) /\ StrandedInv(o) /\ ReleasedInv(o) /\ SpentInv(o)
      /\ order[o] \in OrderRows /\ attempt[o] \in Attempts /\ TypeOK
      /\ Excess(o) \in Nat /\ restored[o] \in Nat /\ spent[o] \in Nat
      /\ c \in Cleanups
  BY Unpacked DEF TypeInv, TypeOK
<1>1. /\ order[o].payment = "unpaid" /\ attempt[o].id = c.id /\ attempt[o].state = "failed"
      /\ c.seen \in {-1, order[o].applied} /\ cleanups = {c}
  BY <1>o DEF CreditInv, CleanInv
<1>2. CASE ReadDeclined(c)
  <2> DEFINE d == [c EXCEPT !.seen = order[c.order].applied,
                            !.unpaid = order[c.order].payment # "paid"]
  <2>1. cleanups' = {d} /\ UNCHANGED <<account, order, attempt, attempts, used, held, spent, restored, skipped>>
    BY <1>1, <1>2 DEF ReadDeclined
  <2>2. d.order = o /\ d.id = c.id /\ d.seen = order[o].applied
    BY <1>o, <1>u DEF Cleanups
  <2> HIDE DEF d
  <2>3. CleanInv'
    BY <1>1, <2>1, <2>2 DEF CleanInv
  <2> QED BY <2>1, <2>3, CreditRest
<1>3. CASE CleanUp(c)
  <2>1. cleanups' = {} /\ UNCHANGED <<attempt, attempts, spent, restored>> /\ c.seen >= 0
    BY <1>1, <1>3 DEF CleanUp
  <2>2. CASE UNCHANGED <<account, order, held, used, skipped>>
    <3>1. CleanInv'
      BY <2>1 DEF CleanInv
    <3> QED BY <2>1, <2>2, <3>1, CreditRest
  <2>3. CASE ~UNCHANGED <<account, order, held, used, skipped>>
    <3>1. /\ Release(o, c.seen, <<"declined", c.id>>)
          /\ order' = [order EXCEPT ![o].applied = 0]
          /\ c.seen = order[o].applied
      BY <1>o, <1>1, <1>3, <2>1, <2>3 DEF CleanUp
    <3>2. /\ order'[o].payment = "unpaid" /\ order'[o].method = order[o].method
          /\ order'[o].stage = order[o].stage /\ order'[o].applied = 0
          /\ \A p \in Orders \ {o} : order'[p] = order[p]
      BY <1>1, <1>u, <3>1 DEF TypeOK, OrderRows
    <3>3. Release(o, order[o].applied, <<"declined", attempt[o].id>>)
      BY <1>1, <3>1
    <3>4. /\ SumInv'
          /\ \/ held'[o] = Excess(o) /\ skipped' = skipped
             \/ held'[o] = held[o] /\ <<"declined", attempt[o].id>> \in used /\ order[o].applied # 0
          /\ \A p \in Orders \ {o} : held'[p] = held[p]
          /\ used' = used \/ used' = used \cup {<<"declined", attempt[o].id>>}
      BY <1>1, <3>3, ReleaseSum
    <3>5. held'[o] = Excess(o) /\ skipped' = skipped
      BY <1>u, <1>1, <3>4 DEF ReleasedInv, Freed, RowInv
    <3>6. OnlyOne(o)
      BY <2>1, <3>2, <3>4, <3>5 DEF OnlyOne
    <3>7. StrandedInv(o)'
      <4>1. Excess(o)' = Excess(o)
        BY <1>u, <3>2, <3>5 DEF Excess
      <4> QED BY <3>2, <3>5, <4>1, ExcessKept
    <3>8. RowInv(o)' /\ ReleasedInv(o)' /\ SpentInv(o)'
      BY <1>u, <1>1, <2>1, <3>2 DEF RowInv, ReleasedInv, SpentInv
    <3> QED BY <2>1, <3>4, <3>6, <3>7, <3>8, StepDone
  <2> QED BY <2>2, <2>3
<1> QED BY <1>2, <1>3

LEMMA CreditStep == TypeInv /\ CreditInv /\ [OrderlyNext]_vars => CreditInv'
<1> SUFFICES ASSUME TypeInv, CreditInv, [OrderlyNext]_vars PROVE CreditInv'
  OBVIOUS
<1>t. TypeInv'
  BY TypeStep, OrderlyIsNext
<1>1. CASE CleaningUp
  BY <1>t, <1>1, CreditCleans DEF CleaningUp
<1>2. ASSUME cleanups = {}, NEW x \in Grants, Adjust(x) PROVE CreditInv'
  <2>1. /\ UNCHANGED <<order, attempt, attempts, cleanups, held, spent, restored, skipped>>
        /\ account'.reserved = account.reserved
        /\ used' = used \cup {<<"adjust", x>>}
    BY <1>2 DEF Adjust, TypeInv, TypeOK
  <2>2. CleanInv'
    BY <1>2, <2>1 DEF CleanInv
  <2> QED BY <1>t, <2>1, <2>2, CreditRest
<1>3. ASSUME cleanups = {}, NEW o \in Orders, ~Refunded(o), Using(o) PROVE CreditInv'
  BY <1>t, <1>3, CreditApply, CreditAttempt, CreditPayPal, CreditCancels DEF Using
<1>4. ASSUME cleanups = {}, NEW o \in Orders, Serving(o) PROVE CreditInv'
  <2>1. CASE Abandon(o)
    <3>1. ~Refunded(o)
      BY <2>1 DEF Abandon, Refunded
    <3> QED BY <1>t, <1>4, <2>1, <3>1, CreditCancels
  <2>2. ASSUME NEW stage \in {"open", "dropped"}, order[o].stage # "none", Restage(o, stage)
        PROVE  CreditInv'
    BY <1>t, <1>4, <2>2, CreditStages
  <2>3. CASE Archive(o) \/ CancelFulfilment(o)
             \/ \E stage \in {"open", "dropped"} : EditStatus(o, stage)
    BY <2>2, <2>3 DEF Archive, CancelFulfilment, EditStatus
  <2> QED BY <1>t, <1>4, <2>1, <2>3, CreditPlace, CreditCash, CreditReturns DEF Serving
<1>5. CASE UNCHANGED vars
  <2>1. CleanInv' /\ used' = used /\ account' = account
        /\ UNCHANGED <<order, attempt, attempts, held, spent, restored, skipped>>
    BY <1>5 DEF vars, CleanInv, CreditInv
  <2> QED BY <1>t, <2>1, CreditRest
<1> QED BY <1>1, <1>2, <1>3, <1>4, <1>5 DEF OrderlyNext, Adjusting

-----------------------------------------------------------------------------
(* What follows in the orderly runs: those where no refunded order is used  *)
(* again and nothing comes between a decline and its clean-up.  The code    *)
(* has others, and each of the two sequences breaks these properties.       *)

THEOREM CreditHolds == OrderlySpec => []CreditInv
<1> QED BY CreditStep, CreditInit, OrderlyTypes, PTL DEF OrderlySpec

\* In an orderly run the account's one reserved sum is what the orders hold, and
\* no order gives up more than that.
THEOREM EachItsOwn == OrderlySpec => []NeverOverdrawn
<1>1. TypeInv /\ CreditInv => NeverOverdrawn
  <2> SUFFICES ASSUME TypeInv, CreditInv PROVE NeverOverdrawn
    OBVIOUS
  <2>1. account.reserved = Cardinality(Units(held))
    BY DEF CreditInv, SumInv
  <2>2. \A o \in Orders : held[o] >= IF order[o].payment = "unpaid" THEN order[o].applied ELSE 0
    <3> TAKE o \in Orders
    <3> QED BY Unpacked DEF Excess
  <2> QED BY <2>1, <2>2 DEF NeverOverdrawn
<1> QED BY <1>1, CreditHolds, OrderlyTypes, PTL

\* In an orderly run credit stays reserved only for an unpaid order that is open or
\* was dropped with it, after a reconciled payment, or after a cancellation that
\* found its key used.
THEOREM StrandedKnown == OrderlySpec => []NothingStranded
<1>1. TypeInv /\ CreditInv => NothingStranded
  <2> SUFFICES ASSUME TypeInv, CreditInv PROVE NothingStranded
    OBVIOUS
  <2>1. ASSUME NEW o \in Orders, held[o] > Kept(o)
        PROVE  order[o].method = "verified" \/ \E s \in skipped : s[1] = o
    <3>1. /\ held[o] \in Nat /\ order[o].applied \in Nat /\ StrandedInv(o) /\ RowInv(o)
          /\ order[o] \in OrderRows
      BY Unpacked
    <3>2. Kept(o) = IF order[o].payment = "unpaid" THEN order[o].applied ELSE 0
      BY <3>1 DEF Kept, RowInv, OrderRows, Stages
    <3>3. Excess(o) > 0
      BY <2>1, <3>1, <3>2 DEF Excess
    <3> QED BY <3>1, <3>3 DEF StrandedInv
  <2>2. \A s \in skipped : s[2][1] = "cancel"
    BY DEF CreditInv, SkipInv
  <2> QED BY <2>1, <2>2 DEF NothingStranded
<1> QED BY <1>1, CreditHolds, OrderlyTypes, PTL

\* In an orderly run applied credit is consumed once, by the payment, and returned
\* at most once.
THEOREM ConsumedOnce == OrderlySpec => []SpentOnce
<1>1. CreditInv => SpentOnce
  BY DEF CreditInv, OrderInv, SpentInv, SpentOnce
<1> QED BY <1>1, CreditHolds, PTL

=============================================================================
