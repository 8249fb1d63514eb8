----------------------- MODULE PayPalCheckout_proofs -----------------------
(***************************************************************************)
(* Theorems about PayPalCheckout for every number of attempts, with and    *)
(* without expiring reservations: of Spec, but for the charges, which a    *)
(* clean-up that overwrites a revived attempt loses (IntactSpec).          *)
(***************************************************************************)
EXTENDS PayPalCheckout, FiniteSetTheorems, TLAPS

-----------------------------------------------------------------------------
(* What the building blocks of the handlers do to the types.               *)

\* Rewriting the state of one row, or storing its capture, keeps the table.
LEMMA RowTypes ==
    ASSUME attempts \in [Attempts -> AttemptRows], NEW a, NEW s \in AttemptStates
    PROVE  /\ SetState(a, s) \in [Attempts -> AttemptRows]
           /\ [attempts EXCEPT ![a].state = s, ![a].captured = TRUE]
                \in [Attempts -> AttemptRows]
BY DEF SetState, AttemptRows

\* Inserting the row of a create keeps the table.
LEMMA NewRowType ==
    ASSUME attempts \in [Attempts -> AttemptRows], tx \in Calling,
           NEW s \in AttemptStates, NEW po \in BOOLEAN
    PROVE  NewRow(s, po) \in [Attempts -> AttemptRows]
BY DEF NewRow, AttemptRows, Calling

\* A transaction record is one however it starts; one that is not NoTx
\* names an attempt.
LEMMA TxTypes ==
    ASSUME order \in OrderRows, tx \in Transactions, NEW a \in Attempts,
           NEW op \in {"create", "capture", "cancel", "reconcile", "expire"}
    PROVE  /\ NoTx \in Transactions
           /\ Lock(op, a) \in Transactions
           /\ [Lock(op, a) EXCEPT !.fresh = ~HoldActive] \in Transactions
<1>1. HoldActive \in BOOLEAN
  BY DEF HoldActive
<1>2. Lock(op, a) \in Calling
  BY DEF Lock, NoTx, Calling, OrderRows, ProviderStates
<1>3. [Lock(op, a) EXCEPT !.fresh = ~HoldActive] \in Calling
  BY <1>1, <1>2 DEF Calling
<1> QED BY <1>2, <1>3 DEF Transactions

LEMMA TxAttempt ==
    ASSUME tx \in Transactions, tx.op # "none"
    PROVE  tx \in Calling /\ tx.a \in Attempts
BY DEF Transactions, Calling, NoTx

\* Releasing, confirming, rewriting or expiring a reservation keeps its type.
LEMMA HoldTypes ==
    ASSUME hold \in Holds
    PROVE  /\ ReleasedHold \in Holds
           /\ CommittedHold \in Holds
           /\ \A s \in {"reserved", "released", "confirmed"} :
                /\ [hold EXCEPT !.state = s] \in Holds
                /\ [CommittedHold EXCEPT !.state = s] \in Holds
           /\ [hold EXCEPT !.lapsed = TRUE] \in Holds
BY DEF ReleasedHold, CommittedHold, Holds

\* Spending a ledger key that fits keeps the account's type: the amount the
\* account holds in reserve never goes below zero.
LEMMA SpendKeyType ==
    ASSUME account \in Accounts, NEW a \in 0 .. MaxAttempts,
           NEW w \in {"consume", "release:declined", "release:cancel",
                      "release:abandoned", "release:staff"},
           KeyFits(Key(w, a))
    PROVE  SpendKey(Key(w, a)) \in Accounts
<1>1. Key(w, a) \in CreditKeys
  BY DEF Key, CreditKeys
<1> QED BY <1>1 DEF SpendKey, KeyFits, Accounts

\* The order's row keeps its type in every update the handlers make.
LEMMA OrderTypes ==
    ASSUME order \in OrderRows
    PROVE  /\ [order EXCEPT !.paid = TRUE, !.status = "confirmed"] \in OrderRows
           /\ [order EXCEPT !.status = "cancelled", !.credit = FALSE] \in OrderRows
           /\ \A c \in BOOLEAN : Uncredited(c) \in OrderRows
BY DEF OrderRows, Uncredited

\* The states the handlers write are states of the table.
LEMMA StateTypes ==
    /\ {"created", "approved", "captured", "failed", "cancelled",
        "reconciliation_required"} \subseteq AttemptStates
    /\ \A s : LocalState(s) \in AttemptStates
BY DEF AttemptStates, LocalState

\* A step of PayPal keeps the type of its side and of the mail.
LEMMA MovesType ==
    ASSUME TypeOK, NEW a \in Attempts, NEW s \in ProviderStates,
           NEW asked \in BOOLEAN, NEW type \in {"APPROVED", "CAPTURE"},
           NEW ev \in {{}, Event(type, a)}, Moves(a, s, asked, ev)
    PROVE  TypeOK'
<1>1. [status |-> s, asked |-> asked] \in Sides
  BY DEF Sides
<1>2. provider' \in [Attempts -> Sides]
  BY <1>1 DEF Moves, TypeOK
<1>3. ev \subseteq Events
  BY DEF Event, Events
<1> QED BY <1>2, <1>3 DEF Moves, TypeOK

-----------------------------------------------------------------------------
(* Type correctness.                                                       *)

LEMMA TypeInit == Init => TypeOK
<1> SUFFICES ASSUME Init PROVE TypeOK
  OBVIOUS
<1>1. attempts \in [Attempts -> AttemptRows]
  BY DEF Init, AttemptRows, AttemptStates
<1>2. order \in OrderRows /\ account \in Accounts /\ hold \in Holds
  BY ConstantsAssumption DEF Init, OrderRows, Accounts, Holds
<1>3. provider \in [Attempts -> Sides]
  BY DEF Init, Sides, ProviderStates
<1>4. tx \in Transactions
  BY DEF Init, Transactions
<1> QED BY <1>1, <1>2, <1>3, <1>4, ConstantsAssumption DEF TypeOK, Init

\* The steps of create.
LEMMA TypeCreate ==
    ASSUME TypeOK, BeginCreate \/ CreateSucceeds \/ CreateUnclear \/ CreateFails
    PROVE  TypeOK'
<1>1. CASE BeginCreate
  <2>1. lastId + 1 \in Attempts
    BY <1>1, ConstantsAssumption DEF BeginCreate, TypeOK, Attempts
  <2>2. tx' \in Transactions
    BY <1>1, <2>1, TxTypes DEF BeginCreate, TypeOK
  <2>3. lastId' \in 0 .. MaxAttempts
    BY <1>1, ConstantsAssumption DEF BeginCreate, TypeOK
  <2> QED BY <1>1, <2>2, <2>3 DEF BeginCreate, TypeOK
<1>2. tx.op = "create" => tx \in Calling
  BY TxAttempt DEF TypeOK
<1>3. NoTx \in Transactions
  BY DEF Transactions
<1>4. CASE CreateSucceeds
  <2>1. provider' \in [Attempts -> Sides]
    BY <1>4 DEF CreateSucceeds, TypeOK, Sides, ProviderStates
  <2> QED BY <1>2, <1>3, <1>4, <2>1, StateTypes, NewRowType, HoldTypes
          DEF CreateSucceeds, TypeOK
<1>5. CASE CreateUnclear
  BY <1>2, <1>3, <1>5, StateTypes, NewRowType, HoldTypes DEF CreateUnclear, TypeOK
<1>6. CASE CreateFails
  BY <1>2, <1>3, <1>6, StateTypes, NewRowType, HoldTypes DEF CreateFails, TypeOK
<1> QED BY <1>1, <1>4, <1>5, <1>6

\* The steps of capture.
LEMMA TypeCapture ==
    ASSUME TypeOK,
           \/ \E a \in Attempts : BeginCapture(a)
           \/ CaptureSettles \/ CaptureUnsettled \/ CaptureDeclined
           \/ CaptureUnclear
    PROVE  TypeOK'
<1>n. NoTx \in Transactions
  BY DEF Transactions
<1>a. tx.op = "capture" => tx.a \in Attempts /\ tx.a \in 0 .. MaxAttempts
  BY TxAttempt, ConstantsAssumption DEF TypeOK, Attempts
<1>1. ASSUME NEW a \in Attempts, BeginCapture(a) PROVE TypeOK'
  <2>1. provider' \in [Attempts -> Sides]
    BY <1>1 DEF BeginCapture, TypeOK, Sides
  <2> QED BY <1>1, <2>1, TxTypes DEF BeginCapture, TypeOK
<1>2. CASE CaptureSettles
  <2>1. account' \in Accounts
    BY <1>2, <1>a, SpendKeyType DEF CaptureSettles, TypeOK
  <2> QED BY <1>n, <1>2, <2>1, StateTypes, RowTypes, HoldTypes, OrderTypes
          DEF CaptureSettles, TypeOK
<1>3. CASE CaptureUnsettled
  BY <1>n, <1>3, StateTypes, RowTypes DEF CaptureUnsettled, TypeOK
<1>4. CASE CaptureDeclined
  <2>1. provider' \in [Attempts -> Sides]
    BY <1>4 DEF CaptureDeclined, TypeOK, Sides
  <2>2. [a |-> tx.a, stage |-> "due", unpaid |-> FALSE, credit |-> FALSE]
          \in CleanupTasks
    BY <1>4, <1>a DEF CaptureDeclined, CleanupTasks
  <2>3. cleanups' \subseteq CleanupTasks
    BY <1>4, <2>2 DEF CaptureDeclined, TypeOK
  <2> QED BY <1>n, <1>4, <2>1, <2>3, StateTypes, RowTypes, HoldTypes
          DEF CaptureDeclined, TypeOK
<1>5. CASE CaptureUnclear
  BY <1>n, <1>5, StateTypes, RowTypes DEF CaptureUnclear, TypeOK
<1> QED BY <1>1, <1>2, <1>3, <1>4, <1>5

\* The steps of the calls that look PayPal's order up.
LEMMA TypeLookUp ==
    ASSUME TypeOK,
           \/ \E a \in Attempts : BeginCancel(a) \/ BeginReconcile(a) \/ BeginExpire(a)
           \/ LookUp \/ CancelSucceeds \/ ExpireSucceeds \/ CancelRefused
           \/ ReconcileCaptured \/ ReconcileVoided \/ ReconcileOpen \/ TxAborts
    PROVE  TypeOK'
<1>n. NoTx \in Transactions
  BY DEF Transactions
<1>1. ASSUME NEW a \in Attempts, BeginCancel(a) \/ BeginReconcile(a) \/ BeginExpire(a)
      PROVE  TypeOK'
  BY <1>1, TxTypes DEF BeginCancel, BeginReconcile, BeginExpire, TypeOK
<1>2. CASE LookUp
  <2>1. tx \in Calling /\ tx.a \in Attempts
    BY <1>2, TxAttempt DEF LookUp, TypeOK
  <2>2. provider[tx.a].status \in ProviderStates
    BY <2>1 DEF TypeOK, Sides
  <2>3. tx' \in Calling
    BY <1>2, <2>1, <2>2 DEF LookUp, Calling
  <2> QED BY <1>2, <2>3 DEF LookUp, TypeOK, Transactions
<1>3. ASSUME NEW s \in {"cancelled", "failed"},
             NEW why \in {"release:cancel", "release:abandoned"},
             tx.op # "none", CloseCheckout(s, why)
      PROVE  TypeOK'
  <2>1. tx.a \in 0 .. MaxAttempts
    BY <1>3, TxAttempt, ConstantsAssumption DEF TypeOK, Attempts
  <2>2. account' \in Accounts
    BY <1>3, <2>1, SpendKeyType DEF CloseCheckout, TypeOK
  <2> QED BY <1>n, <1>3, <2>2, StateTypes, RowTypes, HoldTypes, OrderTypes
          DEF CloseCheckout, TypeOK
<1>4. CASE CancelSucceeds \/ ExpireSucceeds
  BY <1>3, <1>4 DEF CancelSucceeds, ExpireSucceeds
<1>5. CASE CancelRefused
  BY <1>n, <1>5, StateTypes, RowTypes DEF CancelRefused, TypeOK
<1>6. CASE ReconcileCaptured
  BY <1>n, <1>6, StateTypes, RowTypes, HoldTypes, OrderTypes
     DEF ReconcileCaptured, TypeOK
<1>7. CASE ReconcileVoided
  BY <1>n, <1>7, StateTypes, RowTypes, HoldTypes DEF ReconcileVoided, TypeOK
<1>8. CASE ReconcileOpen
  BY <1>n, <1>8, StateTypes, RowTypes DEF ReconcileOpen, TypeOK
<1>9. CASE TxAborts
  BY <1>n, <1>9 DEF TxAborts, TypeOK
<1> QED BY <1>1, <1>2, <1>4, <1>5, <1>6, <1>7, <1>8, <1>9

\* The steps that take no lock: staff, clean-ups, webhooks.
LEMMA TypeOthers ==
    ASSUME TypeOK, StaffCancel \/ Cleanups \/ CleanupOverwrites \/ Webhooks
    PROVE  TypeOK'
<1>1. CASE StaffCancel
  <2>1. account' \in Accounts
    BY <1>1, SpendKeyType, ConstantsAssumption DEF StaffCancel, TypeOK
  <2> QED BY <1>1, <2>1, HoldTypes, OrderTypes DEF StaffCancel, TypeOK
<1>2. CASE CleanupReads
  <2>1. \A c \in CleanupTasks :
          [c EXCEPT !.stage = "read", !.unpaid = ~order.paid, !.credit = order.credit]
            \in CleanupTasks
    BY DEF TypeOK, CleanupTasks, OrderRows
  <2>2. cleanups' \subseteq CleanupTasks
    BY <1>2, <2>1 DEF CleanupReads, TypeOK
  <2> QED BY <1>2, <2>2 DEF CleanupReads, TypeOK
<1>3. CASE CleanupWrites \/ CleanupOverwrites
  <2>1. PICK c \in cleanups :
          /\ c.credit => KeyFits(Key("release:declined", c.a))
          /\ attempts' = (IF c.unpaid THEN SetState(c.a, "failed") ELSE attempts)
          /\ hold' = (IF c.unpaid THEN ReleasedHold ELSE hold)
          /\ account' = (IF c.credit THEN SpendKey(Key("release:declined", c.a))
                         ELSE account)
          /\ order' = Uncredited(c.credit)
          /\ cleanups' = cleanups \ {c}
          /\ UNCHANGED <<lastId, provider, mail, tx, hooks>>
    BY <1>3 DEF CleanupWrites, CleanupOverwrites, CleanUp
  <2>2. c.a \in 0 .. MaxAttempts /\ c.credit \in BOOLEAN
    BY ConstantsAssumption DEF TypeOK, CleanupTasks, Attempts
  <2>3. account' \in Accounts
    BY <2>1, <2>2, SpendKeyType DEF TypeOK
  <2> QED BY <2>1, <2>2, <2>3, StateTypes, RowTypes, HoldTypes, OrderTypes
          DEF TypeOK
<1>4. CASE CleanupLost
  BY <1>4 DEF CleanupLost, TypeOK
<1>5. CASE HookReads
  <2>1. PICK e \in mail : hooks' = hooks \cup {[e |-> e, seen |-> Row(e.a)]}
    BY <1>5 DEF HookReads
  <2>2. Row(e.a) \in AttemptStates
    BY <2>1 DEF TypeOK, Events, Row, AttemptRows
  <2>3. hooks' \subseteq Handlers
    BY <2>1, <2>2 DEF TypeOK, Handlers
  <2> QED BY <1>5, <2>3 DEF HookReads, TypeOK
<1>6. CASE HookWrites
  <2>1. \A h : /\ Approved(h) \in [Attempts -> AttemptRows]
               /\ CaptureNoted(h) \in [Attempts -> AttemptRows]
    BY StateTypes, RowTypes DEF TypeOK, Approved, CaptureNoted
  <2> QED BY <1>6, <2>1 DEF HookWrites, TypeOK
<1>7. CASE HookFails
  BY <1>7 DEF HookFails, TypeOK
<1> QED BY <1>1, <1>2, <1>3, <1>4, <1>5, <1>6, <1>7 DEF Cleanups, Webhooks

\* The steps of PayPal, the buyer and the other orders.
LEMMA TypeWorld ==
    ASSUME TypeOK, World
    PROVE  TypeOK'
<1>1. ASSUME NEW a \in Attempts,
             BuyerApproves(a) \/ ProviderCaptures(a) \/ ProviderDecides(a)
               \/ ProviderVoids(a)
      PROVE  TypeOK'
  BY <1>1, MovesType DEF BuyerApproves, ProviderCaptures, ProviderDecides,
                         ProviderVoids, ProviderStates
<1>2. CASE HoldLapses
  BY <1>2, HoldTypes DEF HoldLapses, TypeOK
<1>3. CASE OtherOrderSweeps
  BY <1>3, HoldTypes DEF OtherOrderSweeps, TypeOK
<1> QED BY <1>1, <1>2, <1>3 DEF World

LEMMA TypeStep == TypeOK /\ [Next]_vars => TypeOK'
<1> SUFFICES ASSUME TypeOK, [Next]_vars PROVE TypeOK'
  OBVIOUS
<1>1. CASE Calls
  BY <1>1, TypeCreate, TypeCapture, TypeLookUp, TypeOthers DEF Calls
<1>2. CASE Cleanups \/ CleanupOverwrites \/ Webhooks
  BY <1>2, TypeOthers
<1>3. CASE World
  BY <1>3, TypeWorld
<1>4. CASE UNCHANGED vars
  BY <1>4 DEF vars, TypeOK
<1> QED BY <1>1, <1>2, <1>3, <1>4 DEF Next, IntactNext

\* Every variable keeps its type; in particular the credit a customer holds
\* in reserve never goes below zero.
THEOREM TypeCorrect == Spec => []TypeOK
<1> QED BY TypeInit, TypeStep, PTL DEF Spec

-----------------------------------------------------------------------------
(* Settlement: what is paid is backed, what is captured stays captured.    *)

CapturedStays ==
    \A a \in Attempts : Row(a) = "captured" =>
      attempts'[a].state \in {"captured", "reconciliation_required"}

\* Nothing is captured, sold or paid while the order is unpaid.
LEMMA UnpaidOrder ==
    ASSUME SettlementInv, ~order.paid
    PROVE  hold.state # "confirmed" /\ \A a \in Attempts : Row(a) # "captured"
BY DEF SettlementInv, SoldOnlyIfPaid

\* A step that ends a call on an unpaid order and leaves it unpaid.
LEMMA EndUnpaid ==
    ASSUME TypeOK, SettlementInv, ~order.paid, ~order'.paid, tx' = NoTx,
           hold'.state # "confirmed",
           \A a \in Attempts : attempts'[a].state # "captured"
    PROVE  SettlementInv' /\ CapturedStays
<1>1. \A a \in Attempts : Row(a) # "captured" /\ Row(a)' # "captured"
  BY UnpaidOrder DEF Row
<1>2. PaidIsBacked' /\ SoldOnlyIfPaid'
  BY DEF PaidIsBacked, SoldOnlyIfPaid
<1>3. tx'.op = "none" /\ tx'.seen = "none"
  BY DEF NoTx
<1> QED BY <1>1, <1>2, <1>3 DEF SettlementInv, CapturedStays

\* A step that keeps captured rows, payment and sale, and starts no call
\* that may not start.
LEMMA KeepSettlement ==
    ASSUME TypeOK, SettlementInv,
           order'.paid = order.paid,
           hold'.state = "confirmed" <=> hold.state = "confirmed",
           \A a \in Attempts :
             /\ provider[a].status = "COMPLETED" => provider'[a].status = "COMPLETED"
             /\ attempts[a].captured => attempts'[a].captured
             /\ Row(a) = "captured" =>
                  attempts'[a].state \in {"captured", "reconciliation_required"}
             /\ attempts'[a].state = "captured" => Row(a) = "captured",
           \/ tx' = tx
           \/ tx' = NoTx
           \/ tx'.op \in {"create", "capture", "cancel", "expire"} /\ ~order.paid
                /\ tx'.seen = "none"
           \/ tx'.op = "reconcile" /\ tx'.seen = "none"
    PROVE  SettlementInv' /\ CapturedStays
<1>1. CapturedStays
  BY DEF CapturedStays
<1>2. PaidIsBacked' /\ SoldOnlyIfPaid'
  BY DEF SettlementInv, PaidIsBacked, SoldOnlyIfPaid
<1>3. \A a \in Attempts : Row(a)' = "captured" =>
        order'.paid /\ provider'[a].status = "COMPLETED"
  BY DEF SettlementInv, Row
<1>4. CASE tx' = tx
  <2>1. tx.op = "none" => tx.seen = "none"
    BY DEF TypeOK, Transactions, Calling, NoTx
  <2>2. tx.op # "none" => tx.a \in Attempts
    BY TxAttempt DEF TypeOK
  <2>3. tx.seen = "COMPLETED" => provider'[tx.a].status = "COMPLETED"
    BY <2>1, <2>2 DEF SettlementInv
  <2>4. tx.op = "reconcile" /\ attempts'[tx.a].state = "captured" =>
          tx.seen \in {"none", "error", "COMPLETED"}
    BY <2>2 DEF SettlementInv, Row
  <2>5. tx.op \in {"create", "capture", "cancel", "expire"} => ~order'.paid
    BY DEF SettlementInv
  <2> QED BY <1>1, <1>2, <1>3, <1>4, <2>3, <2>4, <2>5 DEF SettlementInv, Row
<1>5. CASE tx' = NoTx
  <2>1. tx'.op = "none" /\ tx'.seen = "none"
    BY <1>5 DEF NoTx
  <2> QED BY <1>1, <1>2, <1>3, <2>1 DEF SettlementInv, Row
<1>6. CASE tx'.op \in {"create", "capture", "cancel", "expire"} /\ ~order.paid
             /\ tx'.seen = "none"
  BY <1>1, <1>2, <1>3, <1>6 DEF SettlementInv, Row
<1>7. CASE tx'.op = "reconcile" /\ tx'.seen = "none"
  BY <1>1, <1>2, <1>3, <1>7 DEF SettlementInv, Row
<1> QED BY <1>1, <1>4, <1>5, <1>6, <1>7

\* A step that pays the order: the stored capture of tx.a backs it.
LEMMA PayOrder ==
    ASSUME TypeOK, SettlementInv, tx.op # "none",
           provider[tx.a].status = "COMPLETED", provider' = provider,
           attempts' = [attempts EXCEPT ![tx.a].state = "captured",
                                        ![tx.a].captured = TRUE],
           order'.paid = TRUE, hold'.state = "confirmed", tx' = NoTx
    PROVE  SettlementInv' /\ CapturedStays
<1>1. tx.a \in Attempts
  BY TxAttempt DEF TypeOK
<1>2. attempts'[tx.a].captured /\ attempts'[tx.a].state = "captured"
  BY <1>1 DEF TypeOK, AttemptRows
<1>3. \A a \in Attempts : a # tx.a => attempts'[a] = attempts[a]
  BY <1>1 DEF TypeOK
<1>4. PaidIsBacked' /\ SoldOnlyIfPaid'
  BY <1>1, <1>2 DEF PaidIsBacked, SoldOnlyIfPaid
<1>5. \A a \in Attempts : Row(a)' = "captured" =>
        order'.paid /\ provider'[a].status = "COMPLETED"
  BY <1>2, <1>3 DEF SettlementInv, Row
<1>6. tx'.op = "none" /\ tx'.seen = "none"
  BY DEF NoTx
<1>7. CapturedStays
  BY <1>2, <1>3 DEF CapturedStays, Row
<1> QED BY <1>4, <1>5, <1>6, <1>7 DEF SettlementInv

\* Setting one row to a state other than "captured" captures nothing.
LEMMA SetStateCaptures ==
    ASSUME TypeOK, NEW a, NEW s
    PROVE  \A b \in Attempts :
             /\ SetState(a, s)[b].captured = attempts[b].captured
             /\ SetState(a, s)[b].state = (IF b = a THEN s ELSE Row(b))
BY DEF SetState, Row, TypeOK, AttemptRows

LEMMA SettlementInit == Init => SettlementInv
BY DEF Init, SettlementInv, PaidIsBacked, SoldOnlyIfPaid, Row, NoTx

\* The calls of create and capture.
LEMMA SettlementPays ==
    ASSUME TypeOK, SettlementInv,
           \/ BeginCreate \/ CreateSucceeds \/ CreateUnclear \/ CreateFails
           \/ \E a \in Attempts : BeginCapture(a)
           \/ CaptureSettles \/ CaptureUnsettled \/ CaptureDeclined \/ CaptureUnclear
    PROVE  SettlementInv' /\ CapturedStays
<1> USE DEF Row
<1>1. CASE BeginCreate
  BY <1>1, KeepSettlement DEF BeginCreate, MayStart, Payable, Lock, NoTx
<1>2. ASSUME NEW a \in Attempts, BeginCapture(a)
      PROVE  SettlementInv' /\ CapturedStays
  <2>1. \A b \in Attempts : provider'[b].status = provider[b].status
    BY <1>2 DEF BeginCapture, TypeOK, Sides
  <2> QED BY <1>2, <2>1, KeepSettlement DEF BeginCapture, Payable, Lock, NoTx
<1>3. ASSUME CreateSucceeds \/ CreateUnclear \/ CreateFails
      PROVE  SettlementInv' /\ CapturedStays
  <2>1. ~order.paid /\ ~order'.paid /\ tx' = NoTx
    BY <1>3 DEF CreateSucceeds, CreateUnclear, CreateFails, SettlementInv
  <2>2. hold.state # "confirmed" /\ \A a \in Attempts : Row(a) # "captured"
    BY <2>1, UnpaidOrder
  <2>3. hold'.state # "confirmed"
    <3>1. CommittedHold.state # "confirmed" /\ CommittedHold \in Holds
      BY <2>2 DEF CommittedHold, TypeOK, Holds
    <3>2. [CommittedHold EXCEPT !.state = "released"].state # "confirmed"
      BY <3>1 DEF Holds
    <3> QED BY <1>3, <2>2, <3>1, <3>2 DEF CreateSucceeds, CreateUnclear, CreateFails
  <2>4. tx.a \in Attempts
    BY <1>3, TxAttempt DEF CreateSucceeds, CreateUnclear, CreateFails, TypeOK
  <2>5. ASSUME NEW s \in {"created", "reconciliation_required", "failed"},
               NEW po \in BOOLEAN, attempts' = NewRow(s, po)
        PROVE  \A a \in Attempts : attempts'[a].state # "captured"
    BY <2>2, <2>4, <2>5 DEF NewRow, TypeOK
  <2>6. \A a \in Attempts : attempts'[a].state # "captured"
    BY <1>3, <2>5 DEF CreateSucceeds, CreateUnclear, CreateFails
  <2> QED BY <2>1, <2>3, <2>6, EndUnpaid
<1>4. CASE CaptureSettles
  BY <1>4, PayOrder DEF CaptureSettles, Settled, TypeOK, OrderRows, Holds
<1>5. ASSUME CaptureUnsettled \/ CaptureDeclined \/ CaptureUnclear
      PROVE  SettlementInv' /\ CapturedStays
  <2>1. ~order.paid /\ ~order'.paid /\ tx' = NoTx /\ tx.a \in Attempts
    BY <1>5, TxAttempt DEF CaptureUnsettled, CaptureDeclined, CaptureUnclear,
                           SettlementInv, TypeOK
  <2>2. hold.state # "confirmed" /\ \A a \in Attempts : Row(a) # "captured"
    BY <2>1, UnpaidOrder
  <2>3. hold'.state # "confirmed"
    BY <1>5, <2>2 DEF CaptureUnsettled, CaptureDeclined, CaptureUnclear,
                      ReleasedHold, TypeOK, Holds
  <2>4. \A a \in Attempts : attempts'[a].state # "captured"
    <3>1. CASE CaptureUnsettled
      BY <3>1, <2>1, <2>2 DEF CaptureUnsettled, TypeOK, AttemptRows
    <3>2. CASE CaptureDeclined \/ CaptureUnclear
      BY <3>2, <2>1, <2>2, SetStateCaptures DEF CaptureDeclined, CaptureUnclear
    <3> QED BY <1>5, <3>1, <3>2
  <2> QED BY <2>1, <2>3, <2>4, EndUnpaid
<1> QED BY <1>1, <1>2, <1>3, <1>4, <1>5

\* The calls that look PayPal's order up, and the staff cancellation.
LEMMA SettlementLooksUp ==
    ASSUME TypeOK, SettlementInv,
           \/ \E a \in Attempts : BeginCancel(a) \/ BeginReconcile(a) \/ BeginExpire(a)
           \/ LookUp \/ CancelSucceeds \/ CancelRefused \/ ExpireSucceeds
           \/ ReconcileCaptured \/ ReconcileVoided \/ ReconcileOpen
           \/ TxAborts \/ StaffCancel
    PROVE  SettlementInv' /\ CapturedStays
<1> USE DEF Row
<1>1. ASSUME NEW a \in Attempts, BeginCancel(a) \/ BeginReconcile(a) \/ BeginExpire(a)
      PROVE  SettlementInv' /\ CapturedStays
  BY <1>1, KeepSettlement DEF BeginCancel, BeginReconcile, BeginExpire, Lock, NoTx
<1>2. CASE LookUp
  <2>1. tx.a \in Attempts /\ tx \in Calling
    BY <1>2, TxAttempt DEF LookUp, TypeOK, Transactions, NoTx
  <2>2. /\ tx'.op = tx.op /\ tx'.a = tx.a
        /\ tx'.seen \in {provider[tx.a].status, "error"}
    BY <1>2, <2>1 DEF LookUp, Calling
  <2>3. UNCHANGED <<attempts, order, hold, provider>>
    BY <1>2 DEF LookUp
  <2>4. PaidIsBacked' /\ SoldOnlyIfPaid'
    BY <2>3 DEF SettlementInv, PaidIsBacked, SoldOnlyIfPaid
  <2> QED BY <2>1, <2>2, <2>3, <2>4 DEF SettlementInv, CapturedStays
<1>3. ASSUME CancelSucceeds \/ ExpireSucceeds \/ CancelRefused \/ ReconcileVoided
      PROVE  SettlementInv' /\ CapturedStays
  <2>1. ~order.paid /\ ~order'.paid /\ tx' = NoTx /\ tx.a \in Attempts
    BY <1>3, TxAttempt DEF CancelSucceeds, ExpireSucceeds, CancelRefused,
                           ReconcileVoided, CloseCheckout, SettlementInv, TypeOK,
                           OrderRows
  <2>2. hold.state # "confirmed" /\ \A a \in Attempts : Row(a) # "captured"
    BY <2>1, UnpaidOrder
  <2>3. hold'.state # "confirmed"
    BY <1>3, <2>2 DEF CancelSucceeds, ExpireSucceeds, CancelRefused, ReconcileVoided,
                      CloseCheckout, ReleasedHold, TypeOK, Holds
  <2>4. \A a \in Attempts : attempts'[a].state # "captured"
    BY <1>3, <2>1, <2>2, SetStateCaptures
    DEF CancelSucceeds, ExpireSucceeds, CancelRefused, ReconcileVoided, CloseCheckout
  <2> QED BY <2>1, <2>3, <2>4, EndUnpaid
<1>4. CASE ReconcileCaptured
  <2>1. provider[tx.a].status = "COMPLETED"
    BY <1>4 DEF ReconcileCaptured, Settled, SettlementInv
  <2>2. order'.paid = TRUE /\ hold'.state = "confirmed"
    BY <1>4 DEF ReconcileCaptured, SettlementInv, PaidIsBacked, TypeOK, OrderRows,
                Holds
  <2> QED BY <1>4, <2>1, <2>2, PayOrder DEF ReconcileCaptured
<1>5. CASE ReconcileOpen
  <2>1. tx.a \in Attempts /\ tx.op = "reconcile"
    BY <1>5, TxAttempt DEF ReconcileOpen, TypeOK
  <2>2. Row(tx.a) # "captured" /\ LocalState(tx.seen) # "captured"
    BY <1>5 DEF ReconcileOpen, Settled, LocalState, SettlementInv
  <2>3. \A a \in Attempts :
          /\ attempts'[a].captured = attempts[a].captured
          /\ attempts'[a].state = (IF a = tx.a THEN LocalState(tx.seen) ELSE Row(a))
    BY <1>5, SetStateCaptures DEF ReconcileOpen
  <2> QED BY <1>5, <2>1, <2>2, <2>3, KeepSettlement DEF ReconcileOpen
<1>6. CASE TxAborts
  BY <1>6, KeepSettlement DEF TxAborts
<1>7. CASE StaffCancel
  <2>1. order'.paid = order.paid
    BY <1>7 DEF StaffCancel, TypeOK, OrderRows
  <2>2. hold'.state = "confirmed" <=> hold.state = "confirmed"
    BY <1>7 DEF StaffCancel, ReleasedHold, TypeOK, Holds
  <2> QED BY <1>7, <2>1, <2>2, KeepSettlement DEF StaffCancel
<1> QED BY <1>1, <1>2, <1>3, <1>4, <1>5, <1>6, <1>7

\* The clean-up of a decline and the webhooks.
LEMMA SettlementOthers ==
    ASSUME TypeOK, SettlementInv, Cleanups \/ CleanupOverwrites \/ Webhooks
    PROVE  SettlementInv' /\ CapturedStays
<1> USE DEF Row
<1>1. CASE CleanupReads
  BY <1>1, KeepSettlement DEF CleanupReads
<1>2. CASE CleanupWrites \/ CleanupOverwrites
  <2>1. PICK c \in cleanups :
          /\ attempts' = IF c.unpaid THEN SetState(c.a, "failed") ELSE attempts
          /\ c.unpaid => MayRelease(attempts')
          /\ hold' = IF c.unpaid THEN ReleasedHold ELSE hold
          /\ order' = Uncredited(c.credit)
          /\ UNCHANGED <<provider, tx>>
    BY <1>2 DEF CleanupWrites, CleanupOverwrites, CleanUp
  <2>2. order'.paid = order.paid
    BY <2>1 DEF Uncredited, TypeOK, OrderRows
  <2>3. hold'.state = "confirmed" <=> hold.state = "confirmed"
    BY <2>1 DEF ReleasedHold, TypeOK, Holds
  <2>4. CASE c.unpaid
    <3>1. \A a \in Attempts : Row(a) # "captured"
      BY <2>1, <2>4, UnpaidOrder DEF MayRelease
    <3>2. \A a \in Attempts :
            /\ attempts'[a].captured = attempts[a].captured
            /\ attempts'[a].state # "captured"
      BY <2>1, <2>4, <3>1, SetStateCaptures
    <3> QED BY <2>1, <2>2, <2>3, <3>1, <3>2, KeepSettlement
  <2>5. CASE ~c.unpaid
    BY <2>1, <2>2, <2>3, <2>5, KeepSettlement
  <2> QED BY <2>4, <2>5
<1>3. CASE CleanupLost
  BY <1>3, KeepSettlement DEF CleanupLost
<1>4. CASE HookReads
  BY <1>4, KeepSettlement DEF HookReads
<1>5. CASE HookWrites
  <2>1. PICK h \in hooks :
          /\ attempts' = IF h.e.type = "APPROVED" THEN Approved(h) ELSE CaptureNoted(h)
          /\ UNCHANGED <<order, hold, provider, tx>>
    BY <1>5 DEF HookWrites
  <2>2. \/ attempts' = attempts
        \/ attempts' = SetState(h.e.a, "reconciliation_required")
        \/ attempts' = SetState(h.e.a, "approved") /\ Row(h.e.a) = "created"
    BY <2>1 DEF Approved, CaptureNoted
  <2>3. \A a \in Attempts :
          /\ attempts'[a].captured = attempts[a].captured
          /\ Row(a) = "captured" =>
               attempts'[a].state \in {"captured", "reconciliation_required"}
          /\ attempts'[a].state = "captured" => Row(a) = "captured"
    BY <2>2, SetStateCaptures
  <2> QED BY <2>1, <2>3, KeepSettlement
<1>6. CASE HookFails
  BY <1>6, KeepSettlement DEF HookFails
<1> QED BY <1>1, <1>2, <1>3, <1>4, <1>5, <1>6 DEF Cleanups, Webhooks

\* PayPal, the buyer and the other orders.
LEMMA SettlementWorld ==
    ASSUME TypeOK, SettlementInv, World
    PROVE  SettlementInv' /\ CapturedStays
<1> USE DEF Row
<1>1. ASSUME NEW a \in Attempts,
             BuyerApproves(a) \/ ProviderCaptures(a) \/ ProviderDecides(a)
               \/ ProviderVoids(a)
      PROVE  SettlementInv' /\ CapturedStays
  <2>1. \A b \in Attempts :
          provider[b].status = "COMPLETED" => provider'[b].status = "COMPLETED"
    BY <1>1 DEF BuyerApproves, ProviderCaptures, ProviderDecides, ProviderVoids,
                Moves, TypeOK, Sides
  <2>2. UNCHANGED <<attempts, order, hold, tx>>
    BY <1>1 DEF BuyerApproves, ProviderCaptures, ProviderDecides, ProviderVoids,
                Moves
  <2> QED BY <2>1, <2>2, KeepSettlement
<1>2. CASE HoldLapses \/ OtherOrderSweeps
  <2>1. hold.state # "confirmed" /\ hold'.state # "confirmed"
    BY <1>2 DEF HoldLapses, OtherOrderSweeps, TypeOK, Holds
  <2> QED BY <1>2, <2>1, KeepSettlement DEF HoldLapses, OtherOrderSweeps
<1> QED BY <1>1, <1>2 DEF World

LEMMA SettlementStep ==
    TypeOK /\ SettlementInv /\ [Next]_vars => SettlementInv' /\ CapturedStays
<1> SUFFICES ASSUME TypeOK, SettlementInv, [Next]_vars
             PROVE  SettlementInv' /\ CapturedStays
  OBVIOUS
<1>1. CASE Calls
  BY <1>1, SettlementPays, SettlementLooksUp DEF Calls
<1>2. CASE Cleanups \/ CleanupOverwrites \/ Webhooks
  BY <1>2, SettlementOthers
<1>3. CASE World
  BY <1>3, SettlementWorld
<1>4. CASE UNCHANGED vars
  BY <1>4, KeepSettlement DEF vars, Row
<1> QED BY <1>1, <1>2, <1>3, <1>4 DEF Next, IntactNext

\* The settlement invariant holds in every state, for any number of
\* attempts and however late a decline clean-up runs.
THEOREM SettlementHolds == Spec => []SettlementInv
<1> QED BY TypeInit, TypeStep, SettlementInit, SettlementStep, PTL DEF Spec

\* A paid order is backed by a stored, completed capture, and its stock was
\* deducted with it.
THEOREM PaidStaysBacked == Spec => []PaidIsBacked
<1>1. SettlementInv => PaidIsBacked
  BY DEF SettlementInv
<1> QED BY <1>1, SettlementHolds, PTL

\* No refused, failed or crashed payment leaves a deduction of stock behind.
THEOREM NothingSoldUnpaid == Spec => []SoldOnlyIfPaid
<1>1. SettlementInv => SoldOnlyIfPaid
  BY DEF SettlementInv
<1> QED BY <1>1, SettlementHolds, PTL

\* No step, however late, reopens a captured attempt.
THEOREM CapturedIsFinal == Spec => CapturedNeverReopens
<1>1. TypeOK /\ SettlementInv /\ [Next]_vars =>
        [\A a \in Attempts : Row(a) = "captured" =>
           attempts'[a].state \in {"captured", "reconciliation_required"}]_vars
  BY SettlementStep DEF CapturedStays
<1> QED BY <1>1, TypeCorrect, SettlementHolds, PTL DEF Spec, CapturedNeverReopens

-----------------------------------------------------------------------------
(* Charges: PayPal can take money for the latest attempt only, and that    *)
(* attempt stays unresolved or becomes captured.  A clean-up may come late, *)
(* but when it fails an attempt that has been revived since, the charge is  *)
(* forgotten: these results are about IntactSpec, where none does.          *)

\* An attempt that may still take money, or has paid the order.
Live(a) == Row(a) \in Unresolved \cup {"captured"}

\* PayPal takes the attempt's money, has taken it, or refused it in the end.
Charged(a) == provider[a].asked \/ provider[a].status \in {"PENDING", "COMPLETED", "DENIED"}

RowsInv ==
    /\ \A a \in Attempts : Live(a) => Latest(a)
    /\ \A a \in Attempts : HasRow(a) => a <= lastId

SidesInv == \A a \in Attempts :
    /\ provider[a].status # "none" => HasRow(a)
    /\ provider[a].asked => provider[a].status = "APPROVED"
    /\ Charged(a) => Live(a)

\* A capture event tells how a charge ended, which does not change any more.
Told == mail \cup {h.e : h \in hooks}
Ended(a) == provider[a].status \in {"COMPLETED", "DENIED"}
EventsInv == \A e \in Told : e.type = "CAPTURE" => Ended(e.a)

\* What the call that holds the lock relies on.
TxInv ==
    /\ tx.op = "create" =>
         tx.a = lastId /\ ~HasRow(lastId) /\ \A a \in Attempts : ~Live(a)
    /\ tx.op \in {"capture", "cancel", "expire"} => Live(tx.a)
    /\ tx.op = "reconcile" => Latest(tx.a)
    /\ tx.op \in {"cancel", "expire"} /\ tx.seen = "CREATED" => ~Charged(tx.a)
    /\ tx.seen = "VOIDED" => provider[tx.a].status = "VOIDED"

ChargeInv == RowsInv /\ SidesInv /\ EventsInv /\ TxInv

\* The prover sees no more of a row than this.
SameRows == \A a \in Attempts : attempts'[a].state = Row(a)
OneRow(x, s) ==
    attempts'[x].state = s /\ \A a \in Attempts \ {x} : attempts'[a].state = Row(a)

LEMMA ChargeInit == Init => ChargeInv
<1> SUFFICES ASSUME Init PROVE ChargeInv
  OBVIOUS
<1>1. \A a \in Attempts : Row(a) = "absent" /\ provider[a] = [status |-> "none", asked |-> FALSE]
  BY DEF Init, Row
<1>2. RowsInv /\ SidesInv
  BY <1>1 DEF Init, RowsInv, SidesInv, Live, HasRow, Charged, Unresolved
<1>3. EventsInv /\ TxInv
  BY DEF Init, EventsInv, Told, TxInv, NoTx
<1> QED BY <1>2, <1>3 DEF ChargeInv

\* Rows that stay as they are, whatever PayPal does.
LEMMA RowsKept ==
    ASSUME ChargeInv, SameRows, lastId' \in {lastId, lastId + 1}, lastId \in Nat
    PROVE  RowsInv'
<1>1. \A a \in Attempts : /\ HasRow(a)' <=> HasRow(a)
                          /\ Live(a)' <=> Live(a)
                          /\ Latest(a)' <=> Latest(a)
  BY DEF SameRows, HasRow, Live, Latest, Row
<1>2. \A a \in Attempts : HasRow(a) => a <= lastId'
  BY DEF ChargeInv, RowsInv, Attempts
<1> QED BY <1>1, <1>2 DEF ChargeInv, RowsInv

\* PayPal's side stays as it is, and every live attempt stays live.
LEMMA SidesKept ==
    ASSUME ChargeInv, provider' = provider,
           \A a \in Attempts : /\ HasRow(a) => HasRow(a)'
                               /\ Live(a) => Live(a)'
    PROVE  SidesInv'
BY DEF ChargeInv, SidesInv, Charged, HasRow, Live, Row

\* A row that is there gets another state: one that may take money only if it
\* is the latest, one that may not only if PayPal takes none for it.
LEMMA RowSet ==
    ASSUME ChargeInv, lastId' = lastId, NEW x \in Attempts,
           NEW s \in AttemptStates \ {"absent"}, HasRow(x), OneRow(x, s),
           \A a \in Attempts : provider'[a].status = provider[a].status
                             /\ (provider'[a].asked => provider[a].asked),
           s \in Unresolved \cup {"captured"} => Latest(x),
           s \notin Unresolved \cup {"captured"} => ~Charged(x)'
    PROVE  RowsInv' /\ SidesInv'
<1>1. \A a \in Attempts : /\ HasRow(a)' <=> HasRow(a)
                          /\ Latest(a)' <=> Latest(a)
  BY DEF OneRow, HasRow, Latest, Row
<1>2. \A a \in Attempts : Live(a)' <=> (IF a = x THEN s \in Unresolved \cup {"captured"} ELSE Live(a))
  BY DEF OneRow, Live, Row
<1>3. RowsInv'
  BY <1>1, <1>2 DEF ChargeInv, RowsInv, Row
<1>4. SidesInv'
  <2> SUFFICES ASSUME NEW a \in Attempts
               PROVE  /\ provider'[a].status # "none" => HasRow(a)'
                      /\ provider'[a].asked => provider'[a].status = "APPROVED"
                      /\ Charged(a)' => Live(a)'
    BY DEF SidesInv, Charged, HasRow, Live, Row
  <2>1. Charged(a)' => Charged(a)
    BY DEF Charged
  <2> QED BY <1>1, <1>2, <2>1 DEF ChargeInv, SidesInv
<1> QED BY <1>3, <1>4

LEMMA EventsKept ==
    ASSUME ChargeInv, mail' \subseteq mail, hooks' \subseteq hooks,
           mail \subseteq Events, hooks \subseteq Handlers,
           \A a \in Attempts : Ended(a) => provider'[a].status = provider[a].status
    PROVE  EventsInv'
<1>1. Told' \subseteq Told /\ \A e \in Told : e.a \in Attempts
  BY DEF Told, Events, Handlers
<1> QED BY <1>1 DEF ChargeInv, EventsInv, Ended

LEMMA NoCall == ASSUME tx' = NoTx PROVE TxInv'
BY DEF TxInv, NoTx

LEMMA CallKept ==
    ASSUME TypeOK, ChargeInv, tx' = tx, lastId' = lastId,
           \A a \in Attempts : /\ attempts'[a].state = "absent" <=> ~HasRow(a)
                               /\ Live(a)' <=> Live(a),
           \A a \in Attempts : /\ Charged(a)' => Charged(a)
                               /\ provider[a].status = "VOIDED" => provider'[a].status = "VOIDED"
    PROVE  TxInv'
<1>1. \A a \in Attempts : (HasRow(a)' <=> HasRow(a)) /\ (Latest(a)' <=> Latest(a))
  BY DEF HasRow, Latest, Row
<1>2. tx.op # "none" => tx.a \in Attempts
  BY TxAttempt DEF TypeOK
<1>3. tx.op = "none" => tx.seen = "none"
  BY DEF TypeOK, Transactions, Calling, NoTx
<1>4. tx.op = "create" => tx'.a = lastId' /\ ~HasRow(lastId)' /\ \A a \in Attempts : ~Live(a)'
  BY <1>1, <1>2 DEF ChargeInv, TxInv, HasRow, Row
<1>5. tx.op \in {"capture", "cancel", "expire"} => Live(tx.a)'
  BY <1>2 DEF ChargeInv, TxInv
<1>6. tx.op = "reconcile" => Latest(tx.a)'
  BY <1>1, <1>2 DEF ChargeInv, TxInv
<1>7. tx.op \in {"cancel", "expire"} /\ tx.seen = "CREATED" => ~Charged(tx.a)'
  BY <1>2 DEF ChargeInv, TxInv
<1>8. tx.seen = "VOIDED" => provider'[tx.a].status = "VOIDED"
  BY <1>2, <1>3 DEF ChargeInv, TxInv
<1> QED BY <1>4, <1>5, <1>6, <1>7, <1>8 DEF TxInv, Live, Charged, HasRow, Latest, Row

\* The same when rows and attempts at PayPal do not change at all.
LEMMA Same ==
    ASSUME SameRows
    PROVE  \A a \in Attempts : /\ HasRow(a)' <=> HasRow(a)
                               /\ Live(a)' <=> Live(a)
                               /\ Latest(a)' <=> Latest(a)
                               /\ attempts'[a].state = "absent" <=> ~HasRow(a)
BY DEF SameRows, HasRow, Live, Latest, Row

\* The start of a call.
LEMMA ChargeStarts ==
    ASSUME TypeOK, SettlementInv, ChargeInv,
           BeginCreate \/ \E a \in Attempts : BeginCapture(a) \/ BeginCancel(a)
                                              \/ BeginReconcile(a) \/ BeginExpire(a)
    PROVE  ChargeInv'
<1>t. /\ lastId \in Nat
      /\ mail \subseteq Events /\ hooks \subseteq Handlers
  BY ConstantsAssumption DEF TypeOK
<1>1. SameRows /\ UNCHANGED <<attempts, mail, hooks, cleanups>> /\ lastId' \in {lastId, lastId + 1}
  BY DEF BeginCreate, BeginCapture, BeginCancel, BeginReconcile, BeginExpire,
         SameRows, Row
<1>2. RowsInv'
  BY <1>t, <1>1, RowsKept
<1>3. CASE BeginCreate
  <2>1. UNCHANGED provider
    BY <1>3 DEF BeginCreate
  <2>2. SidesInv' /\ EventsInv'
    BY <1>t, <1>1, <2>1, Same, SidesKept, EventsKept
  <2>3. tx'.op = "create" /\ tx'.a = lastId' /\ tx'.seen = "none" /\ lastId' = lastId + 1
    BY <1>3 DEF BeginCreate, Lock, NoTx
  <2>4. \A a \in Attempts : ~Live(a)
    BY <1>3, UnpaidOrder DEF BeginCreate, MayStart, Payable, AnyUnresolved, Live, Row
  <2>5. lastId' \in Attempts /\ ~HasRow(lastId + 1)
    BY <1>3, <1>t, ConstantsAssumption
    DEF BeginCreate, TypeOK, Attempts, ChargeInv, RowsInv
  <2>6. ~HasRow(lastId)' /\ \A a \in Attempts : ~Live(a)'
    BY <1>1, <2>3, <2>4, <2>5 DEF HasRow, Live, Row
  <2>7. TxInv'
    BY <2>3, <2>6 DEF TxInv
  <2> QED BY <1>2, <2>2, <2>7 DEF ChargeInv
<1>4. ASSUME NEW a \in Attempts, BeginCapture(a) PROVE ChargeInv'
  <2>1. Live(a)
    BY <1>4 DEF BeginCapture, Live, Unresolved
  <2>2. \A b \in Attempts : /\ provider'[b].status = provider[b].status
                            /\ provider'[b].asked => provider[b].asked
                                 \/ (b = a /\ provider[a].status = "APPROVED")
    BY <1>4 DEF BeginCapture, TypeOK, Sides
  <2>3. SidesInv'
    BY <1>1, <2>1, <2>2 DEF ChargeInv, SidesInv, Charged, HasRow, Live, Row
  <2>4. EventsInv'
    BY <1>t, <1>1, <2>2, EventsKept
  <2>5. tx'.op = "capture" /\ tx'.a = a /\ tx'.seen = "none"
    BY <1>4 DEF BeginCapture, Lock, NoTx
  <2>6. TxInv'
    BY <1>1, <2>1, <2>5 DEF TxInv, Live, Row
  <2> QED BY <1>2, <2>3, <2>4, <2>6 DEF ChargeInv
<1>5. ASSUME NEW a \in Attempts, BeginCancel(a) \/ BeginReconcile(a) \/ BeginExpire(a)
      PROVE  ChargeInv'
  <2>1. UNCHANGED provider
    BY <1>5 DEF BeginCancel, BeginReconcile, BeginExpire
  <2>2. SidesInv' /\ EventsInv'
    BY <1>t, <1>1, <2>1, Same, SidesKept, EventsKept
  <2>3. tx'.a = a /\ tx'.seen = "none"
        /\ \/ tx'.op \in {"cancel", "expire"} /\ Live(a)
           \/ tx'.op = "reconcile" /\ Latest(a)
    BY <1>5 DEF BeginCancel, BeginReconcile, BeginExpire, Lock, NoTx, Live, Unresolved
  <2>4. TxInv'
    BY <1>1, <2>3, Same DEF TxInv, Live, Latest, HasRow, Row
  <2> QED BY <1>2, <2>2, <2>4 DEF ChargeInv
<1> QED BY <1>3, <1>4, <1>5

\* Steps that change neither rows nor PayPal's side, nor start a call.
LEMMA ChargeIdle ==
    ASSUME TypeOK, ChargeInv,
           \/ LookUp \/ TxAborts \/ StaffCancel \/ CleanupReads \/ CleanupLost
           \/ HookReads \/ HookFails \/ HoldLapses \/ OtherOrderSweeps
           \/ UNCHANGED vars
    PROVE  ChargeInv'
<1>t. /\ lastId \in Nat
      /\ mail \subseteq Events /\ hooks \subseteq Handlers
  BY ConstantsAssumption DEF TypeOK
<1>1. SameRows /\ UNCHANGED <<attempts, lastId, provider, mail>>
  BY DEF LookUp, TxAborts, StaffCancel, CleanupReads, CleanupLost, HookReads,
         HookFails, HoldLapses, OtherOrderSweeps, vars, SameRows, Row
<1>3. RowsInv' /\ SidesInv'
  BY <1>t, <1>1, RowsKept, SidesKept, Same
<1>4. EventsInv'
  <2>1. Told' \subseteq Told
    <3>1. CASE HookReads
      BY <3>1 DEF HookReads, Told
    <3>2. CASE ~HookReads
      BY <3>2 DEF LookUp, TxAborts, StaffCancel, CleanupReads, CleanupLost,
                  HookFails, HoldLapses, OtherOrderSweeps, vars, Told
    <3> QED BY <3>1, <3>2
  <2> QED BY <1>1, <2>1 DEF ChargeInv, EventsInv, Ended
<1>5. TxInv'
  <2>1. CASE LookUp
    <3>1. tx \in Calling /\ tx.a \in Attempts
      BY <2>1, TxAttempt DEF LookUp, TypeOK
    <3>2. /\ tx'.op = tx.op /\ tx'.a = tx.a /\ tx.op \in {"cancel", "reconcile", "expire"}
          /\ tx'.seen \in {provider[tx.a].status, "error"}
      BY <2>1, <3>1 DEF LookUp, Calling
    <3>3. tx'.seen = "CREATED" => ~Charged(tx.a)
      BY <3>1, <3>2 DEF ChargeInv, SidesInv, Charged
    <3> QED BY <1>1, <3>1, <3>2, <3>3, Same
            DEF ChargeInv, TxInv, Charged, Live, Latest, HasRow, Row
  <2>2. CASE TxAborts
    BY <2>2, NoCall DEF TxAborts
  <2>3. CASE ~LookUp /\ ~TxAborts
    <3>1. tx' = tx
      BY <2>3 DEF StaffCancel, CleanupReads, CleanupLost, HookReads,
                  HookFails, HoldLapses, OtherOrderSweeps, vars
    <3> QED BY <1>1, <3>1, Same, CallKept DEF Charged
  <2> QED BY <2>1, <2>2, <2>3
<1> QED BY <1>3, <1>4, <1>5 DEF ChargeInv

\* The ends of create: the new row is the only one that may take money.
LEMMA ChargeCreated ==
    ASSUME TypeOK, ChargeInv, CreateSucceeds \/ CreateUnclear \/ CreateFails
    PROVE  ChargeInv'
<1>t. /\ lastId \in Nat
      /\ mail \subseteq Events /\ hooks \subseteq Handlers
  BY ConstantsAssumption DEF TypeOK
<1>1. /\ tx.a \in Attempts /\ tx.a = lastId /\ Row(lastId) = "absent"
      /\ \A a \in Attempts : ~Live(a)
  BY TxAttempt DEF CreateSucceeds, CreateUnclear, CreateFails, TypeOK, ChargeInv,
                   TxInv, HasRow
<1>2. /\ tx' = NoTx
      /\ UNCHANGED <<lastId, mail, hooks, cleanups>>
  BY DEF CreateSucceeds, CreateUnclear, CreateFails
<1>3. PICK s \in {"created", "reconciliation_required", "failed"} :
        attempts'[lastId].state = s
        /\ \A a \in Attempts \ {lastId} : attempts'[a].state = Row(a)
  BY <1>1 DEF CreateSucceeds, CreateUnclear, CreateFails, NewRow, TypeOK, Row
<1>4. \A a \in Attempts : /\ a # lastId => provider'[a] = provider[a]
                          /\ provider'[a].asked = provider[a].asked
                          /\ ~Charged(a)
                          /\ provider'[a].status \in {provider[a].status, "CREATED"}
  <2>1. \A a \in Attempts : ~Charged(a)
    BY <1>1 DEF ChargeInv, SidesInv
  <2>2. CASE CreateSucceeds
    BY <1>1, <2>1, <2>2 DEF CreateSucceeds, TypeOK, Sides
  <2>3. CASE CreateUnclear \/ CreateFails
    BY <2>1, <2>3 DEF CreateUnclear, CreateFails
  <2> QED BY <2>2, <2>3
<1>5. \A a \in Attempts : /\ HasRow(a)' <=> (a = lastId \/ HasRow(a))
                          /\ Live(a)' => a = lastId
                          /\ a <= lastId \/ ~HasRow(a)
  BY <1>1, <1>3 DEF HasRow, Live, Row, ChargeInv, RowsInv
<1>6. RowsInv'
  <2>1. \A a \in Attempts : HasRow(a)' => a <= lastId'
    BY <1>1, <1>2, <1>5, <1>t
  <2>2. \A a \in Attempts : Live(a)' => Latest(a)'
    <3>1. \A b \in Attempts : b > lastId => ~HasRow(b)'
      BY <1>1, <1>5, <1>t DEF Attempts
    <3> QED BY <1>1, <1>5, <3>1 DEF Latest
  <2> QED BY <2>1, <2>2 DEF RowsInv
<1>7. SidesInv'
  BY <1>1, <1>4, <1>5 DEF ChargeInv, SidesInv, Charged
<1>8. EventsInv'
  BY <1>2, <1>4, <1>t, EventsKept DEF Charged, Ended
<1>9. TxInv'
  BY <1>2, NoCall
<1> QED BY <1>6, <1>7, <1>8, <1>9 DEF ChargeInv

\* The ends of capture, reconcile and the other calls: one row is rewritten.
LEMMA ChargeEnds ==
    ASSUME TypeOK, ChargeInv,
           \/ CaptureSettles \/ CaptureUnsettled \/ CaptureDeclined \/ CaptureUnclear
           \/ CancelSucceeds \/ ExpireSucceeds \/ CancelRefused
           \/ ReconcileCaptured \/ ReconcileVoided \/ ReconcileOpen
    PROVE  ChargeInv'
<1>t. mail \subseteq Events /\ hooks \subseteq Handlers
  BY DEF TypeOK
<1>1. tx \in Calling /\ tx.a \in Attempts
      /\ tx.op \in {"capture", "cancel", "expire", "reconcile"}
  BY TxAttempt DEF CaptureSettles, CaptureUnsettled, CaptureDeclined, CaptureUnclear,
         CancelSucceeds, ExpireSucceeds, CancelRefused, ReconcileCaptured,
         ReconcileVoided, ReconcileOpen, TypeOK
<1>2. tx' = NoTx /\ UNCHANGED <<lastId, mail, hooks>>
  BY DEF CaptureSettles, CaptureUnsettled, CaptureDeclined, CaptureUnclear,
         CancelSucceeds, ExpireSucceeds, CancelRefused, CloseCheckout,
         ReconcileCaptured, ReconcileVoided, ReconcileOpen
<1>s. {"failed", "cancelled"} \subseteq AttemptStates \ {"absent"}
  BY DEF AttemptStates
<1>x. PICK x \in Attempts : x = tx.a
  BY <1>1
<1>3. Latest(tx.a) /\ HasRow(tx.a)
  BY <1>1 DEF ChargeInv, RowsInv, TxInv, Latest
<1>4. \A a \in Attempts : /\ provider'[a].status = provider[a].status
                          /\ provider'[a].asked => provider[a].asked
  <2>1. CASE CaptureDeclined
    BY <2>1 DEF CaptureDeclined, TypeOK, Sides
  <2>2. CASE ~CaptureDeclined
    BY <2>2 DEF CaptureSettles, CaptureUnsettled, CaptureUnclear,
         CancelSucceeds, ExpireSucceeds, CancelRefused, CloseCheckout,
         ReconcileCaptured, ReconcileVoided, ReconcileOpen
  <2> QED BY <2>1, <2>2
<1>5. ASSUME NEW s \in AttemptStates \ {"absent"},
             \/ attempts' = SetState(tx.a, s)
             \/ attempts' = [attempts EXCEPT ![tx.a].state = s, ![tx.a].captured = TRUE]
      PROVE  OneRow(tx.a, s)
  BY <1>1, <1>5 DEF SetState, OneRow, TypeOK, AttemptRows, Row
<1>6. ASSUME NEW s \in AttemptStates \ {"absent"}, OneRow(tx.a, s),
             s \in Unresolved \cup {"captured"} \/ ~Charged(x)'
      PROVE  ChargeInv'
  <2>1. RowsInv' /\ SidesInv'
    BY <1>1, <1>2, <1>3, <1>4, <1>6, <1>x, RowSet
  <2>2. EventsInv'
    BY <1>2, <1>4, <1>t, EventsKept
  <2> QED BY <1>2, <2>1, <2>2, NoCall DEF ChargeInv
<1>7. CASE CaptureSettles \/ CaptureUnsettled \/ CaptureUnclear \/ CancelRefused
           \/ ReconcileCaptured
  <2>1. PICK s \in {"captured", "reconciliation_required"} :
          \/ attempts' = SetState(tx.a, s)
          \/ attempts' = [attempts EXCEPT ![tx.a].state = s, ![tx.a].captured = TRUE]
    BY <1>7 DEF CaptureSettles, CaptureUnsettled, CaptureUnclear, CancelRefused,
                ReconcileCaptured
  <2>2. s \in AttemptStates \ {"absent"} /\ s \in Unresolved \cup {"captured"}
    BY DEF AttemptStates, Unresolved
  <2> QED BY <1>5, <1>6, <2>1, <2>2
<1>8. CASE CaptureDeclined
  <2>1. OneRow(tx.a, "failed")
    BY <1>5, <1>8, <1>s DEF CaptureDeclined
  <2>2. ~Charged(x)'
    BY <1>x, <1>8 DEF CaptureDeclined, Charged, TypeOK, Sides
  <2> QED BY <1>6, <1>s, <2>1, <2>2
<1>9. CASE CancelSucceeds \/ ExpireSucceeds
  <2>1. /\ tx.op \in {"cancel", "expire"} /\ tx.seen = "CREATED"
        /\ UNCHANGED provider
        /\ \/ attempts' = SetState(tx.a, "cancelled")
           \/ attempts' = SetState(tx.a, "failed")
    BY <1>9 DEF CancelSucceeds, ExpireSucceeds, CloseCheckout
  <2>2. ~Charged(x)'
    BY <1>x, <2>1 DEF Charged, ChargeInv, TxInv
  <2> QED BY <1>5, <1>6, <1>s, <2>1, <2>2
<1>10. CASE ReconcileVoided
  <2>1. /\ tx.seen = "VOIDED" /\ UNCHANGED provider
        /\ attempts' = SetState(tx.a, "failed")
    BY <1>10 DEF ReconcileVoided, Dead
  <2>2. ~Charged(x)'
    BY <1>x, <2>1 DEF Charged, ChargeInv, TxInv, SidesInv
  <2> QED BY <1>5, <1>6, <1>s, <2>1, <2>2
<1>11. CASE ReconcileOpen
  <2>1. /\ UNCHANGED provider
        /\ attempts' = SetState(tx.a, LocalState(tx.seen))
    BY <1>11 DEF ReconcileOpen
  <2>2. LocalState(tx.seen) \in AttemptStates \ {"absent"}
        /\ LocalState(tx.seen) \in Unresolved
    BY DEF LocalState, AttemptStates, Unresolved
  <2> QED BY <1>5, <1>6, <2>1, <2>2
<1> QED BY <1>7, <1>8, <1>9, <1>10, <1>11

\* A clean-up that finds its attempt failed leaves the rows as they are.
LEMMA ChargeCleaned ==
    ASSUME TypeOK, ChargeInv, CleanupWrites
    PROVE  ChargeInv'
<1>t. /\ lastId \in Nat /\ mail \subseteq Events /\ hooks \subseteq Handlers
      /\ cleanups \subseteq CleanupTasks
  BY ConstantsAssumption DEF TypeOK
<1>1. PICK c \in cleanups :
        /\ c.unpaid => Row(c.a) = "failed"
        /\ attempts' = IF c.unpaid THEN SetState(c.a, "failed") ELSE attempts
        /\ UNCHANGED <<lastId, provider, mail, tx, hooks>>
  BY DEF CleanupWrites, CleanUp
<1>2. c.a \in Attempts
  BY <1>t DEF CleanupTasks
<1>3. SameRows
  BY <1>1, <1>2 DEF SameRows, SetState, TypeOK, AttemptRows, Row
<1>4. RowsInv' /\ SidesInv' /\ EventsInv'
  BY <1>t, <1>1, <1>3, RowsKept, SidesKept, EventsKept, Same
<1>5. TxInv'
  BY <1>1, <1>3, Same, CallKept DEF Charged
<1> QED BY <1>4, <1>5 DEF ChargeInv

\* A late webhook keeps a live attempt live: an approval is compared again,
\* and a capture is only told of an attempt that PayPal was asked to charge.
LEMMA ChargeHooks ==
    ASSUME TypeOK, ChargeInv, HookWrites
    PROVE  ChargeInv'
<1>t. /\ lastId \in Nat /\ mail \subseteq Events /\ hooks \subseteq Handlers
  BY ConstantsAssumption DEF TypeOK
<1>1. PICK h \in hooks :
        /\ attempts' = IF h.e.type = "APPROVED" THEN Approved(h) ELSE CaptureNoted(h)
        /\ hooks' = hooks \ {h}
        /\ mail' = mail \ {h.e}
        /\ UNCHANGED <<lastId, provider, tx, cleanups>>
  BY DEF HookWrites
<1>2. h.e \in Events /\ h.e.a \in Attempts /\ h.e.type \in {"APPROVED", "CAPTURE"}
  BY <1>t DEF Handlers, Events
<1>3. EventsInv'
  BY <1>1, <1>t, EventsKept
<1>4. CASE attempts' = attempts
  <2>1. SameRows
    BY <1>4 DEF SameRows, Row
  <2>2. RowsInv' /\ SidesInv'
    BY <1>t, <1>1, <2>1, RowsKept, SidesKept, Same DEF TypeOK
  <2>3. TxInv'
    BY <1>1, <2>1, Same, CallKept DEF Charged
  <2> QED BY <1>3, <2>2, <2>3 DEF ChargeInv
<1>5. CASE attempts' # attempts
  <2>1. PICK s \in {"approved", "reconciliation_required"} :
          /\ attempts' = SetState(h.e.a, s)
          /\ s = "approved" => Row(h.e.a) = "created"
          /\ s = "reconciliation_required" => h.e.type = "CAPTURE"
    BY <1>1, <1>2, <1>5 DEF Approved, CaptureNoted
  <2>2. h.e.type = "CAPTURE" => Ended(h.e.a)
    BY DEF ChargeInv, EventsInv, Told
  <2>3. Live(h.e.a)
    BY <1>2, <2>1, <2>2
    DEF ChargeInv, SidesInv, Charged, Ended, Live, Unresolved
  <2>4. Latest(h.e.a) /\ HasRow(h.e.a)
    BY <1>2, <2>3 DEF ChargeInv, RowsInv, Latest
  <2>5. OneRow(h.e.a, s)
    BY <1>2, <2>1 DEF SetState, OneRow, TypeOK, AttemptRows, Row
  <2>6. s \in AttemptStates \ {"absent"} /\ s \in Unresolved \cup {"captured"}
    BY DEF AttemptStates, Unresolved
  <2>7. RowsInv' /\ SidesInv'
    BY <1>1, <1>2, <2>4, <2>5, <2>6, RowSet
  <2>8. \A a \in Attempts : /\ attempts'[a].state = "absent" <=> ~HasRow(a)
                            /\ Live(a)' <=> Live(a)
    BY <2>3, <2>4, <2>5, <2>6 DEF OneRow, Live, HasRow, Row
  <2>9. TxInv'
    BY <1>1, <2>8, CallKept DEF Charged
  <2> QED BY <1>3, <2>7, <2>9 DEF ChargeInv
<1> QED BY <1>4, <1>5

\* PayPal only takes money it was asked for and that is not decided yet.
LEMMA ChargeWorld ==
    ASSUME TypeOK, ChargeInv, World
    PROVE  ChargeInv'
<1>t. /\ lastId \in Nat /\ mail \subseteq Events /\ hooks \subseteq Handlers
      /\ cleanups \subseteq CleanupTasks
  BY ConstantsAssumption DEF TypeOK
<1>1. ASSUME NEW a \in Attempts,
             BuyerApproves(a) \/ ProviderCaptures(a) \/ ProviderDecides(a)
               \/ ProviderVoids(a)
      PROVE  ChargeInv'
  <2> DEFINE Step(s, ev) ==
               /\ Moves(a, s, FALSE, ev)
               /\ \A e \in ev : e.a = a /\ (e.type = "CAPTURE" => s \in {"COMPLETED", "DENIED"})
               /\ s \in {"PENDING", "COMPLETED", "DENIED"} => Charged(a)
               /\ provider[a].status \notin {"none", "VOIDED", "COMPLETED", "DENIED"}
               /\ s \in {"PENDING", "COMPLETED", "DENIED", "VOIDED", "APPROVED"}
  <2>z. \A type : \A e \in Event(type, a) : e.a = a /\ e.type = type
    BY DEF Event
  <2>a. ASSUME BuyerApproves(a) PROVE Step("APPROVED", Event("APPROVED", a))
    BY <2>a, <2>z DEF BuyerApproves, Moves
  <2>b. ASSUME ProviderCaptures(a)
        PROVE  Step("COMPLETED", Event("CAPTURE", a)) \/ Step("PENDING", {})
    BY <2>b, <2>z DEF ProviderCaptures, Charged, Moves
  <2>c. ASSUME ProviderDecides(a)
        PROVE  Step("COMPLETED", Event("CAPTURE", a)) \/ Step("DENIED", Event("CAPTURE", a))
    BY <2>c, <2>z DEF ProviderDecides, Charged, Moves
  <2>d. ASSUME ProviderVoids(a) PROVE Step("VOIDED", {})
    BY <2>d DEF ProviderVoids
  <2> HIDE DEF Step
  <2>e. PICK s, ev : Step(s, ev)
    BY <1>1, <2>a, <2>b, <2>c, <2>d
  <2>1. /\ Moves(a, s, FALSE, ev)
        /\ \A e \in ev : e.a = a /\ (e.type = "CAPTURE" => s \in {"COMPLETED", "DENIED"})
        /\ s \in {"PENDING", "COMPLETED", "DENIED"} => Charged(a)
        /\ provider[a].status \notin {"none", "VOIDED", "COMPLETED", "DENIED"}
        /\ s \in {"PENDING", "COMPLETED", "DENIED", "VOIDED", "APPROVED"}
    BY <2>e DEF Step
  <2>2. /\ provider'[a].status = s /\ ~provider'[a].asked
        /\ \A b \in Attempts \ {a} : provider'[b] = provider[b]
        /\ mail' = mail \cup ev
        /\ UNCHANGED <<attempts, lastId, tx, hooks, cleanups>>
    BY <2>1 DEF Moves, TypeOK
  <2>3. SameRows
    BY <2>2 DEF SameRows, Row
  <2>4. RowsInv'
    BY <1>t, <2>2, <2>3, RowsKept
  <2>5. \A b \in Attempts : Charged(b)' => Charged(b)
    BY <2>1, <2>2 DEF Charged
  <2>6. SidesInv'
    <3> SUFFICES ASSUME NEW b \in Attempts
                 PROVE  /\ provider'[b].status # "none" => HasRow(b)'
                        /\ provider'[b].asked => provider'[b].status = "APPROVED"
                        /\ Charged(b)' => Live(b)'
      BY DEF SidesInv, Charged, HasRow, Live, Row
    <3> QED BY <2>1, <2>2, <2>3, <2>5, Same DEF ChargeInv, SidesInv
  <2>7. EventsInv'
    <3>1. \A b \in Attempts : Ended(b) => Ended(b)'
      BY <2>1, <2>2 DEF Ended
    <3>2. Told' = Told \cup ev /\ \A e \in Told : e.a \in Attempts
      BY <1>t, <2>2 DEF Told, Events, Handlers
    <3>3. \A e \in ev : e.type = "CAPTURE" => e.a = a /\ Ended(a)'
      BY <2>1, <2>2 DEF Ended
    <3> QED BY <3>1, <3>2, <3>3 DEF ChargeInv, EventsInv, Ended
  <2>8. TxInv'
    <3>1. \A b \in Attempts : provider[b].status = "VOIDED" => provider'[b].status = "VOIDED"
      BY <2>1, <2>2
    <3> QED BY <2>2, <2>3, <2>5, <3>1, Same, CallKept
  <2> QED BY <2>4, <2>6, <2>7, <2>8 DEF ChargeInv
<1> QED BY <1>1, ChargeIdle DEF World

LEMMA ChargeStep ==
    TypeOK /\ SettlementInv /\ ChargeInv /\ [IntactNext]_vars => ChargeInv'
<1> SUFFICES ASSUME TypeOK, SettlementInv, ChargeInv, [IntactNext]_vars PROVE ChargeInv'
  OBVIOUS
<1>1. CASE Cleanups
  BY <1>1, ChargeIdle, ChargeCleaned DEF Cleanups
<1>2. CASE Calls
  BY <1>2, ChargeStarts, ChargeCreated, ChargeEnds, ChargeIdle DEF Calls
<1>3. CASE Webhooks
  BY <1>3, ChargeHooks, ChargeIdle DEF Webhooks
<1>4. CASE World
  BY <1>4, ChargeWorld
<1>5. CASE UNCHANGED vars
  BY <1>5, ChargeIdle
<1> QED BY <1>1, <1>2, <1>3, <1>4, <1>5 DEF IntactNext

\* What holds of all behaviours holds of those without such a clean-up.
LEMMA IntactIsCheckout == IntactSpec => Spec
<1>1. [IntactNext]_vars => [Next]_vars
  BY DEF Next
<1> QED BY <1>1, PTL DEF Spec, IntactSpec

\* PayPal holds money only of the latest attempt, which is live, as long as no
\* clean-up fails an attempt that was revived after its decline.
THEOREM ChargeHolds == IntactSpec => []ChargeInv
<1>1. TypeOK /\ SettlementInv /\ ChargeInv /\ [IntactNext]_vars => ChargeInv'
  BY ChargeStep
<1> QED BY <1>1, ChargeInit, TypeCorrect, SettlementHolds, IntactIsCheckout, PTL
        DEF IntactSpec

\* No two attempts of an order could ever take money, as long as no clean-up
\* fails an attempt that was revived after its decline.
THEOREM OneAttemptAtATime == IntactSpec => []OneUnresolvedAttempt
<1>1. ChargeInv => OneUnresolvedAttempt
  BY DEF ChargeInv, RowsInv, Live, Latest, OneUnresolvedAttempt, Attempts
<1> QED BY <1>1, ChargeHolds, PTL

\* Money PayPal took has paid the order or keeps its attempt unresolved, as long
\* as no clean-up fails an attempt that was revived after its decline.
THEOREM ChargesAreKnown == IntactSpec => []ChargeNeverForgotten
<1>1. SettlementInv /\ ChargeInv => ChargeNeverForgotten
  BY DEF SettlementInv, ChargeInv, SidesInv, Charged, Live, ChargeNeverForgotten
<1> QED BY <1>1, ChargeHolds, SettlementHolds, IntactIsCheckout, PTL

-----------------------------------------------------------------------------
(* Checkout implements CheckoutPromise.                                    *)

Taken == {a \in Attempts : provider[a].status = "COMPLETED"}

\* What the promise says of a state, in terms of the attempts.
Promised ==
    /\ \A a, b \in Taken : a = b
    /\ order.paid => Taken # {}
    /\ hold.state = "confirmed" <=> order.paid

LEMMA PromisedHolds == SettlementInv /\ ChargeInv => Promised
<1> SUFFICES ASSUME SettlementInv, ChargeInv PROVE Promised
  OBVIOUS
<1>1. \A a \in Taken : Latest(a)
  BY DEF Taken, ChargeInv, SidesInv, RowsInv, Charged
<1>2. \A a, b \in Taken : a = b
  BY <1>1 DEF Taken, Latest, Attempts
<1> QED BY <1>2 DEF Promised, SettlementInv, PaidIsBacked, SoldOnlyIfPaid, Taken

\* No charge counts zero, the only one counts one.
LEMMA TakenCount ==
    ASSUME NEW S, \A a, b \in S : a = b
    PROVE  /\ S = {} => Cardinality(S) = 0
           /\ S # {} => Cardinality(S) = 1
<1>1. ASSUME NEW x \in S PROVE Cardinality(S) = 1
  <2>1. S = {x}
    BY <1>1
  <2> QED BY <2>1, FS_Singleton
<1> QED BY <1>1, FS_EmptySet

\* What the calls, clean-ups and webhooks leave of PayPal's charges: all.
LEMMA TakenKept ==
    ASSUME TypeOK, ChargeInv, Calls \/ Cleanups \/ Webhooks \/ UNCHANGED vars
    PROVE  Taken' = Taken
<1>1. ASSUME \A a \in Attempts :
               provider'[a].status = "COMPLETED" <=> provider[a].status = "COMPLETED"
      PROVE  Taken' = Taken
  BY <1>1 DEF Taken
<1>2. ASSUME provider' = provider PROVE Taken' = Taken
  BY <1>1, <1>2
<1>3. CASE CreateSucceeds
  <2>1. tx.a \in Attempts /\ ~HasRow(tx.a)
    BY <1>3, TxAttempt DEF CreateSucceeds, TypeOK, ChargeInv, TxInv
  <2>2. provider[tx.a].status = "none" /\ provider'[tx.a].status = "CREATED"
    BY <1>3, <2>1 DEF CreateSucceeds, TypeOK, ChargeInv, SidesInv, Sides
  <2>3. \A a \in Attempts \ {tx.a} : provider'[a] = provider[a]
    BY <1>3 DEF CreateSucceeds, TypeOK
  <2> QED BY <1>1, <2>2, <2>3
<1>4. ASSUME NEW a \in Attempts, BeginCapture(a) PROVE Taken' = Taken
  BY <1>1, <1>4 DEF BeginCapture, TypeOK, Sides
<1>5. CASE CaptureDeclined
  BY <1>1, <1>5 DEF CaptureDeclined, TypeOK, Sides
<1>6. ASSUME NEW a \in Attempts, BeginCancel(a) \/ BeginReconcile(a) \/ BeginExpire(a)
      PROVE  Taken' = Taken
  BY <1>2, <1>6 DEF BeginCancel, BeginReconcile, BeginExpire
<1>7. CASE BeginCreate \/ CreateUnclear \/ CreateFails \/ CaptureSettles
           \/ CaptureUnsettled \/ CaptureUnclear \/ LookUp \/ TxAborts \/ StaffCancel
  BY <1>2, <1>7 DEF BeginCreate, CreateUnclear, CreateFails, CaptureSettles,
                    CaptureUnsettled, CaptureUnclear, LookUp, TxAborts, StaffCancel
<1>8. CASE CancelSucceeds \/ CancelRefused \/ ExpireSucceeds \/ ReconcileCaptured
           \/ ReconcileVoided \/ ReconcileOpen
  BY <1>2, <1>8 DEF CancelSucceeds, CancelRefused, ExpireSucceeds, CloseCheckout,
                    ReconcileCaptured, ReconcileVoided, ReconcileOpen
<1>9. CASE Cleanups \/ Webhooks \/ UNCHANGED vars
  BY <1>2, <1>9 DEF Cleanups, CleanupReads, CleanupWrites, CleanUp, CleanupLost, Webhooks,
                    HookReads, HookWrites, HookFails, vars
<1> QED BY <1>3, <1>4, <1>5, <1>6, <1>7, <1>8, <1>9 DEF Calls

\* PayPal may add a charge, and touches nothing of the order.
LEMMA TakenByPayPal ==
    ASSUME TypeOK, World
    PROVE  Taken \subseteq Taken' /\ UNCHANGED order
<1>1. ASSUME NEW a \in Attempts,
             BuyerApproves(a) \/ ProviderCaptures(a) \/ ProviderDecides(a)
               \/ ProviderVoids(a)
      PROVE  Taken \subseteq Taken' /\ UNCHANGED order
  BY <1>1 DEF BuyerApproves, ProviderCaptures, ProviderDecides, ProviderVoids,
              Moves, TypeOK, Sides, Taken
<1>2. CASE HoldLapses \/ OtherOrderSweeps
  BY <1>2 DEF HoldLapses, OtherOrderSweeps, Taken
<1> QED BY <1>1, <1>2 DEF World

\* No step takes the payment of an order back.
LEMMA PaidStays ==
    ASSUME TypeOK, [IntactNext]_vars, order.paid
    PROVE  order'.paid
<1>1. CASE World
  BY <1>1, TakenByPayPal
<1>2. CASE CleanupWrites
  BY <1>2 DEF CleanupWrites, CleanUp, Uncredited, TypeOK, OrderRows
<1>3. CASE CleanupReads \/ CleanupLost \/ Webhooks \/ UNCHANGED vars
  BY <1>3 DEF CleanupReads, CleanupLost, Webhooks, HookReads, HookWrites,
              HookFails, vars
<1>4. ASSUME NEW a \in Attempts,
             BeginCapture(a) \/ BeginCancel(a) \/ BeginReconcile(a) \/ BeginExpire(a)
      PROVE  order'.paid
  BY <1>4 DEF BeginCapture, BeginCancel, BeginReconcile, BeginExpire
<1>5. CASE BeginCreate \/ CreateSucceeds \/ CreateUnclear \/ CreateFails
           \/ CaptureUnsettled \/ CaptureDeclined \/ CaptureUnclear \/ LookUp
           \/ CancelRefused \/ ReconcileVoided \/ ReconcileOpen \/ TxAborts
  BY <1>5 DEF BeginCreate, CreateSucceeds, CreateUnclear, CreateFails,
              CaptureUnsettled, CaptureDeclined, CaptureUnclear, LookUp,
              CancelRefused, ReconcileVoided, ReconcileOpen, TxAborts
<1>6. CASE CaptureSettles \/ CancelSucceeds \/ ExpireSucceeds \/ ReconcileCaptured
           \/ StaffCancel
  BY <1>6 DEF CaptureSettles, CancelSucceeds, ExpireSucceeds, CloseCheckout,
              ReconcileCaptured, StaffCancel, TypeOK, OrderRows
<1> QED BY <1>1, <1>2, <1>3, <1>4, <1>5, <1>6 DEF IntactNext, Calls, Cleanups

LEMMA PromiseInit == Init => Promise!Init
<1> SUFFICES ASSUME Init PROVE Promise!Init
  OBVIOUS
<1>1. Taken = {}
  BY DEF Init, Taken
<1>2. Cardinality(Taken) = 0
  BY <1>1, TakenCount
<1>3. order.paid = FALSE /\ (hold.state = "confirmed") = FALSE
  BY DEF Init
<1> QED BY <1>2, <1>3 DEF Promise!Init, Taken

\* A step of checkout charges, settles, or changes nothing that is promised.
LEMMA PromiseStep ==
    ASSUME TypeOK, TypeOK', ChargeInv, Promised, Promised', [IntactNext]_vars
    PROVE  [Promise!Next]_<<Cardinality(Taken), order.paid, hold.state = "confirmed">>
<1>t. order.paid \in BOOLEAN /\ order'.paid \in BOOLEAN
  BY DEF TypeOK, OrderRows
<1>c. /\ Taken = {} => Cardinality(Taken) = 0
      /\ Taken # {} => Cardinality(Taken) = 1
      /\ Taken' = {} => Cardinality(Taken') = 0
      /\ Taken' # {} => Cardinality(Taken') = 1
  BY TakenCount DEF Promised
<1>1. CASE Taken' = Taken
  <2>1. CASE order'.paid = order.paid
    BY <1>t, <1>1, <2>1 DEF Promised
  <2>2. CASE order'.paid # order.paid
    <3>1. ~order.paid /\ order'.paid /\ Taken # {}
      BY <1>t, <1>1, <2>2, PaidStays DEF Promised
    <3>2. Promise!Settle
      BY <1>t, <1>c, <1>1, <3>1 DEF Promise!Settle, Promised, Taken
    <3> QED BY <3>2 DEF Promise!Next
  <2> QED BY <2>1, <2>2
<1>2. CASE Taken' # Taken
  <2>1. Taken \subseteq Taken' /\ UNCHANGED order
    BY <1>2, TakenKept, TakenByPayPal DEF IntactNext
  <2>2. Taken = {} /\ Taken' # {}
    BY <1>2, <2>1 DEF Promised
  <2>3. Promise!Charge
    BY <1>t, <1>c, <2>1, <2>2 DEF Promise!Charge, Promised, Taken
  <2> QED BY <2>3 DEF Promise!Next
<1> QED BY <1>1, <1>2

\* One charge at most, then one settlement at most, each with the sale of
\* the stock: checkout implements the abstract promise, step by step, as long
\* as no clean-up fails an attempt that was revived after its decline.
THEOREM CheckoutKeepsPromise == IntactSpec => KeepsPromise
<1>1. TypeOK /\ TypeOK' /\ ChargeInv /\ Promised /\ Promised' /\ [IntactNext]_vars
        => [Promise!Next]_<<Cardinality({a \in Attempts : provider[a].status = "COMPLETED"}),
                            order.paid, hold.state = "confirmed">>
  BY PromiseStep DEF Taken
<1>2. SettlementInv /\ ChargeInv => Promised
  BY PromisedHolds
<1>3. IntactSpec => []TypeOK /\ []SettlementInv /\ []ChargeInv
  BY TypeCorrect, SettlementHolds, IntactIsCheckout, ChargeHolds
<1> QED BY <1>1, <1>2, <1>3, PromiseInit, PTL DEF IntactSpec, KeepsPromise, Promise!Spec

=============================================================================
