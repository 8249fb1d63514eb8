------------------------- MODULE UberFulfillment_proofs -------------------------
(* Theorems about UberFulfillment, for any number of workers, deliveries    *)
(* and crashes, and their proofs.                                           *)
EXTENDS UberFulfillment, TLAPS

\* The states from which a courier is still to be asked for.
Open == {"payment_pending", "awaiting_staff_request", "staff_requesting",
         "delivery_create_pending"}

\* The states of a row without a delivery.
NoCourier == Open \cup {"creating", "requote_required", "configuration_required"}

\* A status that a delivery at Uber really has had.
Real(id, status) == id \in DOMAIN uber /\ status \in uber[id].had

RowOK ==
    /\ row.state \in Open => posts = 0
    /\ row.state \in NoCourier => row.id = 0
    /\ row.id = 0 <=> row.status = "none"
    /\ row.id # 0 => Real(row.id, row.status) /\ (row.state \in Over => row.status = row.state)

UberOK == \A d \in DOMAIN uber :
    uber[d].status \in uber[d].had /\ \A s \in uber[d].had \cap Over : uber[d].status = s

RequestOK(w) ==
    /\ At(w, "request", "claim") => op[w].seen.state \in Open
    /\ op[w].got.id # 0 => Real(op[w].got.id, op[w].got.status)
    /\ op[w].seen.id # 0 => Real(op[w].seen.id, op[w].seen.status) /\ row.id = op[w].seen.id
    /\ op[w].seen.id # 0 /\ op[w].job # "request" /\ op[w].at = "answered" =>
         op[w].got.id = op[w].seen.id
    /\ op[w].job = "cancel" => op[w].seen.id # 0
    /\ op[w].job = "reconcile" => op[w].seen.state \in Reconcilable

Types == /\ order \in Orders /\ {flagged, crowded} \subseteq BOOLEAN /\ quote \in {"fresh", "expired"}
         /\ row \in Rows /\ uber \in Seq(Deliveries) /\ handled \subseteq Nat \X Statuses
         /\ posts \in 0..MaxPosts /\ crashes \in 0..MaxCrashes

IInv == /\ Types /\ op \in [Workers -> Ops] /\ OneCreate /\ RowOK /\ UberOK
        /\ \A w \in Workers : RequestOK(w)

\* What a step may do to the deliveries and to the id of the row.
Grows == /\ DOMAIN uber \subseteq DOMAIN uber'
         /\ \A d \in DOMAIN uber : uber[d].had \subseteq uber'[d].had
KeepsId == row.id # 0 => row'.id = row.id
Kept == IInv' /\ KeepsId

-----------------------------------------------------------------------------
LEMMA NoOpFacts == NoOp \in Ops /\ FirstRow \in Rows /\ NoAnswer \in Answers
  BY DEF NoOp, Ops, FirstRow, Rows, RowStates, NoAnswer, Answers, Over, Failures

LEMMA InitIInv == Init => IInv
<1> SUFFICES ASSUME Init PROVE IInv  OBVIOUS
<1>1. Types /\ op \in [Workers -> Ops]
  <2>1. MaxPosts \in Nat /\ MaxCrashes \in Nat  BY FulfillmentAssumption
  <2>2. uber \in Seq(Deliveries) /\ order \in Orders  BY DEF Init, Orders
  <2>3. posts \in 0..MaxPosts /\ crashes \in 0..MaxCrashes  BY <2>1 DEF Init
  <2>4. row \in Rows /\ op \in [Workers -> Ops]  BY NoOpFacts DEF Init
  <2>5. QED  BY <2>2, <2>3, <2>4 DEF Init, Types
<1>2. OneCreate /\ RowOK /\ UberOK
  BY DEF Init, OneCreate, RowOK, UberOK, FirstRow, Over, Failures
<1>3. \A w \in Workers : RequestOK(w)
  BY DEF Init, RequestOK, NoOp, FirstRow, NoAnswer, At
<1>4. QED  BY <1>1, <1>2, <1>3 DEF IInv

\* A request that is left alone, over, or only goes on, stays as true as it was.
LEMMA RequestsKept ==
  ASSUME IInv, Grows, KeepsId, NEW w \in Workers, RequestOK(w)
  PROVE  /\ op'[w] = op[w] => RequestOK(w)'
         /\ op'[w] = NoOp => RequestOK(w)'
         /\ \A at \in {"claim", "quote", "dispatch", "send", "sent", "ask", "flag"} :
              /\ op'[w] = [op[w] EXCEPT !.at = at]
              /\ ~At(w, "request", "claim") \/ at # "claim"
              /\ op[w].job # "request" \/ at # "claim"
              => RequestOK(w)'
<1>1. op[w] \in Ops  BY DEF IInv
<1>2. op'[w] = op[w] => RequestOK(w)'
  BY DEF RequestOK, Grows, KeepsId, Real, At
<1>3. op'[w] = NoOp => RequestOK(w)'
  BY DEF RequestOK, NoOp, FirstRow, NoAnswer, At
<1>4. ASSUME NEW at \in {"claim", "quote", "dispatch", "send", "sent", "ask", "flag"},
             op'[w] = [op[w] EXCEPT !.at = at], op[w].job # "request" \/ at # "claim"
      PROVE  RequestOK(w)'
  BY <1>1, <1>4 DEF RequestOK, Grows, KeepsId, Real, At, Ops
<1>5. QED  BY <1>2, <1>3, <1>4

\* A step of one worker, who stops or goes on, and of nobody.
LEMMA StepKeeps ==
  ASSUME IInv, Grows, KeepsId, Types', OneCreate', RowOK', UberOK',
         \/ op' = op
         \/ \E w \in Workers : Done(w)
         \/ \E w \in Workers, at \in {"quote", "dispatch", "send", "sent", "ask", "flag"} :
              Goto(w, at)
         \/ \E w \in Workers, o \in Ops : op' = [op EXCEPT ![w] = o] /\ RequestOK(w)'
  PROVE  Kept
<1>1. op \in [Workers -> Ops]  BY DEF IInv
<1>2. ASSUME op' = op
      PROVE  op' \in [Workers -> Ops] /\ \A v \in Workers : RequestOK(v)'
  BY <1>1, <1>2, RequestsKept DEF IInv
<1>3. ASSUME NEW w \in Workers, Done(w)
      PROVE  op' \in [Workers -> Ops] /\ \A v \in Workers : RequestOK(v)'
  BY <1>1, <1>3, NoOpFacts, RequestsKept DEF IInv, Done
<1>4. ASSUME NEW w \in Workers,
             NEW at \in {"quote", "dispatch", "send", "sent", "ask", "flag"}, Goto(w, at)
      PROVE  op' \in [Workers -> Ops] /\ \A v \in Workers : RequestOK(v)'
  <2>1. op'[w] = [op[w] EXCEPT !.at = at] /\ \A v \in Workers \ {w} : op'[v] = op[v]
    BY <1>1, <1>4 DEF Goto
  <2>2. [op[w] EXCEPT !.at = at] \in Ops  BY <1>1 DEF Ops
  <2>3. op' \in [Workers -> Ops]  BY <1>1, <1>4, <2>2 DEF Goto
  <2>4. ASSUME NEW v \in Workers PROVE RequestOK(v)'
    <3>1. CASE v = w  BY <2>1, <3>1, RequestsKept DEF IInv
    <3>2. CASE v # w  BY <2>1, <3>2, RequestsKept DEF IInv
    <3>3. QED  BY <3>1, <3>2
  <2>5. QED  BY <2>3, <2>4
<1>5. ASSUME NEW w \in Workers, NEW o \in Ops, op' = [op EXCEPT ![w] = o], RequestOK(w)'
      PROVE  op' \in [Workers -> Ops] /\ \A v \in Workers : RequestOK(v)'
  BY <1>1, <1>5, RequestsKept DEF IInv
<1>6. op' \in [Workers -> Ops] /\ \A v \in Workers : RequestOK(v)'
  BY <1>1, <1>2, <1>3, <1>4, <1>5, RequestsKept DEF IInv
<1>7. QED  BY <1>6 DEF IInv, Kept

\* Steps that leave the deliveries alone, and set only the state of the row.
LEMMA StateKeeps ==
  ASSUME IInv, UNCHANGED uber, NEW state \in RowStates \ Over,
         row' = row \/ Set(state), posts' = posts,
         row' = row \/ state \notin NoCourier \/ (row.state \in Open /\ state # "creating")
  PROVE  Grows /\ KeepsId /\ RowOK' /\ UberOK' /\ row' \in Rows
<1>1. row \in Rows /\ uber \in Seq(Deliveries)  BY DEF IInv, Types
<1>2. row' = row \/ row' = [row EXCEPT !.state = state]  BY DEF Set
<1>3. row' \in Rows  BY <1>1, <1>2 DEF Rows
<1>4. KeepsId /\ RowOK'
  BY <1>1, <1>2 DEF IInv, RowOK, KeepsId, Real, Rows, NoCourier, Open, Over, Failures
<1>5. Grows /\ UberOK'  BY DEF Grows, IInv, UberOK
<1>6. QED  BY <1>3, <1>4, <1>5

-----------------------------------------------------------------------------
(* The order's other handlers.                                              *)
LEMMA StartKeeps ==
  ASSUME IInv, NEW w \in Workers, NEW job \in {"request", "reconcile", "cancel"},
         NEW at \in {"claim", "ask"}, Start(w, job, at),
         job = "request" => row.state \in Open,
         job = "cancel" => row.id # 0,
         job = "reconcile" => row.state \in Reconcilable
  PROVE  Kept
<1> DEFINE o == [NoOp EXCEPT !.job = job, !.at = at, !.seen = row]
<1>1. row \in Rows /\ op \in [Workers -> Ops]  BY DEF IInv, Types
<1>2. o \in Ops /\ op' = [op EXCEPT ![w] = o]
  BY <1>1, NoOpFacts DEF Start, NoOp, Ops
<1>3. UNCHANGED <<order, flagged, quote, row, uber, crowded, handled, posts, crashes>>  BY DEF Start
<1>4. Grows /\ KeepsId /\ Types' /\ OneCreate' /\ RowOK' /\ UberOK'
  BY <1>3 DEF IInv, Grows, KeepsId, Types, OneCreate, RowOK, UberOK, Real
<1>5. RequestOK(w)'
  BY <1>1, <1>2, <1>3 DEF RequestOK, IInv, RowOK, Real, At, NoOp, NoAnswer
<1>6. QED  BY <1>2, <1>4, <1>5, StepKeeps

LEMMA OrderKeeps ==
  ASSUME IInv,
         \/ Pay \/ MarkReady \/ Close \/ Queue \/ Expire
         \/ \E w \in Workers : Flag(w) \/ Crash(w)
  PROVE  Kept
<1>1. row \in Rows /\ order \in Orders  BY DEF IInv, Types
<1>2. ASSUME UNCHANGED <<row, uber, posts>>
      PROVE  Grows /\ KeepsId /\ OneCreate' /\ RowOK' /\ UberOK'
  BY <1>2 DEF IInv, Grows, KeepsId, OneCreate, RowOK, UberOK, Real
<1>3. CASE Pay \/ MarkReady \/ Close \/ Expire
  <2>1. Types' /\ op' = op /\ UNCHANGED <<row, uber, posts>>
    BY <1>1, <1>3 DEF IInv, Types, Orders, Pay, MarkReady, Close, Expire
  <2>2. QED  BY <2>1, <1>2, StepKeeps
<1>4. CASE Queue
  <2>1. Grows /\ KeepsId /\ RowOK' /\ UberOK' /\ row' \in Rows
    BY <1>4, StateKeeps DEF Queue, RowStates, NoCourier, Open, Over, Failures
  <2>2. Types' /\ OneCreate' /\ op' = op  BY <1>4, <2>1 DEF Queue, IInv, Types, OneCreate
  <2>3. QED  BY <2>1, <2>2, StepKeeps
<1>5. ASSUME NEW w \in Workers, Flag(w) PROVE Kept
  <2>1. Types' /\ Done(w) /\ UNCHANGED <<row, uber, posts>>
    BY <1>1, <1>5 DEF Flag, IInv, Types, Orders
  <2>2. QED  BY <2>1, <1>2, StepKeeps
<1>6. ASSUME NEW w \in Workers, Crash(w) PROVE Kept
  <2>1. Types' /\ Done(w) /\ UNCHANGED <<row, uber, posts>>
    BY <1>6, FulfillmentAssumption DEF Crash, IInv, Types
  <2>2. QED  BY <2>1, <1>2, StepKeeps
<1>7. QED  BY <1>3, <1>4, <1>5, <1>6

-----------------------------------------------------------------------------
(* A request for a courier.                                                 *)
LEMMA ClaimKeeps ==
  ASSUME IInv, NEW w \in Workers, ClaimRequest(w) PROVE Kept
<1>1. RequestOK(w)  BY DEF IInv
<1>2. row' = row \/ (row.state \in Open /\ Set("staff_requesting"))
  BY <1>1 DEF ClaimRequest, RequestOK, Unchanged
<1>3. Grows /\ KeepsId /\ RowOK' /\ UberOK' /\ row' \in Rows
  BY <1>2, StateKeeps DEF ClaimRequest, RowStates, NoCourier, Open, Over, Failures
<1>4. Types' /\ OneCreate' /\ (Done(w) \/ Goto(w, "quote"))
  BY <1>3 DEF ClaimRequest, IInv, Types, OneCreate
<1>5. QED  BY <1>3, <1>4, StepKeeps

LEMMA RequoteKeeps ==
  ASSUME IInv, NEW w \in Workers,
         NEW outcome \in {"kept", "refreshed", "mismatch", "unavailable"}, Requote(w, outcome)
  PROVE  Kept
<1>1. \E state \in {"delivery_create_pending", "manual_reconciliation_required",
                    "requote_required"} :
        row' = row \/ (row.state = "staff_requesting" /\ Set(state))
  BY DEF Requote
<1>2. Grows /\ KeepsId /\ RowOK' /\ UberOK' /\ row' \in Rows
  BY <1>1, StateKeeps DEF Requote, RowStates, NoCourier, Open, Over, Failures
<1>3. Types' /\ OneCreate' /\ (Done(w) \/ Goto(w, "dispatch"))
  BY <1>2 DEF Requote, IInv, Types, OneCreate
<1>4. QED  BY <1>2, <1>3, StepKeeps

LEMMA DispatchKeeps ==
  ASSUME IInv, NEW w \in Workers, Dispatch(w) PROVE Kept
<1>1. \E state \in {"configuration_required", "requote_required"} :
        row' = row \/ (row.state = "delivery_create_pending" /\ Set(state))
  BY DEF Dispatch
<1>2. Grows /\ KeepsId /\ RowOK' /\ UberOK' /\ row' \in Rows
  BY <1>1, StateKeeps DEF Dispatch, RowStates, NoCourier, Open, Over, Failures
<1>3. Types' /\ OneCreate' /\ (Done(w) \/ Goto(w, "send") \/ Goto(w, "flag"))
  BY <1>2 DEF Dispatch, IInv, Types, OneCreate
<1>4. QED  BY <1>2, <1>3, StepKeeps

\* A delivery that is new at Uber.
LEMMA AppendFacts ==
  ASSUME IInv, NEW ours \in BOOLEAN, uber' = Append(uber, Delivery(ours))
  PROVE  /\ uber' \in Seq(Deliveries) /\ Grows /\ UberOK' /\ Len(uber') \in DOMAIN uber'
         /\ uber'[Len(uber')] = Delivery(ours) /\ Len(uber') \in Nat
         /\ \A d \in DOMAIN uber : uber'[d] = uber[d]
<1>1. uber \in Seq(Deliveries)  BY DEF IInv, Types
<1>2. Delivery(ours) \in Deliveries
  BY DEF Delivery, Deliveries, Statuses, Progress
<1>3. /\ uber' \in Seq(Deliveries) /\ DOMAIN uber' = 1..(Len(uber) + 1) /\ DOMAIN uber = 1..Len(uber)
      /\ Len(uber') = Len(uber) + 1 /\ Len(uber) \in Nat
      /\ uber'[Len(uber) + 1] = Delivery(ours) /\ \A d \in 1..Len(uber) : uber'[d] = uber[d]
  BY <1>1, <1>2
<1>4. UberOK'
  <2>1. ASSUME NEW d \in DOMAIN uber'
        PROVE  uber'[d].status \in uber'[d].had /\ \A s \in uber'[d].had \cap Over : uber'[d].status = s
    <3>1. CASE d \in DOMAIN uber  BY <1>3, <3>1 DEF IInv, UberOK
    <3>2. CASE d \notin DOMAIN uber
      BY <1>3, <3>2 DEF Delivery, Over, Failures
    <3>3. QED  BY <3>1, <3>2
  <2>2. QED  BY <2>1 DEF UberOK
<1>5. QED  BY <1>3, <1>4 DEF Grows

LEMMA SendKeeps ==
  ASSUME IInv, NEW w \in Workers, NEW made \in BOOLEAN, Send(w, made) PROVE Kept
<1>1. row \in Rows /\ op \in [Workers -> Ops] /\ posts \in 0..MaxPosts /\ MaxPosts \in Nat
  BY FulfillmentAssumption DEF IInv, Types
<1>2. CASE row.state # "delivery_create_pending"
  <2>1. Done(w) /\ UNCHANGED <<row, uber, posts, order, flagged, quote, crowded, handled, crashes>>
    BY <1>2 DEF Send
  <2>2. QED
    BY <2>1, StepKeeps DEF IInv, Grows, KeepsId, Types, OneCreate, RowOK, UberOK, Real
<1>3. CASE row.state = "delivery_create_pending"
  <2> DEFINE got == IF made THEN [id |-> Len(uber'), status |-> "pending"] ELSE NoAnswer
             o == [op[w] EXCEPT !.at = "sent", !.got = got]
  <2>1. /\ posts < MaxPosts /\ posts' = posts + 1 /\ row' = [row EXCEPT !.state = "creating"]
        /\ uber' = (IF made THEN Append(uber, Delivery(TRUE)) ELSE uber)
        /\ op' = [op EXCEPT ![w].at = "sent", ![w].got = got]
        /\ UNCHANGED <<order, flagged, quote, crowded, handled, crashes>>
    BY <1>3 DEF Send, Set
  <2>2. posts = 0 /\ row.id = 0 /\ row.status = "none"  BY <1>3 DEF IInv, RowOK, NoCourier, Open
  <2>3. uber' \in Seq(Deliveries) /\ Grows /\ UberOK'
    <3>1. CASE made  BY <2>1, <3>1, AppendFacts
    <3>2. CASE ~made  BY <2>1, <3>2 DEF IInv, Types, Grows, UberOK
    <3>3. QED  BY <3>1, <3>2
  <2>4. got \in Answers
        /\ (got.id # 0 => got.id \in DOMAIN uber' /\ got.status \in uber'[got.id].had)
    <3>1. CASE made
      <4>1. got = [id |-> Len(uber'), status |-> "pending"]  BY <3>1
      <4>2. Len(uber') \in Nat /\ Len(uber') \in DOMAIN uber' /\ uber'[Len(uber')] = Delivery(TRUE)
        BY <2>1, <3>1, AppendFacts
      <4>3. "pending" \in Statuses  BY DEF Statuses, Progress
      <4>4. got.id = Len(uber') /\ got.status = "pending" /\ got \in Answers
        BY <4>1, <4>2, <4>3 DEF Answers
      <4>5. "pending" \in uber'[Len(uber')].had  BY <4>2 DEF Delivery
      <4>6. QED  BY <4>2, <4>4, <4>5
    <3>2. CASE ~made  BY <3>2, NoOpFacts DEF NoAnswer
    <3>3. QED  BY <3>1, <3>2
  <2>5. row' \in Rows /\ row'.state = "creating" /\ row'.id = 0 /\ row'.status = "none"
    BY <1>1, <2>1, <2>2 DEF Rows, RowStates
  <2>6. RowOK' /\ KeepsId /\ OneCreate'
    BY <2>1, <2>2, <2>5 DEF RowOK, KeepsId, OneCreate, NoCourier, Open
  <2>7. Types'
    <3>1. posts' \in 0..MaxPosts  BY <1>1, <2>1
    <3>2. QED  BY <3>1, <2>1, <2>3, <2>5 DEF IInv, Types
  <2>8. o \in Ops /\ op' = [op EXCEPT ![w] = o]
    BY <1>1, <2>1, <2>4 DEF Ops
  <2>9. RequestOK(w)'
    <3>1. op'[w].job = op[w].job /\ op'[w].at = "sent" /\ op'[w].seen = op[w].seen
          /\ op'[w].got = got
      BY <1>1, <2>8 DEF Ops
    <3>2. op[w].job = "request" /\ RequestOK(w)  BY DEF Send, At, IInv
    <3>3. QED
      BY <3>1, <3>2, <2>3, <2>4, <2>6 DEF RequestOK, At, Grows, KeepsId, Real
  <2>10. QED  BY <2>3, <2>6, <2>7, <2>8, <2>9, StepKeeps
<1>4. QED  BY <1>2, <1>3

\* A row that is given the delivery it has now, in a state that goes with it.
LEMMA RowSet ==
  ASSUME IInv, UNCHANGED uber, posts' = posts, NEW id \in Nat \ {0},
         NEW status \in Statuses, NEW state \in RowStates, row' = [state |-> state, id |-> id, status |-> status],
         Real(id, status), row.id \in {0, id}, state \notin NoCourier,
         state \in Over => state = status
  PROVE  Grows /\ KeepsId /\ RowOK' /\ UberOK' /\ row' \in Rows
<1>1. row' \in Rows  BY DEF Rows
<1>2. Grows /\ UberOK' /\ KeepsId  BY DEF Grows, IInv, UberOK, KeepsId
<1>3. status # "none"  BY DEF Statuses, Progress, Failures
<1>4. RowOK'  BY <1>3 DEF RowOK, Real, NoCourier
<1>5. QED  BY <1>1, <1>2, <1>4

LEMMA AdoptFacts ==
  ASSUME IInv, NEW got \in Answers, got.id # 0, Real(got.id, got.status)
  PROVE  got.id \in Nat \ {0} /\ got.status \in Statuses
<1>1. uber \in Seq(Deliveries) /\ got.id \in DOMAIN uber /\ got.status \in uber[got.id].had
  BY DEF IInv, Types, Real
<1>2. uber[got.id] \in Deliveries  BY <1>1
<1>3. QED  BY <1>1, <1>2 DEF Deliveries, Answers

LEMMA CreatedKeeps ==
  ASSUME IInv, NEW w \in Workers, NEW arrives \in BOOLEAN, Created(w, arrives) PROVE Kept
<1>1. RequestOK(w) /\ op[w] \in Ops /\ op[w].got \in Answers  BY DEF IInv, Ops
<1>2. CASE row.state = "creating" /\ arrives
  <2>1. row.id = 0 /\ op[w].got.id # 0  BY <1>2 DEF IInv, RowOK, NoCourier, Created
  <2>2. op[w].got.id \in Nat \ {0} /\ op[w].got.status \in Statuses
        /\ Real(op[w].got.id, op[w].got.status)
    BY <1>1, <2>1, AdoptFacts DEF RequestOK
  <2>3. row' = [state |-> "delivery_created", id |-> op[w].got.id, status |-> op[w].got.status]
        /\ UNCHANGED <<uber, posts>>
    BY <1>2 DEF Created, Adopted
  <2>4. Grows /\ KeepsId /\ RowOK' /\ UberOK' /\ row' \in Rows
    <3>1. "delivery_created" \in RowStates \ Over
          /\ "delivery_created" \notin NoCourier
      BY DEF RowStates, NoCourier, Open, Over, Failures
    <3>2. QED  BY <3>1, <2>1, <2>2, <2>3, RowSet
  <2>5. Types' /\ OneCreate' /\ Done(w)  BY <2>4 DEF Created, IInv, Types, OneCreate
  <2>6. QED  BY <2>4, <2>5, StepKeeps
<1>3. CASE ~(row.state = "creating" /\ arrives)
  <2>1. row' = row \/ Set("reconciliation_required")  BY <1>3 DEF Created, Set
  <2>2. Grows /\ KeepsId /\ RowOK' /\ UberOK' /\ row' \in Rows
    BY <2>1, StateKeeps DEF Created, RowStates, NoCourier, Open, Over, Failures
  <2>3. Types' /\ OneCreate' /\ Done(w)  BY <2>2 DEF Created, IInv, Types, OneCreate
  <2>4. QED  BY <2>2, <2>3, StepKeeps
<1>4. QED  BY <1>2, <1>3

-----------------------------------------------------------------------------
(* Reconciliation.                                                          *)
LEMMA LookupKeeps ==
  ASSUME IInv, NEW w \in Workers, Lookup(w) PROVE Kept
<1> DEFINE known == op[w].seen.id
<1>1. op \in [Workers -> Ops] /\ uber \in Seq(Deliveries) /\ RequestOK(w)  BY DEF IInv, Types
<1>2. PICK got \in LookedUp(known) :
      /\ op' = [op EXCEPT ![w].at = "answered", ![w].got = got]
      /\ UNCHANGED <<order, flagged, quote, row, uber, crowded, handled, posts, crashes>>
  BY DEF Lookup
<1> DEFINE o == [op[w] EXCEPT !.at = "answered", !.got = got]
<1>3. ASSUME NEW d \in DOMAIN uber, got = [id |-> d, status |-> uber[d].status]
      PROVE  got \in Answers /\ Real(got.id, got.status)
  <2>1. uber[d] \in Deliveries /\ d \in Nat  BY <1>1
  <2>2. uber[d].status \in uber[d].had  BY DEF IInv, UberOK
  <2>3. got.id = d /\ got.status = uber[d].status /\ uber[d].status \in Statuses
    BY <1>3, <2>1 DEF Deliveries
  <2>4. got \in Answers  BY <1>3, <2>1, <2>3 DEF Answers
  <2>5. QED  BY <2>2, <2>3, <2>4 DEF Real
<1>4. got \in Answers /\ (got.id # 0 => Real(got.id, got.status)) /\ (known # 0 => got.id = known)
  <2>1. CASE known # 0 /\ got = [id |-> known, status |-> uber[known].status]
    <3>1. known \in DOMAIN uber  BY <1>1, <2>1 DEF RequestOK, Real
    <3>2. QED  BY <1>3, <2>1, <3>1
  <2>2. ASSUME known = 0, NEW d \in Matches, got = [id |-> d, status |-> uber[d].status]
        PROVE  got \in Answers /\ (got.id # 0 => Real(got.id, got.status))
    <3>1. d \in DOMAIN uber  BY DEF Matches
    <3>2. QED  BY <1>3, <2>2, <3>1
  <2>3. CASE known = 0 /\ got \in {NoAnswer, Several}
    <3>1. got \in Answers /\ got.id = 0  BY <2>3 DEF NoAnswer, Several, Answers
    <3>2. QED  BY <2>3, <3>1
  <2>4. \/ known # 0 /\ got = [id |-> known, status |-> uber[known].status]
        \/ known = 0 /\ got \in {NoAnswer, Several}
        \/ known = 0 /\ \E d \in Matches : got = [id |-> d, status |-> uber[d].status]
    BY <1>2, Zenon DEF LookedUp
  <2>5. QED  BY <2>1, <2>2, <2>3, <2>4
<1>5. o \in Ops /\ op' = [op EXCEPT ![w] = o]  BY <1>1, <1>2, <1>4 DEF Ops
<1>6. RequestOK(w)'
  <2>1. op'[w].job = op[w].job /\ op'[w].at = "answered" /\ op'[w].seen = op[w].seen
        /\ op'[w].got = got
    BY <1>1, <1>5 DEF Ops
  <2>2. QED  BY <1>1, <1>2, <1>4, <2>1 DEF RequestOK, At, Real, Lookup
<1>7. Grows /\ KeepsId /\ Types' /\ OneCreate' /\ RowOK' /\ UberOK'
  BY <1>2 DEF IInv, Grows, KeepsId, Types, OneCreate, RowOK, UberOK, Real
<1>8. QED  BY <1>5, <1>6, <1>7, StepKeeps

LEMMA ReconcileKeeps ==
  ASSUME IInv, NEW w \in Workers, Reconcile(w) PROVE Kept
<1> DEFINE seen == op[w].seen
           got == op[w].got
           manual == [row EXCEPT !.state = "manual_reconciliation_required"]
<1>1. /\ op[w] \in Ops /\ RequestOK(w) /\ got \in Answers /\ seen \in Rows
      /\ op[w].job = "reconcile" /\ op[w].at = "answered"
  BY DEF IInv, Ops, Reconcile, At
<1>2. /\ row' = (IF Unchanged(w) THEN Resolved(seen, got) ELSE row)
      /\ UNCHANGED <<order, flagged, quote, uber, crowded, handled, posts, crashes>>
      /\ Done(w) \/ Goto(w, "flag")
  BY DEF Reconcile
<1> DEFINE Goal == Grows /\ KeepsId /\ RowOK' /\ UberOK' /\ row' \in Rows
<1>3. ASSUME row' = row \/ row' = manual PROVE Goal
  <2>1. "manual_reconciliation_required" \in RowStates \ Over
        /\ "manual_reconciliation_required" \notin NoCourier
    BY DEF RowStates, NoCourier, Open, Over, Failures
  <2>2. row' = row \/ Set("manual_reconciliation_required")  BY <1>3 DEF Set
  <2>3. UNCHANGED uber /\ posts' = posts  BY <1>2
  <2>4. QED  BY <2>1, <2>2, <2>3, StateKeeps
<1>4. ASSUME ~(row' = row \/ row' = manual) PROVE Goal
  <2>1. Unchanged(w) /\ row' = Resolved(seen, got) /\ got.id # 0  BY <1>2, <1>4 DEF Resolved
  <2>2. got.id \in Nat \ {0} /\ got.status \in Statuses /\ Real(got.id, got.status)
    BY <1>1, <2>1, AdoptFacts DEF RequestOK
  <2>3. row \in Rows /\ UNCHANGED uber /\ posts' = posts  BY <1>2 DEF IInv, Types
  <2>4. CASE seen.id = 0
    <3>1. row' = [state |-> "delivery_created", id |-> got.id, status |-> got.status] /\ row.id = 0
      BY <1>4, <2>1, <2>4 DEF Resolved, Adopted
    <3>2. "delivery_created" \in RowStates \ Over
          /\ "delivery_created" \notin NoCourier
      BY DEF RowStates, NoCourier, Open, Over, Failures
    <3>3. QED  BY <2>2, <2>3, <3>1, <3>2, RowSet
  <2>5. CASE seen.id # 0
    <3>1. got.id = seen.id /\ row.id = got.id  BY <1>1, <2>5 DEF RequestOK
    <3>2. row' = [row EXCEPT !.state = StateOf(got.status), !.status = got.status]
      BY <1>4, <2>1, <2>5 DEF Resolved
    <3>3. row' = [state |-> StateOf(got.status), id |-> got.id, status |-> got.status]
      BY <2>3, <3>1, <3>2 DEF Rows
    <3>4. /\ StateOf(got.status) \in RowStates /\ StateOf(got.status) \notin NoCourier
          /\ StateOf(got.status) \in Over => StateOf(got.status) = got.status
      BY DEF StateOf, RowStates, NoCourier, Open, Over, Failures
    <3> HIDE DEF got, seen, Goal
    <3>5. Goal  BY <2>2, <2>3, <3>1, <3>3, <3>4, RowSet DEF Goal
    <3>6. QED  BY <3>5
  <2>6. QED  BY <2>4, <2>5
<1>5. Goal  BY <1>3, <1>4
<1>6. Types' /\ OneCreate'  BY <1>2, <1>5 DEF IInv, Types, OneCreate
<1>7. QED  BY <1>2, <1>5, <1>6, StepKeeps

-----------------------------------------------------------------------------
(* Cancellation.                                                            *)
LEMMA ClaimCancelKeeps ==
  ASSUME IInv, NEW w \in Workers, ClaimCancel(w) PROVE Kept
<1>1. row' = row \/ Set("canceling")  BY DEF ClaimCancel
<1>2. Grows /\ KeepsId /\ RowOK' /\ UberOK' /\ row' \in Rows
  BY <1>1, StateKeeps DEF ClaimCancel, RowStates, NoCourier, Open, Over, Failures
<1>3. Types' /\ OneCreate' /\ (Done(w) \/ Goto(w, "ask"))
  BY <1>2 DEF ClaimCancel, IInv, Types, OneCreate
<1>4. QED  BY <1>2, <1>3, StepKeeps

\* A delivery at Uber that is not over gets another status.
LEMMA MoveFacts ==
  ASSUME IInv, NEW d \in DOMAIN uber, NEW status \in Statuses, uber[d].status \notin Over,
         uber' = [uber EXCEPT ![d].status = status, ![d].had = @ \cup {status}]
  PROVE  uber' \in Seq(Deliveries) /\ Grows /\ UberOK' /\ uber'[d].status = status
         /\ DOMAIN uber' = DOMAIN uber
<1>1. uber \in Seq(Deliveries) /\ uber[d] \in Deliveries  BY DEF IInv, Types
<1>2. /\ DOMAIN uber' = DOMAIN uber
      /\ uber'[d] = [uber[d] EXCEPT !.status = status, !.had = @ \cup {status}]
      /\ \A e \in DOMAIN uber \ {d} : uber'[e] = uber[e]
  BY <1>1
<1>3. uber'[d] \in Deliveries /\ uber'[d].status = status
      /\ uber'[d].had = uber[d].had \cup {status}
  BY <1>1, <1>2 DEF Deliveries
<1>4. uber' \in Seq(Deliveries)
  <2>1. [uber[d] EXCEPT !.status = status, !.had = @ \cup {status}] \in Deliveries
    BY <1>2, <1>3
  <2>2. uber' = [uber EXCEPT ![d] = [uber[d] EXCEPT !.status = status, !.had = @ \cup {status}]]
    BY <1>1
  <2>3. \A r \in Deliveries : [uber EXCEPT ![d] = r] \in Seq(Deliveries)  BY <1>1
  <2>4. QED  BY <2>1, <2>2, <2>3
<1>5. Grows  BY <1>2, <1>3 DEF Grows
<1>6. uber[d].had \cap Over = {}  BY DEF IInv, UberOK
<1>7. UberOK'
  <2>1. ASSUME NEW e \in DOMAIN uber'
        PROVE  uber'[e].status \in uber'[e].had /\ \A s \in uber'[e].had \cap Over : uber'[e].status = s
    <3>1. CASE e = d  BY <1>3, <1>6, <3>1
    <3>2. CASE e # d  BY <1>2, <3>2 DEF IInv, UberOK
    <3>3. QED  BY <3>1, <3>2
  <2>2. QED  BY <2>1 DEF UberOK
<1>8. QED  BY <1>2, <1>3, <1>4, <1>5, <1>7

\* Deliveries that move leave what the row says of its own true, unless the
\* row has it as over, when it cannot move.
LEMMA RowGrows ==
  ASSUME IInv, Grows, UNCHANGED <<row, posts>> PROVE RowOK' /\ KeepsId
  BY DEF IInv, RowOK, Grows, Real, KeepsId

LEMMA AskCancelKeeps ==
  ASSUME IInv, NEW w \in Workers, NEW agreed \in BOOLEAN, AskCancel(w, agreed) PROVE Kept
<1> DEFINE d == op[w].seen.id
           got == [id |-> d, status |-> uber'[d].status]
           o == [op[w] EXCEPT !.at = "answered", !.got = got]
<1>1. /\ op \in [Workers -> Ops] /\ RequestOK(w) /\ op[w] \in Ops /\ op[w].job = "cancel"
  BY DEF IInv, AskCancel, At
<1>2. d # 0 /\ d \in DOMAIN uber  BY <1>1 DEF RequestOK, Real
<1>3. uber' \in Seq(Deliveries) /\ Grows /\ UberOK'
  <2>1. CASE agreed
    <3>1. uber' = [uber EXCEPT ![d].status = "canceled", ![d].had = @ \cup {"canceled"}]
          /\ uber[d].status \in {"pending", "pickup"}
      BY <2>1 DEF AskCancel
    <3>2. "canceled" \in Statuses /\ uber[d].status \notin Over
      BY <3>1 DEF Statuses, Failures, Over
    <3>3. QED  BY <1>2, <3>1, <3>2, MoveFacts
  <2>2. CASE ~agreed
    BY <2>2 DEF AskCancel, IInv, Types, Grows, UberOK
  <2>3. QED  BY <2>1, <2>2
<1>4. /\ op' = [op EXCEPT ![w].at = "answered", ![w].got = got]
      /\ UNCHANGED <<order, flagged, quote, row, crowded, handled, posts, crashes>>
  BY DEF AskCancel
<1>5. /\ got \in Answers /\ d \in DOMAIN uber' /\ uber'[d].status \in uber'[d].had
  <2>1. d \in DOMAIN uber' /\ uber'[d] \in Deliveries /\ d \in Nat  BY <1>2, <1>3 DEF Grows
  <2>2. uber'[d].status \in uber'[d].had  BY <1>3, <2>1 DEF UberOK
  <2>3. QED  BY <2>1, <2>2 DEF Answers, Deliveries
<1>6. o \in Ops /\ op' = [op EXCEPT ![w] = o]  BY <1>1, <1>4, <1>5 DEF Ops
<1>7. RequestOK(w)'
  <2>1. op'[w].job = "cancel" /\ op'[w].at = "answered" /\ op'[w].seen = op[w].seen
        /\ op'[w].got = got
    BY <1>1, <1>6 DEF Ops
  <2>2. QED  BY <1>1, <1>3, <1>4, <1>5, <2>1 DEF RequestOK, At, Real, Grows
<1>8. RowOK' /\ KeepsId  BY <1>3, <1>4, RowGrows
<1>9. Types' /\ OneCreate'  BY <1>3, <1>4 DEF IInv, Types, OneCreate
<1>10. QED  BY <1>3, <1>6, <1>7, <1>8, <1>9, StepKeeps

\* Only statuses are had.
LEMMA StatusFacts ==
  ASSUME IInv, NEW id, NEW s, Real(id, s) PROVE s \in Statuses
<1>1. uber \in Seq(Deliveries) /\ id \in DOMAIN uber /\ s \in uber[id].had
  BY DEF IInv, Types, Real
<1>2. uber[id] \in Deliveries  BY <1>1
<1>3. QED  BY <1>1, <1>2 DEF Deliveries

LEMMA CancelKeeps ==
  ASSUME IInv, NEW w \in Workers, NEW answer \in {"status", "no status", "lost"},
         Cancel(w, answer)
  PROVE  Kept
<1>1. /\ RequestOK(w) /\ op[w] \in Ops /\ op[w].seen \in Rows /\ op[w].got \in Answers
      /\ op[w].job = "cancel" /\ op[w].at = "answered" /\ row \in Rows
  BY DEF IInv, Ops, Types, Cancel, At
<1>2. op[w].seen.id # 0 /\ row.id = op[w].seen.id /\ op[w].got.id = row.id
  BY <1>1 DEF RequestOK
<1>3. Real(row.id, op[w].got.status) /\ Real(row.id, op[w].seen.status) /\ Real(row.id, row.status)
  BY <1>1, <1>2 DEF RequestOK, IInv, RowOK
<1>4. \A s : Real(row.id, s) => s \in Statuses  BY StatusFacts
<1>5. Grows /\ KeepsId /\ RowOK' /\ UberOK' /\ row' \in Rows
  <2>1. CASE row.state # "canceling"
    <3>1. row' = row  BY <2>1 DEF Cancel
    <3>2. QED
      BY <1>1, <3>1 DEF Cancel, IInv, Grows, KeepsId, RowOK, UberOK, Real
  <2>2. CASE row.state = "canceling"
    <3> DEFINE status == CASE answer = "status" -> op[w].got.status
                           [] answer = "no status" -> op[w].seen.status
                           [] answer = "lost" -> row.status
               state == IF Confirms(answer, status) THEN "canceled"
                        ELSE "cancel_reconciliation_required"
    <3>1. row' = [row EXCEPT !.status = status, !.state = state] /\ UNCHANGED <<uber, posts>>
      BY <2>2 DEF Cancel
    <3>2. Real(row.id, status)  BY <1>3
    <3>3. status \in Statuses  BY <1>4, <3>2
    <3>4. state \in RowStates /\ state \notin NoCourier
          /\ (state \in Over => state = status)
      BY DEF Confirms, RowStates, NoCourier, Open, Over, Failures
    <3>5. row' = [state |-> state, id |-> row.id, status |-> status] /\ row.id \in Nat \ {0}
      <4> HIDE DEF status, state
      <4>1. QED  BY <1>1, <1>2, <3>1 DEF Rows
    <3> HIDE DEF status, state
    <3>6. QED  BY <3>1, <3>2, <3>3, <3>4, <3>5, RowSet
  <2>3. QED  BY <2>1, <2>2
<1>6. Types' /\ OneCreate' /\ (Done(w) \/ Goto(w, "flag"))
  BY <1>5 DEF Cancel, IInv, Types, OneCreate
<1>7. QED  BY <1>5, <1>6, StepKeeps

-----------------------------------------------------------------------------
(* Uber.                                                                    *)
LEMMA UberKeeps ==
  ASSUME IInv,
         \/ MakeOutside \/ Crowd
         \/ \E d \in Couriers : List(d) \/ \E s \in Reports : Move(d, s)
  PROVE  Kept
<1>1. ASSUME uber' \in Seq(Deliveries), Grows, UberOK',
             UNCHANGED <<order, flagged, quote, row, crowded, handled, posts, crashes, op>>
      PROVE  Kept
  <2>1. Types' /\ OneCreate' /\ op' = op  BY <1>1 DEF IInv, Types, OneCreate
  <2>2. RowOK' /\ KeepsId  BY <1>1, RowGrows
  <2>3. QED  BY <1>1, <2>1, <2>2, StepKeeps
<1>2. CASE MakeOutside
  BY <1>1, <1>2, AppendFacts DEF MakeOutside
<1>3. ASSUME NEW d \in Couriers, List(d) PROVE Kept
  <2>1. uber \in Seq(Deliveries) /\ d \in DOMAIN uber /\ uber[d] \in Deliveries
        /\ uber' = [uber EXCEPT ![d].listed = TRUE]
    BY <1>3 DEF IInv, Types, List
  <2>2. uber' = [uber EXCEPT ![d] = [uber[d] EXCEPT !.listed = TRUE]]
        /\ [uber[d] EXCEPT !.listed = TRUE] \in Deliveries
    BY <2>1 DEF Deliveries
  <2>3. uber' \in Seq(Deliveries) /\ DOMAIN uber' = DOMAIN uber  BY <2>1, <2>2
  <2>4. \A e \in DOMAIN uber : uber'[e].status = uber[e].status /\ uber'[e].had = uber[e].had
    <3>1. ASSUME NEW e \in DOMAIN uber
          PROVE  uber'[e].status = uber[e].status /\ uber'[e].had = uber[e].had
      <4>1. uber[e] \in Deliveries  BY <2>1
      <4>2. QED  BY <2>1, <2>2, <4>1 DEF Deliveries
    <3>2. QED  BY <3>1
  <2>5. Grows /\ UberOK'  BY <2>3, <2>4 DEF Grows, UberOK, IInv
  <2>6. QED  BY <1>1, <1>3, <2>3, <2>5 DEF List
<1>4. ASSUME NEW d \in Couriers, NEW s \in Reports, Move(d, s) PROVE Kept
  <2>1. d \in DOMAIN uber /\ uber[d].status \notin Over /\ s \in Statuses
        /\ uber' = [uber EXCEPT ![d].status = s, ![d].had = @ \cup {s}]
    BY <1>4, FulfillmentAssumption DEF Move, Advances
  <2>2. uber' \in Seq(Deliveries) /\ Grows /\ UberOK'  BY <2>1, MoveFacts
  <2>3. QED  BY <1>1, <1>4, <2>2 DEF Move
<1>5. CASE Crowd
  <2>1. Grows /\ UberOK' /\ RowOK' /\ KeepsId /\ Types' /\ OneCreate' /\ op' = op
    BY <1>5 DEF Crowd, IInv, Grows, UberOK, RowOK, Real, KeepsId, Types, OneCreate
  <2>2. QED  BY <2>1, StepKeeps
<1>6. QED  BY <1>2, <1>3, <1>4, <1>5

LEMMA WebhookKeeps ==
  ASSUME IInv, NEW d \in Couriers, NEW s \in Reports, Webhook(d, s) PROVE Kept
<1>1. /\ s \in Statuses /\ Real(d, s) /\ row.id \in {0, d} /\ row \in Rows
      /\ d \in Nat \ {0} /\ UNCHANGED <<quote, uber, crowded, posts, crashes, op>>
  <2>1. d \in DOMAIN uber /\ uber \in Seq(Deliveries)  BY DEF Webhook, IInv, Types
  <2>2. QED  BY <2>1, FulfillmentAssumption DEF Webhook, IInv, Types, Real, Ours
<1>2. Grows /\ KeepsId /\ RowOK' /\ UberOK' /\ row' \in Rows
  <2>1. CASE ~Advances(row.status, s)
    <3>1. row' = row  BY <2>1 DEF Webhook
    <3>2. QED
      BY <1>1, <3>1 DEF IInv, Grows, KeepsId, RowOK, UberOK, Real
  <2>2. CASE Advances(row.status, s)
    <3> DEFINE state == IF s \notin Over /\ CancelInFlight(row.state)
                        THEN row.state ELSE StateOf(s)
    <3>1. row' = [id |-> d, status |-> s, state |-> state]  BY <2>2 DEF Webhook
    <3>2. state \in RowStates /\ state \notin NoCourier
          /\ (state \in Over => state = s)
      BY DEF CancelInFlight, StateOf, RowStates, NoCourier, Open, Over, Failures
    <3> HIDE DEF state
    <3>3. QED  BY <1>1, <3>1, <3>2, RowSet
  <2>3. QED  BY <2>1, <2>2
<1>3. order' \in Orders /\ flagged' \in BOOLEAN /\ handled' \subseteq Nat \X Statuses
  BY <1>1 DEF Webhook, IInv, Types, Orders
<1>4. Types' /\ OneCreate' /\ op' = op
  BY <1>1, <1>2, <1>3 DEF Webhook, IInv, Types, OneCreate
<1>5. QED  BY <1>2, <1>4, StepKeeps

-----------------------------------------------------------------------------
LEMMA NextKeeps == ASSUME IInv, [Next]_vars PROVE Kept
<1>1. CASE UNCHANGED vars
  <2>1. UNCHANGED <<order, flagged, quote, row, uber, crowded, handled, posts, crashes, op>>
    BY <1>1 DEF vars
  <2>2. Grows /\ KeepsId /\ Types' /\ OneCreate' /\ RowOK' /\ UberOK' /\ op' = op
    BY <2>1 DEF IInv, Grows, KeepsId, Types, OneCreate, RowOK, UberOK, Real
  <2>3. QED  BY <2>2, StepKeeps
<1>2. ASSUME NEW w \in Workers, Request(w) PROVE Kept
  <2>1. CASE ReadRequest(w)  BY <2>1, StartKeeps DEF ReadRequest, Open
  <2>2. QED
    BY <1>2, <2>1, ClaimKeeps, DispatchKeeps, RequoteKeeps, SendKeeps, CreatedKeeps DEF Request
<1>3. ASSUME NEW w \in Workers, Recover(w) PROVE Kept
  <2>1. CASE ReadReconcile(w)  BY <2>1, StartKeeps DEF ReadReconcile
  <2>2. CASE LookupFails(w)
    <3>1. Done(w) /\ UNCHANGED <<order, flagged, quote, row, uber, crowded, handled, posts, crashes>>
      BY <2>2 DEF LookupFails
    <3>2. Grows /\ KeepsId /\ Types' /\ OneCreate' /\ RowOK' /\ UberOK'
      BY <3>1 DEF IInv, Grows, KeepsId, Types, OneCreate, RowOK, UberOK, Real
    <3>3. QED  BY <3>1, <3>2, StepKeeps
  <2>3. QED  BY <1>3, <2>1, <2>2, LookupKeeps, ReconcileKeeps DEF Recover
<1>4. ASSUME NEW w \in Workers, Cancellation(w) PROVE Kept
  <2>1. CASE ReadCancel(w)  BY <2>1, StartKeeps DEF ReadCancel
  <2>2. QED  BY <1>4, <2>1, ClaimCancelKeeps, AskCancelKeeps, CancelKeeps DEF Cancellation
<1>5. CASE Environment
  BY <1>5, OrderKeeps, UberKeeps, WebhookKeeps DEF Environment
<1>6. QED  BY <1>1, <1>2, <1>3, <1>4, <1>5, OrderKeeps DEF Next

THEOREM Invariance == Spec => []IInv
<1>1. Init => IInv  BY InitIInv
<1>2. IInv /\ [Next]_vars => IInv'  BY NextKeeps DEF Kept
<1>3. QED  BY <1>1, <1>2, PTL DEF Spec

-----------------------------------------------------------------------------
(* Every part of the state has its type, and the row has a delivery status *)
(* exactly when it has a delivery, which is one at Uber: webhooks, answers *)
(* and lookups all write both.                                             *)
THEOREM TypeCorrect == Spec => []TypeOK
<1>1. IInv => TypeOK  BY DEF IInv, Types, TypeOK, RowOK, Real
<1>2. QED  BY <1>1, Invariance, PTL

(* Uber is asked for a courier at most once for an order, however many     *)
(* requests there are and wherever they are cut off.                       *)
THEOREM AskedOnce == Spec => []OneCreate
<1>1. IInv => OneCreate  BY DEF IInv
<1>2. QED  BY <1>1, Invariance, PTL

(* What the row says of its courier, delivered above all, is what became   *)
(* of that courier at Uber.                                                *)
THEOREM TrueOfCourier == Spec => []CourierIsTrue
<1>1. IInv => CourierIsTrue
  <2> SUFFICES ASSUME IInv, row.id # 0
               PROVE  /\ row.status \in uber[row.id].had
                      /\ row.state \in Over => row.status = row.state /\ uber[row.id].status = row.state
    BY DEF CourierIsTrue
  <2>1. Real(row.id, row.status) /\ (row.state \in Over => row.status = row.state)
    BY DEF IInv, RowOK
  <2>2. QED  BY <2>1 DEF IInv, UberOK, Real
<1>2. QED  BY <1>1, Invariance, PTL

(* An order that has a courier keeps it.                                   *)
THEOREM CourierStays == Spec => KeepsCourier
<1>1. IInv /\ [Next]_vars => [row.id # 0 => row'.id = row.id]_vars
  BY NextKeeps DEF Kept, KeepsId
<1>2. QED  BY <1>1, Invariance, PTL DEF Spec, KeepsCourier
-----------------------------------------------------------------------------
(* The order of a courier that ended badly.                                *)

\* A courier of the order's own was asked for when it was paid, if not refunded since.
PaidFirst ==
    order.payment = "unpaid" =>
      /\ \A d \in DOMAIN uber : ~uber[d].ours
      /\ \A w \in Workers : op[w].job # "request"

\* A request that flags an order does so if it is paid, and a cancellation always.
WillFlag(w) == op[w].at = "flag" /\ (op[w].job = "cancel" \/ order.payment # "unpaid")

EndSeen ==
    row.state \in Failures =>
      flagged \/ crashes > 0 \/ order.payment = "refunded" \/ \E w \in Workers : WillFlag(w)

EndInv == PaidFirst /\ EndSeen

\* A payment is made once, and may be given back.
PaymentMoves ==
    /\ order.payment # "unpaid" => order'.payment # "unpaid"
    /\ order.payment = "refunded" => order'.payment = "refunded"

LEMMA PaymentOnlyMoves == ASSUME IInv, [Next]_vars PROVE PaymentMoves
<1>1. order \in Orders  BY DEF IInv, Types
<1>2. CASE Environment
  <2>1. CASE Pay \/ MarkReady \/ Close
    BY <1>1, <2>1 DEF Pay, MarkReady, Close, Orders, PaymentMoves
  <2>2. ASSUME NEW d \in Couriers, NEW s \in Reports, Webhook(d, s) PROVE PaymentMoves
    BY <1>1, <2>2 DEF Webhook, Orders, PaymentMoves
  <2>3. CASE order' = order  BY <2>3 DEF PaymentMoves
  <2>4. QED
    BY <1>2, <2>1, <2>2, <2>3 DEF Environment, Queue, Expire, MakeOutside, Crowd, List, Move
<1>3. ASSUME NEW w \in Workers,
             Request(w) \/ Recover(w) \/ Cancellation(w) \/ Flag(w) \/ Crash(w)
      PROVE  order' = order \/ order' = [order EXCEPT !.stage = "reconciliation_required"]
  BY <1>3 DEF Request, Recover, Cancellation, Flag, Crash, ReadRequest, ClaimRequest, Requote,
    Dispatch, Send, Created, ReadReconcile, Lookup, LookupFails, Reconcile, ReadCancel, ClaimCancel,
    AskCancel, Cancel, Start
<1>4. QED  BY <1>1, <1>2, <1>3 DEF Next, vars, Orders, PaymentMoves

\* What keeps the end of a courier in sight: nobody who is about to flag the order
\* is stopped, and nothing that was noted is taken back.
LEMMA SeenKept ==
  ASSUME EndSeen, PaymentMoves, flagged => flagged', crashes' = crashes,
         row'.state \in Failures => row.state \in Failures,
         \A w \in Workers : op[w].at = "flag" => op'[w] = op[w]
  PROVE  EndSeen'
  BY DEF EndSeen, WillFlag, PaymentMoves

LEMMA PaidFirstKept ==
  ASSUME IInv, PaidFirst, [Next]_vars PROVE PaidFirst'
<1>1. PaymentMoves  BY PaymentOnlyMoves
<1>2. SUFFICES ASSUME order.payment = "unpaid", order'.payment = "unpaid"
               PROVE  /\ \A d \in DOMAIN uber' : ~uber'[d].ours
                      /\ \A w \in Workers : op'[w].job # "request"
  BY <1>1 DEF PaidFirst, PaymentMoves
<1>3. /\ \A d \in DOMAIN uber : ~uber[d].ours
      /\ \A w \in Workers : op[w].job # "request"
      /\ uber \in Seq(Deliveries) /\ op \in [Workers -> Ops]
  BY <1>2 DEF PaidFirst, IInv, Types
<1>5. CASE UNCHANGED vars  BY <1>3, <1>5 DEF vars
<1>6. CASE Environment
  <2>1. op' = op
    BY <1>6 DEF Environment, Pay, MarkReady, Close, Queue, Expire, MakeOutside, Crowd, List,
      Move, Webhook
  <2>2. \A d \in DOMAIN uber' : ~uber'[d].ours
    <3>1. CASE MakeOutside  BY <1>3, <3>1 DEF MakeOutside, Delivery
    <3>2. ASSUME NEW d \in Couriers, List(d) PROVE \A e \in DOMAIN uber' : ~uber'[e].ours
      BY <1>3, <3>2 DEF List, Deliveries
    <3>3. ASSUME NEW d \in Couriers, NEW s \in Reports, Move(d, s)
          PROVE  \A e \in DOMAIN uber' : ~uber'[e].ours
      BY <1>3, <3>3 DEF Move, Deliveries
    <3>4. CASE UNCHANGED uber  BY <1>3, <3>4
    <3>5. QED
      BY <1>6, <3>1, <3>2, <3>3, <3>4 DEF Environment, Pay, MarkReady, Close, Queue, Expire,
        Crowd, Webhook
  <2>3. QED  BY <1>3, <2>1, <2>2
<1>7. ASSUME NEW w \in Workers,
             Request(w) \/ Recover(w) \/ Cancellation(w) \/ Flag(w) \/ Crash(w)
      PROVE  /\ \A d \in DOMAIN uber' : ~uber'[d].ours
             /\ \A v \in Workers : op'[v].job # "request"
  <2>1. ~Request(w)
    BY <1>2, <1>3 DEF Request, ReadRequest, ClaimRequest, Requote, Dispatch, Send, Created, At
  <2>2. \/ op' = [op EXCEPT ![w] = NoOp]
        \/ \E at \in {"claim", "ask"}, job \in {"reconcile", "cancel"} :
             op' = [op EXCEPT ![w] = [NoOp EXCEPT !.job = job, !.at = at, !.seen = row]]
        \/ \E at \in {"flag", "ask"} : op' = [op EXCEPT ![w].at = at]
        \/ \E got : op' = [op EXCEPT ![w].at = "answered", ![w].got = got]
    BY <1>7, <2>1 DEF Recover, Cancellation, Flag, Crash, ReadReconcile, Lookup, LookupFails, Reconcile,
      ReadCancel, ClaimCancel, AskCancel, Cancel, Start, Done, Goto
  <2>3. \A v \in Workers : op'[v].job # "request"
    <3>1. op[w] \in Ops  BY <1>3
    <3>2. op'[w].job # "request"
      <4>1. CASE op' = [op EXCEPT ![w] = NoOp]  BY <1>3, <4>1 DEF NoOp
      <4>2. ASSUME NEW at \in {"claim", "ask"}, NEW job \in {"reconcile", "cancel"},
                   op' = [op EXCEPT ![w] = [NoOp EXCEPT !.job = job, !.at = at, !.seen = row]]
            PROVE  op'[w].job # "request"
        BY <1>3, <4>2 DEF NoOp
      <4>3. ASSUME NEW at, op' = [op EXCEPT ![w].at = at] PROVE op'[w].job # "request"
        BY <1>3, <3>1, <4>3 DEF Ops
      <4>4. ASSUME NEW got, op' = [op EXCEPT ![w].at = "answered", ![w].got = got]
            PROVE  op'[w].job # "request"
        BY <1>3, <3>1, <4>4 DEF Ops
      <4>5. QED  BY <2>2, <4>1, <4>2, <4>3, <4>4
    <3>3. \A v \in Workers \ {w} : op'[v] = op[v]  BY <1>3, <2>2
    <3>4. QED  BY <1>3, <3>2, <3>3
  <2>4. CASE \E agreed \in BOOLEAN : AskCancel(w, agreed)
    BY <1>3, <2>3, <2>4 DEF AskCancel, Deliveries
  <2>5. CASE UNCHANGED uber  BY <1>3, <2>3, <2>5
  <2>6. QED
    BY <1>7, <2>1, <2>3, <2>4, <2>5 DEF Recover, Cancellation, Flag, Crash, ReadReconcile,
      Lookup, LookupFails, Reconcile, ReadCancel, ClaimCancel, Cancel, Start
<1>8. QED  BY <1>5, <1>6, <1>7 DEF Next


\* The steps that may end a courier.
LEMMA ReconcileSeen ==
  ASSUME IInv, EndInv, PaymentMoves, NEW w \in Workers, Reconcile(w) PROVE EndSeen'
<1> DEFINE got == op[w].got
           seen == op[w].seen
<1>1. /\ RequestOK(w) /\ op \in [Workers -> Ops] /\ op[w].job = "reconcile"
      /\ op[w].at = "answered" /\ row \in Rows /\ op[w] \in Ops
      /\ UNCHANGED <<order, flagged, crashes>>
  BY DEF IInv, Types, Reconcile, At
<1>2. CASE Unchanged(w) /\ row'.state \in Failures
  <2>1. row.state = seen.state /\ seen.state \in Reconcilable /\ row.state \notin Failures
    BY <1>1, <1>2 DEF RequestOK, Unchanged, Reconcilable, Failures
  <2>2. row' = Resolved(seen, got) /\ Goto(w, "flag")  BY <1>2 DEF Reconcile, Concerns
  <2>3. got.id # 0 /\ seen.id # 0 /\ uber[got.id].ours
    BY <1>1, <1>2, <2>1, <2>2 DEF Resolved, Adopted, Failures, Rows
  <2>4. got.id \in DOMAIN uber  BY <1>1, <2>3 DEF RequestOK, Real
  <2>5. order.payment # "unpaid"  BY <2>3, <2>4 DEF EndInv, PaidFirst
  <2>6. WillFlag(w)'
    <3>1. op'[w].at = "flag"  BY <1>1, <2>2 DEF Goto, Ops
    <3>2. QED  BY <1>1, <2>5, <3>1 DEF WillFlag
  <2>7. QED  BY <2>6 DEF EndSeen
<1>3. CASE row'.state \notin Failures  BY <1>3 DEF EndSeen
<1>4. CASE ~Unchanged(w)
  <2>1. row' = row /\ Done(w)  BY <1>4 DEF Reconcile
  <2>2. \A v \in Workers : op[v].at = "flag" => op'[v] = op[v]  BY <1>1, <2>1 DEF Done
  <2>3. QED  BY <1>1, <2>1, <2>2, SeenKept DEF EndInv
<1>5. QED  BY <1>2, <1>3, <1>4

LEMMA CancelSeen ==
  ASSUME IInv, EndInv, PaymentMoves, NEW w \in Workers,
         NEW answer \in {"status", "no status", "lost"}, Cancel(w, answer)
  PROVE  EndSeen'
<1>1. /\ op \in [Workers -> Ops] /\ op[w].job = "cancel" /\ op[w].at = "answered"
      /\ row \in Rows /\ op[w] \in Ops /\ UNCHANGED <<order, flagged, crashes>>
  BY DEF IInv, Types, Cancel, At
<1>2. CASE row.state = "canceling"
  <2>1. \/ Goto(w, "flag")
        \/ Done(w) /\ row'.state = "cancel_reconciliation_required"
    BY <1>1, <1>2 DEF Cancel, Rows
  <2>2. CASE Goto(w, "flag")
    <3>1. WillFlag(w)'  BY <1>1, <2>2 DEF Goto, WillFlag, Ops
    <3>2. QED  BY <3>1 DEF EndSeen
  <2>3. CASE row'.state = "cancel_reconciliation_required"  BY <2>3 DEF EndSeen, Failures
  <2>4. QED  BY <2>1, <2>2, <2>3
<1>3. CASE row.state # "canceling"
  <2>1. row' = row /\ Done(w)  BY <1>3 DEF Cancel
  <2>2. \A v \in Workers : op[v].at = "flag" => op'[v] = op[v]  BY <1>1, <2>1 DEF Done
  <2>3. QED  BY <1>1, <2>1, <2>2, SeenKept DEF EndInv
<1>4. QED  BY <1>2, <1>3

LEMMA WebhookSeen ==
  ASSUME IInv, EndInv, PaymentMoves, NEW d \in Couriers, NEW s \in Reports, Webhook(d, s)
  PROVE  EndSeen'
<1>1. UNCHANGED <<crashes, op>> /\ (flagged => flagged')  BY DEF Webhook
<1>2. CASE Advances(row.status, s) /\ s \in Failures  BY <1>2 DEF Webhook, EndSeen
<1>3. CASE Advances(row.status, s) /\ s \notin Failures
  <2>1. row'.state \notin Failures
    BY <1>3 DEF Webhook, CancelInFlight, StateOf, Failures, Over
  <2>2. QED  BY <2>1 DEF EndSeen
<1>4. CASE ~Advances(row.status, s)
  <2>1. row' = row  BY <1>4 DEF Webhook
  <2>2. QED  BY <1>1, <2>1, SeenKept DEF EndInv
<1>5. QED  BY <1>2, <1>3, <1>4

\* The order is flagged, or the request that would do so is cut off.
LEMMA FlagSeen ==
  ASSUME IInv, EndInv, PaymentMoves, NEW w \in Workers, Flag(w) \/ Crash(w) PROVE EndSeen'
<1>1. row' = row /\ op \in [Workers -> Ops] /\ order \in Orders /\ crashes \in Nat
      /\ flagged \in BOOLEAN
  BY FulfillmentAssumption DEF IInv, Types, Flag, Crash
<1>2. CASE Flag(w)
  <2>1. /\ flagged' = (flagged \/ order.payment = "paid" \/ op[w].job = "cancel")
        /\ UNCHANGED crashes /\ Done(w)
        /\ order'.payment = order.payment
    BY <1>1, <1>2 DEF Flag, Orders
  <2>2. CASE flagged'  BY <2>2 DEF EndSeen
  <2>3. CASE ~flagged' /\ order.payment = "refunded"  BY <2>1, <2>3 DEF EndSeen
  <2>4. CASE ~flagged' /\ order.payment = "unpaid"
    <3>1. ~WillFlag(w) /\ \A v \in Workers \ {w} : op'[v] = op[v]
      BY <1>1, <2>1, <2>4 DEF WillFlag, Done
    <3>2. \A v \in Workers : WillFlag(v) => v # w /\ WillFlag(v)'
      BY <2>1, <3>1 DEF WillFlag
    <3>3. QED  BY <1>1, <2>1, <2>4, <3>2 DEF EndInv, EndSeen
  <2>5. QED  BY <1>1, <2>1, <2>2, <2>3, <2>4 DEF Orders
<1>3. CASE Crash(w)
  <2>1. crashes' = crashes + 1  BY <1>3 DEF Crash
  <2>2. crashes' > 0  BY <1>1, <2>1
  <2>3. QED  BY <2>2 DEF EndSeen
<1>4. QED  BY <1>2, <1>3

LEMMA EndSeenKept ==
  ASSUME IInv, EndInv, [Next]_vars PROVE EndSeen'
<1>1. PaymentMoves  BY PaymentOnlyMoves
<1>2. row \in Rows /\ op \in [Workers -> Ops]  BY DEF IInv, Types
<1>3. CASE UNCHANGED vars  BY <1>1, <1>3, SeenKept DEF vars, EndInv
<1>4. CASE Environment
  <2>1. CASE Queue
    BY <1>1, <1>2, <2>1, SeenKept DEF Queue, Set, Rows, EndInv, Failures
  <2>2. CASE UNCHANGED <<row, flagged, crashes, op>>  BY <1>1, <2>2, SeenKept DEF EndInv
  <2>3. QED
    BY <1>1, <1>4, <2>1, <2>2, WebhookSeen
       DEF Environment, Pay, MarkReady, Close, Expire, MakeOutside, Crowd, List, Move
<1>5. ASSUME NEW w \in Workers, Request(w) \/ Recover(w) \/ Cancellation(w), ~Reconcile(w),
             ~\E answer \in {"status", "no status", "lost"} : Cancel(w, answer)
      PROVE  EndSeen'
  <2>1. UNCHANGED <<flagged, crashes>>
    BY <1>5 DEF Request, Recover, Cancellation, ReadRequest, ClaimRequest, Requote, Dispatch,
      Send, Created, ReadReconcile, Lookup, LookupFails, ReadCancel, ClaimCancel, AskCancel, Start
  <2>2. op[w].at # "flag" /\ \A v \in Workers \ {w} : op'[v] = op[v]
    <3> DEFINE Apart == op[w].at # "flag" /\ \A v \in Workers \ {w} : op'[v] = op[v]
    <3>1. ASSUME ReadRequest(w) \/ ReadReconcile(w) \/ ReadCancel(w) PROVE Apart
      <4>1. op[w] = NoOp /\ \E o : op' = [op EXCEPT ![w] = o]
        BY <3>1 DEF ReadRequest, ReadReconcile, ReadCancel, Start
      <4>2. op[w].at = "none"  BY <4>1 DEF NoOp
      <4>3. QED  BY <1>2, <4>1, <4>2
    <3>2. ASSUME ClaimRequest(w) \/ Dispatch(w) PROVE Apart
      BY <1>2, <3>2 DEF ClaimRequest, Dispatch, At, Goto, Done
    <3>3. ASSUME NEW outcome \in {"kept", "refreshed", "mismatch", "unavailable"},
                 Requote(w, outcome)
          PROVE  Apart
      BY <1>2, <3>3 DEF Requote, At, Goto, Done
    <3>4. ASSUME NEW made \in BOOLEAN, Send(w, made) PROVE Apart
      BY <1>2, <3>4 DEF Send, At, Done
    <3>5. ASSUME NEW arrives \in BOOLEAN, Created(w, arrives) PROVE Apart
      BY <1>2, <3>5 DEF Created, At, Done
    <3>6. ASSUME Lookup(w) \/ LookupFails(w) PROVE Apart
      BY <1>2, <3>6 DEF Lookup, LookupFails, At, Done
    <3>7. ASSUME ClaimCancel(w) PROVE Apart
      BY <1>2, <3>7 DEF ClaimCancel, At, Goto, Done
    <3>8. ASSUME NEW agreed \in BOOLEAN, AskCancel(w, agreed) PROVE Apart
      BY <1>2, <3>8 DEF AskCancel, At
    <3> HIDE DEF Apart
    <3>9. Request(w) => Apart
      BY <3>1, <3>2, <3>3, <3>4, <3>5 DEF Request
    <3>10. Recover(w) => Apart  BY <1>5, <3>1, <3>6 DEF Recover
    <3>11. Cancellation(w) => Apart
      BY <1>5, <3>1, <3>7, <3>8 DEF Cancellation
    <3>12. QED  BY <1>5, <3>9, <3>10, <3>11 DEF Apart
  <2>3. \/ row' = row
        \/ \E state \in RowStates \ Over : row' = [row EXCEPT !.state = state]
        \/ row'.state = "delivery_created"
    <3>1. CASE Request(w)
      <4>1. ASSUME NEW outcome \in {"kept", "refreshed", "mismatch", "unavailable"},
                   Requote(w, outcome)
            PROVE  row' = row \/ \E state \in RowStates \ Over : row' = [row EXCEPT !.state = state]
        BY <4>1 DEF Requote, Set, RowStates, Over, Failures
      <4>2. CASE ReadRequest(w) \/ ClaimRequest(w) \/ Dispatch(w)
        BY <4>2 DEF ReadRequest, ClaimRequest, Dispatch, Start, Set, RowStates, Over, Failures
      <4>3. ASSUME NEW made \in BOOLEAN, Send(w, made)
            PROVE  row' = row \/ \E state \in RowStates \ Over : row' = [row EXCEPT !.state = state]
        BY <4>3 DEF Send, Set, RowStates, Over, Failures
      <4>4. ASSUME NEW arrives \in BOOLEAN, Created(w, arrives)
            PROVE  \/ row' = row \/ row'.state = "delivery_created"
                   \/ \E state \in RowStates \ Over : row' = [row EXCEPT !.state = state]
        BY <4>4 DEF Created, Adopted, RowStates, Over, Failures
      <4>5. QED  BY <3>1, <4>1, <4>2, <4>3, <4>4 DEF Request
    <3>2. CASE Recover(w)  BY <1>5, <3>2 DEF Recover, ReadReconcile, Lookup, LookupFails, Start
    <3>3. CASE Cancellation(w)
      BY <1>5, <3>3 DEF Cancellation, ReadCancel, ClaimCancel, AskCancel, Start, Set,
        RowStates, Over, Failures
    <3>4. QED  BY <1>5, <3>1, <3>2, <3>3
  <2>4. row'.state \in Failures => row.state \in Failures
    BY <1>2, <2>3 DEF Rows, Over, Failures
  <2>5. QED  BY <1>1, <2>1, <2>2, <2>4, SeenKept DEF EndInv
<1>6. ASSUME NEW w \in Workers,
             Request(w) \/ Recover(w) \/ Cancellation(w) \/ Flag(w) \/ Crash(w)
      PROVE  EndSeen'
  BY <1>1, <1>5, <1>6, ReconcileSeen, CancelSeen, FlagSeen
<1>7. QED  BY <1>3, <1>4, <1>6 DEF Next

\* A row that has a failed courier's status is in one of these states.
LEMMA EndStates ==
  ASSUME IInv, row.status \in Failures
  PROVE  row.state \in Failures \cup Reconcilable \cup {"delivery_created"}
<1>1. row.id # 0 /\ row.state \notin NoCourier /\ row.state \in RowStates
      /\ (row.state \in Over => row.state = row.status)
  BY DEF IInv, Types, Rows, RowOK, Failures
<1>2. QED  BY <1>1 DEF NoCourier, Open, RowStates, Reconcilable, Over

(* A paid order whose courier was canceled, failed or returned, as its row   *)
(* says, is put on reconciliation or about to be, or its row is still to be  *)
(* reconciled: the reads of payment_status that decide it come after the     *)
(* payment, whichever request finds the courier's end.  Nothing can prevent  *)
(* it but the end of a process between the two statements, and reconcile     *)
(* finding a delivery that was over already, which it takes as one under way.*)
THEOREM EndReachesOrder == Spec => []EndIsFlagged
<1>1. Init => EndInv
  BY DEF Init, EndInv, PaidFirst, EndSeen, FirstRow, Failures, NoOp
<1>2. IInv /\ EndInv /\ [Next]_vars => EndInv'  BY PaidFirstKept, EndSeenKept DEF EndInv
<1>3. IInv /\ EndInv => EndIsFlagged
  BY EndStates DEF EndInv, EndSeen, EndIsFlagged, WillFlag, FoundEnded
<1>4. QED  BY <1>1, <1>2, <1>3, Invariance, PTL DEF Spec
=============================================================================
