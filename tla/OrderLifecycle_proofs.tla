------------------------- MODULE OrderLifecycle_proofs -------------------------
(* Theorems about OrderLifecycle, for any number of representatives and any *)
(* number of requests under way, and their proofs.                          *)
EXTENDS OrderLifecycle, TLAPS

\* What a pending request asks for, and what it has seen of a completion.
RequestOK(a) ==
    /\ op[a].job = "accept" => a \in Csrs
    /\ op[a].job = "reassign" =>
         op[a].to \in Csrs \cup {Nobody} /\ (op[a].to = Nobody => op[a].at = "none")
    /\ op[a].job = "transition" => op[a].to \in LifecycleStates \cup {"archived"}
    /\ op[a].job = "fulfil" => op[a].to \in Stages
    /\ op[a].job \in {"transition", "fulfil"} /\ op[a].to = "completed" =>
         order.payment # "unpaid" /\ order.courier # "due"

\* While the capture is at PayPal nobody else settles the order.
CaptureAlone == Locked => order.payment # "paid"

Books == PaidOnce /\ CaptureAlone
IInv == /\ TypeOK /\ Books /\ ClaimIsKept /\ CompletedIsDue
        /\ \A a \in Actors : RequestOK(a)

\* A step that moves no money.
SameBooks == UNCHANGED <<attempt, kept, order.payment, order.courier>>

-----------------------------------------------------------------------------
LEMMA InitIInv == Init => IInv
<1> SUFFICES ASSUME Init PROVE IInv  OBVIOUS
<1>1. TypeOK
  BY LifecycleAssumption DEF Init, TypeOK, Orders, OrderStatuses, LifecycleStates,
     Attempts, Ops, NoOp
<1>2. QED
  BY <1>1 DEF Init, IInv, Books, PaidOnce, CaptureAlone, Locked, ClaimIsKept,
     CompletedIsDue, RequestOK, NoOp

\* A new request, typed and true when it is read, keeps everything.
LEMMA ReadKeeps ==
  ASSUME IInv, NEW a \in Actors, NEW job \in {"accept", "start", "reassign", "transition",
                                             "fulfil", "archive"},
         NEW to \in {"none"} \cup LifecycleStates \cup {"archived"} \cup Csrs \cup {Nobody},
         NEW at \in {"none", "open", "ended"}, Read(a, job, to, at),
         job = "accept" => a \in Csrs,
         job = "reassign" => to \in Csrs \cup {Nobody} /\ (to = Nobody => at = "none"),
         job = "transition" => to \in LifecycleStates \cup {"archived"},
         job = "fulfil" => to \in Stages,
         job \in {"transition", "fulfil"} /\ to = "completed" => ReadyForCompletion
  PROVE  IInv'
<1> DEFINE seen == IF job = "accept" THEN <<order.who, order.shift>> ELSE NoOp.seen
           new == [job |-> job, to |-> to, at |-> at, seen |-> seen]
<1>1. op' = [op EXCEPT ![a] = new] /\ UNCHANGED <<order, attempt, onShift, kept, claims>>
  BY DEF Read
<1>2. seen \in (Csrs \cup {Nobody}) \X {"none", "open", "ended"}
  BY DEF IInv, TypeOK, Orders, NoOp
<1>3. new \in Ops  BY <1>2 DEF Ops
<1>4. TypeOK'  BY <1>1, <1>3 DEF IInv, TypeOK
<1>5. Books' /\ ClaimIsKept' /\ CompletedIsDue'
  BY <1>1 DEF IInv, Books, PaidOnce, CaptureAlone, Locked, ClaimIsKept, CompletedIsDue
<1>6. ASSUME NEW b \in Actors PROVE RequestOK(b)'
  <2>1. CASE b = a
    <3>1. op'[b] = new  BY <2>1, <1>1 DEF IInv, TypeOK
    <3>2. QED  BY <3>1, <2>1, <1>1 DEF RequestOK, ReadyForCompletion
  <2>2. CASE b # a
    <3>1. op'[b] = op[b]  BY <2>2, <1>1 DEF IInv, TypeOK
    <3>2. QED  BY <3>1, <1>1 DEF RequestOK, IInv
  <2>3. QED  BY <2>1, <2>2
<1>7. QED  BY <1>4, <1>5, <1>6 DEF IInv

\* Ending a request, or leaving all of them, keeps what is true of the rest.
LEMMA RequestsKept ==
  ASSUME IInv, NEW a \in Actors, op' = [op EXCEPT ![a] = NoOp] \/ op' = op,
         order'.payment = order.payment \/ order'.payment # "unpaid",
         order'.courier = order.courier \/ order'.courier # "due"
  PROVE  op' \in [Actors -> Ops] /\ \A b \in Actors : RequestOK(b)'
<1>1. NoOp \in Ops  BY DEF NoOp, Ops
<1>2. op' \in [Actors -> Ops]  BY <1>1 DEF IInv, TypeOK
<1>3. ASSUME NEW b \in Actors PROVE RequestOK(b)'
  <2>1. op'[b] = NoOp \/ op'[b] = op[b]  BY DEF IInv, TypeOK
  <2>2. CASE op'[b] = NoOp  BY <2>2 DEF RequestOK, NoOp
  <2>3. CASE op'[b] = op[b]  BY <2>3 DEF RequestOK, IInv
  <2>4. QED  BY <2>1, <2>2, <2>3
<1>4. QED  BY <1>2, <1>3

\* A write of the order that leaves its payment alone.
LEMMA WriteKeeps ==
  ASSUME IInv, NEW a \in Actors, op' = [op EXCEPT ![a] = NoOp] \/ op' = op,
         UNCHANGED <<attempt, onShift, kept>>, order' \in Orders,
         order'.payment = order.payment,
         order'.courier = order.courier \/ order'.courier # "due",
         order'.who = Nobody => order'.shift = "none",
         order'.fulfil = "completed" => order'.payment # "unpaid" /\ order'.courier # "due",
         claims' \in SUBSET Staff, ClaimIsKept'
  PROVE  IInv'
<1>1. op' \in [Actors -> Ops] /\ \A b \in Actors : RequestOK(b)'  BY RequestsKept
<1>2. TypeOK'  BY <1>1 DEF IInv, TypeOK
<1>3. Books'  BY DEF IInv, Books, PaidOnce, CaptureAlone, Locked
<1>4. CompletedIsDue'  BY DEF CompletedIsDue
<1>5. QED  BY <1>1, <1>2, <1>3, <1>4 DEF IInv

-----------------------------------------------------------------------------
(* Assignment.                                                              *)
LEMMA AcceptKeeps ==
  ASSUME IInv, NEW c \in Csrs, WriteAccept(c) PROVE IInv'
<1>1. c \in Actors /\ c # Nobody  BY LifecycleAssumption DEF Actors, Staff
<1>2. CASE ~Unclaimed(c)
  BY <1>1, <1>2, WriteKeeps DEF WriteAccept, Doing, Refused, IInv, TypeOK, ClaimIsKept,
     CompletedIsDue
<1>3. CASE Unclaimed(c)
  <2>1. op[c].at \in {"none", "open", "ended"}  BY <1>1 DEF IInv, TypeOK, Ops
  <2>2. /\ order' = [order EXCEPT !.accepted = TRUE, !.status = "in_progress",
                                  !.fulfil = "in_progress", !.who = c,
                                  !.shift = op[c].at]
        /\ claims' = claims \cup {c} /\ op' = [op EXCEPT ![c] = NoOp]
        /\ UNCHANGED <<attempt, onShift, kept>>
    BY <1>3 DEF WriteAccept, Write, Doing
  <2>3. order' \in Orders /\ order'.payment = order.payment /\ order'.courier = order.courier
        /\ order'.who = c /\ order'.accepted /\ order'.fulfil = "in_progress"
    BY <2>1, <2>2, LifecycleAssumption DEF IInv, TypeOK, Orders, OrderStatuses, LifecycleStates
  <2>4. claims = {}  BY <1>3 DEF Unclaimed, IInv, ClaimIsKept
  <2>5. claims' \in SUBSET Staff /\ ClaimIsKept'
    BY <1>1, <2>2, <2>3, <2>4 DEF ClaimIsKept, Staff
  <2>6. QED  BY <1>1, <2>2, <2>3, <2>5, WriteKeeps
<1>4. QED  BY <1>2, <1>3

LEMMA StartKeeps == ASSUME IInv, WriteStart PROVE IInv'
<1>1. Manager \in Actors /\ Manager \in Staff  BY DEF Actors, Staff
<1>2. CASE ~Unassigned
  BY <1>1, <1>2, WriteKeeps DEF WriteStart, Doing, Refused, IInv, TypeOK, ClaimIsKept,
     CompletedIsDue
<1>3. CASE Unassigned
  <2>1. /\ order' = [order EXCEPT !.accepted = TRUE, !.status = "in_progress",
                                  !.fulfil = "in_progress"]
        /\ claims' = claims \cup {Manager} /\ op' = [op EXCEPT ![Manager] = NoOp]
        /\ UNCHANGED <<attempt, onShift, kept>>
    BY <1>3 DEF WriteStart, Write, Doing
  <2>2. order' \in Orders /\ order'.payment = order.payment /\ order'.courier = order.courier
        /\ order'.who = order.who /\ order'.shift = order.shift
        /\ order'.accepted /\ order'.fulfil = "in_progress"
    BY <2>1 DEF IInv, TypeOK, Orders, OrderStatuses, LifecycleStates
  <2>3. claims = {} /\ order.who = Nobody /\ order.shift = "none"
    BY <1>3 DEF Unassigned, IInv, ClaimIsKept
  <2>4. claims' \in SUBSET Staff /\ ClaimIsKept'
    BY <1>1, <2>1, <2>2, <2>3 DEF ClaimIsKept
  <2>5. QED  BY <1>1, <2>1, <2>2, <2>3, <2>4, WriteKeeps
<1>4. QED  BY <1>2, <1>3

LEMMA HandOutKeeps ==
  ASSUME IInv, \/ \E a \in Staff : ReleaseOrder(a)
               \/ \E c \in Csrs : Assign(c) \/ MoveShift(c)
               \/ WriteReassign
  PROVE  IInv'
<1>1. Manager \in Actors /\ op[Manager] \in Ops  BY DEF Actors, Staff, IInv, TypeOK
<1>2. claims' = {} /\ UNCHANGED <<attempt, onShift, kept>>
      /\ (op' = [op EXCEPT ![Manager] = NoOp] \/ op' = op)
  BY DEF ReleaseOrder, Assign, MoveShift, WriteReassign, Write, Doing
<1>3. /\ order' \in Orders /\ order'.payment = order.payment
      /\ order'.courier = order.courier /\ (order'.who = Nobody => order'.shift = "none")
      /\ order'.fulfil \in {"submitted", "in_progress", order.fulfil}
  <2>1. CASE \E a \in Staff : ReleaseOrder(a)
    BY <2>1 DEF ReleaseOrder, Write, Freed, IInv, TypeOK, Orders, OrderStatuses,
       LifecycleStates
  <2>2. CASE \E c \in Csrs : Assign(c)
    <3>1. PICK c \in Csrs : Assign(c)  BY <2>2
    <3>2. PICK shift \in {"open", "none"} :
            order' = [order EXCEPT !.who = c, !.accepted = TRUE, !.status = "in_progress",
                                   !.fulfil = "in_progress", !.shift = shift]
      BY <3>1 DEF Assign, Write
    <3>3. "in_progress" \in LifecycleStates /\ "in_progress" \in OrderStatuses
      BY DEF LifecycleStates, OrderStatuses
    <3>4. order \in Orders  BY DEF IInv, TypeOK
    <3>5. order' \in Orders  BY <3>2, <3>3, <3>4 DEF Orders
    <3>6. QED  BY <3>2, <3>4, <3>5, LifecycleAssumption DEF Orders
  <2>3. CASE \E c \in Csrs : MoveShift(c)
    BY <2>3, LifecycleAssumption DEF MoveShift, Write, IInv, TypeOK, Orders
  <2>4. CASE WriteReassign
    <3>1. /\ op[Manager].to \in Csrs \cup {Nobody} /\ op[Manager].at \in {"none", "open", "ended"}
          /\ op[Manager].to = Nobody => op[Manager].at = "none"
      BY <1>1, <2>4 DEF WriteReassign, Doing, IInv, RequestOK, Ops
    <3>2. QED
      BY <2>4, <3>1 DEF WriteReassign, Write, IInv, TypeOK, Orders, OrderStatuses,
         LifecycleStates
  <2>5. QED  BY <2>1, <2>2, <2>3, <2>4
<1>4. ClaimIsKept' /\ claims' \in SUBSET Staff  BY <1>2 DEF ClaimIsKept
<1>5. order'.fulfil = "completed" => order'.payment # "unpaid" /\ order'.courier # "due"
  BY <1>3 DEF IInv, CompletedIsDue
<1>6. QED  BY <1>1, <1>2, <1>3, <1>4, <1>5, WriteKeeps

LEMMA ShiftKeeps ==
  ASSUME IInv, NEW c \in Csrs, ClockIn(c) \/ ClockOut(c) PROVE IInv'
<1>1. CASE ClockIn(c)
  <2>1. onShift' \in SUBSET Csrs /\ UNCHANGED <<order, attempt, op, kept, claims>>
    BY <1>1 DEF ClockIn, IInv, TypeOK
  <2>2. TypeOK'  BY <2>1 DEF IInv, TypeOK
  <2>3. QED  BY <2>1, <2>2 DEF IInv, Books, PaidOnce, CaptureAlone, Locked, ClaimIsKept,
                               CompletedIsDue, RequestOK
<1>2. CASE ClockOut(c)
  <2>1. /\ order' = [order EXCEPT !.shift = IF order.who = c THEN Ended(order.shift)
                                            ELSE order.shift]
        /\ onShift' = onShift \ {c} /\ UNCHANGED <<attempt, kept, claims>>
        /\ op' = [a \in Actors |-> [op[a] EXCEPT !.at = Overtaken(a, c),
                                                 !.seen = OvertakenSeen(a, c)]]
    BY <1>2 DEF ClockOut
  <2>2. /\ order' \in Orders /\ order'.payment = order.payment /\ order'.who = order.who
        /\ order'.courier = order.courier /\ order'.fulfil = order.fulfil
        /\ order'.accepted = order.accepted
        /\ (order.who = Nobody => order'.shift = "none")
    BY <2>1, LifecycleAssumption DEF IInv, TypeOK, Orders, Ended
  <2>3. ASSUME NEW a \in Actors
        PROVE /\ op'[a] \in Ops /\ op'[a].job = op[a].job /\ op'[a].to = op[a].to
              /\ (op[a].at = "none" => op'[a].at = "none")
    <3>1. op[a] \in Ops  BY DEF IInv, TypeOK
    <3>2. Overtaken(a, c) \in {"none", "open", "ended"}
          /\ (op[a].at = "none" => Overtaken(a, c) = "none")
      BY <3>1 DEF Overtaken, Ended, Ops
    <3>3. OvertakenSeen(a, c) \in (Csrs \cup {Nobody}) \X {"none", "open", "ended"}
      BY <3>1 DEF OvertakenSeen, Ended, Ops
    <3>4. op'[a] = [op[a] EXCEPT !.at = Overtaken(a, c), !.seen = OvertakenSeen(a, c)]
      BY <2>1
    <3>5. QED  BY <3>1, <3>2, <3>3, <3>4 DEF Ops
  <2>4. op' \in [Actors -> Ops]  BY <2>1, <2>3
  <2>5. TypeOK'  BY <2>1, <2>2, <2>4 DEF IInv, TypeOK
  <2>6. Books' /\ ClaimIsKept' /\ CompletedIsDue'
    BY <2>1, <2>2 DEF IInv, Books, PaidOnce, CaptureAlone, Locked, ClaimIsKept, CompletedIsDue
  <2>7. \A a \in Actors : RequestOK(a)'  BY <2>2, <2>3 DEF IInv, RequestOK
  <2>8. QED  BY <2>5, <2>6, <2>7 DEF IInv
<1>3. QED  BY <1>1, <1>2
-----------------------------------------------------------------------------
(* Progress.                                                                *)
\* A write of the order's progress alone.
LEMMA ProgressKeeps ==
  ASSUME IInv, NEW a \in Actors, op' = [op EXCEPT ![a] = NoOp] \/ op' = op,
         UNCHANGED <<attempt, onShift, kept, claims>>,
         NEW s \in OrderStatuses, NEW f \in LifecycleStates,
         order' = [order EXCEPT !.status = s, !.fulfil = f],
         f = "completed" => order.payment # "unpaid" /\ order.courier # "due"
  PROVE  IInv'
<1>1. /\ order' \in Orders /\ order'.payment = order.payment
      /\ order'.courier = order.courier /\ order'.who = order.who
      /\ order'.shift = order.shift /\ order'.accepted = order.accepted
      /\ order'.fulfil = f
  BY DEF IInv, TypeOK, Orders
<1>2. claims' \in SUBSET Staff /\ ClaimIsKept'  BY <1>1 DEF IInv, TypeOK, ClaimIsKept
<1>3. order'.who = Nobody => order'.shift = "none"  BY <1>1 DEF IInv, TypeOK
<1>4. QED  BY <1>1, <1>2, <1>3, WriteKeeps

LEMMA IdleKeeps ==
  ASSUME IInv, NEW a \in Actors, op' = [op EXCEPT ![a] = NoOp] \/ op' = op, Refused
  PROVE  IInv'
  BY WriteKeeps DEF Refused, IInv, TypeOK, ClaimIsKept, CompletedIsDue

LEMMA TransitionKeeps ==
  ASSUME IInv, NEW a \in Staff, WriteTransition(a) \/ WriteFulfil(a) PROVE IInv'
<1> DEFINE to == Target(op[a].to)
<1>1. a \in Actors /\ LifecycleStates \subseteq OrderStatuses
  BY DEF Actors, OrderStatuses
<1>2. CASE WriteTransition(a)
  <2>1. to \in LifecycleStates /\ op' = [op EXCEPT ![a] = NoOp]
        /\ (to = "completed" => op[a].to = "completed")
    BY <1>1, <1>2 DEF WriteTransition, Doing, IInv, RequestOK, Target, LifecycleStates
  <2>2. to = "completed" => order.payment # "unpaid" /\ order.courier # "due"
    BY <1>1, <1>2, <2>1 DEF WriteTransition, Doing, IInv, RequestOK
  <2>3. \/ /\ order' = [order EXCEPT !.status = to, !.fulfil = to]
           /\ UNCHANGED <<attempt, onShift, kept, claims>>
        \/ Refused
    BY <1>2 DEF WriteTransition, Write
  <2>4. QED  BY <1>1, <2>1, <2>2, <2>3, ProgressKeeps, IdleKeeps
<1>3. CASE WriteFulfil(a)
  <2>1. /\ op[a].to \in LifecycleStates /\ op' = [op EXCEPT ![a] = NoOp]
        /\ op[a].to = "completed" => order.payment # "unpaid" /\ order.courier # "due"
        /\ order' = [order EXCEPT !.status = op[a].to, !.fulfil = op[a].to]
        /\ UNCHANGED <<attempt, onShift, kept, claims>>
    BY <1>1, <1>3, LifecycleAssumption DEF WriteFulfil, Write, Doing, IInv, RequestOK
  <2>2. QED  BY <1>1, <2>1, ProgressKeeps
<1>4. QED  BY <1>2, <1>3

LEMMA StatusKeeps ==
  ASSUME IInv, \/ \E to \in Statuses : PatchStatus(to)
               \/ MarkReady \/ Purge \/ WriteArchive
  PROVE  IInv'
<1>1. Archiver \in Actors /\ order.fulfil \in LifecycleStates
      /\ order = [order EXCEPT !.fulfil = order.fulfil]
  BY DEF Actors, IInv, TypeOK, Orders
<1>2. order.fulfil = "completed" => order.payment # "unpaid" /\ order.courier # "due"
  BY DEF IInv, CompletedIsDue
<1>3. ASSUME NEW s \in OrderStatuses, order' = [order EXCEPT !.status = s],
             op' = op, UNCHANGED <<attempt, onShift, kept, claims>>
      PROVE  IInv'
  <2>1. order' = [order EXCEPT !.status = s, !.fulfil = order.fulfil]
    BY <1>3 DEF IInv, TypeOK, Orders
  <2>2. QED  BY <1>1, <1>2, <1>3, <2>1, ProgressKeeps
<1>4. CASE \E to \in Statuses : PatchStatus(to)
  BY <1>3, <1>4 DEF PatchStatus, Write, OrderStatuses
<1>5. CASE Purge  BY <1>3, <1>5 DEF Purge, Write, OrderStatuses
<1>6. CASE MarkReady
  BY <1>1, <1>6, ProgressKeeps DEF MarkReady, Write, OrderStatuses, LifecycleStates
<1>7. CASE WriteArchive
  <2>1. op' = [op EXCEPT ![Archiver] = NoOp]  BY <1>7 DEF WriteArchive, Doing
  <2>2. CASE ~Cancellable  BY <1>1, <1>7, <2>1, <2>2, IdleKeeps DEF WriteArchive
  <2>3. CASE Cancellable
    <3>1. order' = [order EXCEPT !.status = "archived", !.fulfil = "cancelled"]
          /\ UNCHANGED <<attempt, onShift, kept, claims>>
      BY <1>7, <2>3 DEF WriteArchive, Write
    <3>2. QED
      BY <1>1, <2>1, <3>1, ProgressKeeps DEF OrderStatuses, LifecycleStates
  <2>4. QED  BY <2>2, <2>3
<1>8. QED  BY <1>4, <1>5, <1>6, <1>7

-----------------------------------------------------------------------------
(* Payment.                                                                 *)
\* Whoever settles an order that nobody has settled takes its total once.
LEMMA SettleKeeps ==
  ASSUME IInv, NEW f \in LifecycleStates, NEW t \in {"cash", "paypal", "credit"},
         NEW s \in OrderStatuses, Settle(s, f, t), order.payment # "paid",
         attempt' \in Attempts \ {"capturing"},
         f = "completed" => order.courier # "due"
  PROVE  IInv'
<1>1. /\ order' = [order EXCEPT !.payment = "paid", !.status = s, !.fulfil = f, !.tender = t]
      /\ kept' = kept + 1 /\ UNCHANGED <<onShift, op, claims>>
  BY DEF Settle
<1>2. /\ order' \in Orders /\ order'.payment = "paid" /\ order'.fulfil = f
      /\ order'.courier = order.courier /\ order'.who = order.who
      /\ order'.shift = order.shift /\ order'.accepted = order.accepted
  BY <1>1 DEF IInv, TypeOK, Orders
<1>3. kept = 0  BY DEF IInv, Books, PaidOnce
<1>4. Manager \in Actors  BY DEF Actors, Staff
<1>5. op' \in [Actors -> Ops] /\ \A b \in Actors : RequestOK(b)'
  BY <1>1, <1>2, <1>4, RequestsKept
<1>6. TypeOK'  BY <1>1, <1>2, <1>3, <1>5 DEF IInv, TypeOK
<1>7. Books'  BY <1>1, <1>2, <1>3 DEF Books, PaidOnce, CaptureAlone, Locked
<1>8. ClaimIsKept' /\ CompletedIsDue'
  BY <1>1, <1>2 DEF IInv, ClaimIsKept, CompletedIsDue
<1>9. QED  BY <1>5, <1>6, <1>7, <1>8 DEF IInv

LEMMA PayKeeps ==
  ASSUME IInv, \/ \E a \in Staff, session \in BOOLEAN : Closeout(a, session)
               \/ ApplyCredit
  PROVE  IInv'
<1>1. order.fulfil \in LifecycleStates /\ attempt \in Attempts
      /\ {"confirmed", "completed"} \subseteq OrderStatuses
      /\ {"submitted", "completed"} \subseteq LifecycleStates
  BY DEF IInv, TypeOK, Orders, OrderStatuses, LifecycleStates
<1>2. order.fulfil = "completed" => order.courier # "due"
  BY DEF IInv, CompletedIsDue
<1>3. CASE \E a \in Staff, session \in BOOLEAN : Closeout(a, session)
  <2>1. /\ order.payment # "paid" /\ attempt' = attempt /\ attempt # "capturing"
        /\ \/ Settle("confirmed", "submitted", "cash")
           \/ order.courier = "none" /\ Settle("completed", "completed", "cash")
    BY <1>3 DEF Closeout, Payable, Locked
  <2>2. QED  BY <1>1, <2>1, SettleKeeps
<1>4. CASE ApplyCredit
  <2>1. /\ order.payment # "paid" /\ attempt' = attempt /\ attempt # "capturing"
        /\ Settle("confirmed", order.fulfil, "credit")
    BY <1>4 DEF ApplyCredit, Locked
  <2>2. QED  BY <1>1, <1>2, <2>1, SettleKeeps
<1>5. QED  BY <1>3, <1>4

LEMMA AttemptKeeps ==
  ASSUME IInv, CreateAttempt \/ BeginCapture PROVE IInv'
<1>1. attempt' \in Attempts /\ UNCHANGED <<order, onShift, op, kept, claims>>
      /\ order.payment # "paid"
  BY DEF CreateAttempt, BeginCapture, Attempts
<1>2. TypeOK'  BY <1>1 DEF IInv, TypeOK
<1>3. QED  BY <1>1, <1>2 DEF IInv, Books, PaidOnce, CaptureAlone, ClaimIsKept,
                             CompletedIsDue, RequestOK

LEMMA CaptureKeeps ==
  ASSUME IInv, NEW outcome \in {"captured", "failed", "review"}, EndCapture(outcome)
  PROVE  IInv'
<1>1. order.payment # "paid" /\ attempt' = outcome
      /\ attempt' \in Attempts \ {"capturing"}
  BY DEF EndCapture, IInv, Books, CaptureAlone, Attempts
<1>2. CASE outcome = "captured"
  <2>1. order.fulfil \in LifecycleStates /\ "confirmed" \in OrderStatuses
        /\ (order.fulfil = "completed" => order.courier # "due")
    BY DEF IInv, TypeOK, Orders, OrderStatuses, CompletedIsDue
  <2>2. QED  BY <1>1, <1>2, <2>1, SettleKeeps DEF EndCapture
<1>3. CASE outcome # "captured"
  <2>1. UNCHANGED <<order, onShift, op, kept, claims>>  BY <1>3 DEF EndCapture
  <2>2. TypeOK'  BY <1>1, <2>1 DEF IInv, TypeOK
  <2>3. QED  BY <1>1, <2>1, <2>2 DEF IInv, Books, PaidOnce, CaptureAlone, ClaimIsKept,
                                     CompletedIsDue, RequestOK
<1>4. QED  BY <1>2, <1>3

\* A step on the order that leaves assignment and requests alone.
LEMMA OtherPaymentKeeps ==
  ASSUME IInv, Reconcile \/ BuyerCancel \/ Refund
  PROVE  IInv'
<1>1. Manager \in Actors  BY DEF Actors, Staff
<1>2. CASE Reconcile /\ order.payment = "unpaid"
  <2>1. order.fulfil \in LifecycleStates /\ "confirmed" \in OrderStatuses
        /\ (order.fulfil = "completed" => order.courier # "due")
        /\ attempt' \in Attempts \ {"capturing"}
    BY <1>2 DEF Reconcile, IInv, TypeOK, Orders, OrderStatuses, CompletedIsDue, Attempts
  <2>2. QED  BY <1>2, <2>1, SettleKeeps DEF Reconcile
<1>3. CASE (Reconcile /\ order.payment # "unpaid") \/ BuyerCancel \/ Refund
  <2>1. /\ UNCHANGED <<onShift, op, claims>> /\ attempt' \in Attempts
        /\ order' \in Orders /\ order'.courier = order.courier
        /\ order'.payment \in {order.payment, "refunded"}
        /\ order'.fulfil \in {order.fulfil, "cancelled"}
        /\ order'.who = order.who /\ order'.shift = order.shift
        /\ order'.accepted = order.accepted
    BY <1>3 DEF Reconcile, BuyerCancel, Refund, IInv, TypeOK, Orders, OrderStatuses,
       LifecycleStates, Attempts
  <2>2. kept' \in Nat /\ Books'
    <3>1. CASE Refund
      BY <3>1 DEF Refund, IInv, TypeOK, Orders, Books, PaidOnce, CaptureAlone, Locked
    <3>2. CASE (Reconcile /\ order.payment # "unpaid") \/ BuyerCancel
      BY <3>2 DEF Reconcile, BuyerCancel, IInv, TypeOK, Orders, Books, PaidOnce,
         CaptureAlone, Locked
    <3>3. QED  BY <1>3, <3>1, <3>2
  <2>3. op' \in [Actors -> Ops] /\ \A b \in Actors : RequestOK(b)'
    BY <1>1, <2>1, RequestsKept
  <2>4. TypeOK'  BY <2>1, <2>2, <2>3 DEF IInv, TypeOK
  <2>5. ClaimIsKept' /\ CompletedIsDue'
    BY <2>1 DEF IInv, ClaimIsKept, CompletedIsDue
  <2>6. QED  BY <2>2, <2>3, <2>4, <2>5 DEF IInv
<1>4. QED  BY <1>2, <1>3

LEMMA CourierKeeps ==
  ASSUME IInv, NEW delivered \in BOOLEAN, CourierReports(delivered) PROVE IInv'
<1>1. Manager \in Actors  BY DEF Actors, Staff
<1>2. /\ UNCHANGED <<attempt, onShift, kept, op, claims>> /\ order' \in Orders
      /\ order'.payment = order.payment /\ order'.who = order.who
      /\ order'.shift = order.shift /\ order'.accepted = order.accepted
      /\ order'.courier \in {order.courier, "delivered"}
      /\ order'.fulfil \in {order.fulfil, "reconciliation_required"}
  BY DEF CourierReports, Write, IInv, TypeOK, Orders, LifecycleStates
<1>3. order'.fulfil = "completed" => order'.payment # "unpaid" /\ order'.courier # "due"
  BY <1>2 DEF IInv, CompletedIsDue
<1>4. claims' \in SUBSET Staff /\ ClaimIsKept'  BY <1>2 DEF IInv, TypeOK, ClaimIsKept
<1>5. order'.who = Nobody => order'.shift = "none"  BY <1>2 DEF IInv, TypeOK
<1>6. QED  BY <1>1, <1>2, <1>3, <1>4, <1>5, WriteKeeps

-----------------------------------------------------------------------------
LEMMA AssignmentKeeps == ASSUME IInv, Assignment PROVE IInv'
<1>1. Csrs \subseteq Actors /\ Manager \in Actors  BY DEF Actors, Staff
<1>2. ASSUME NEW c \in Csrs, ReadAccept(c) PROVE IInv'
  BY <1>1, <1>2, ReadKeeps DEF ReadAccept
<1>3. ASSUME NEW w \in Csrs \cup {Nobody}, ReadReassign(w) PROVE IInv'
  BY <1>1, <1>3, ReadKeeps DEF ReadReassign
<1>4. CASE ReadStart  BY <1>1, <1>4, ReadKeeps DEF ReadStart
<1>5. QED
  BY <1>2, <1>3, <1>4, AcceptKeeps, StartKeeps, HandOutKeeps, ShiftKeeps DEF Assignment

LEMMA MovesKeep == ASSUME IInv, Progress PROVE IInv'
<1>1. Staff \subseteq Actors /\ Archiver \in Actors  BY DEF Actors, Staff
<1>2. ASSUME NEW a \in Staff,
             NEW to \in {"completed", "cancelled", "refunded", "reconciliation_required",
                         "archived"}, ReadTransition(a, to)
      PROVE  IInv'
  BY <1>1, <1>2, ReadKeeps DEF ReadTransition, LifecycleStates
<1>3. ASSUME NEW a \in Staff, NEW to \in Stages, ReadFulfil(a, to) PROVE IInv'
  BY <1>1, <1>3, ReadKeeps, LifecycleAssumption DEF ReadFulfil
<1>4. CASE ReadArchive  BY <1>1, <1>4, ReadKeeps DEF ReadArchive
<1>5. QED  BY <1>2, <1>3, <1>4, TransitionKeeps, StatusKeeps DEF Progress

LEMMA NextIInv == IInv /\ [Next]_vars => IInv'
<1> SUFFICES ASSUME IInv, [Next]_vars PROVE IInv'  OBVIOUS
<1>1. CASE Assignment  BY <1>1, AssignmentKeeps
<1>2. CASE Progress  BY <1>2, MovesKeep
<1>3. CASE Payment
  BY <1>3, PayKeeps, AttemptKeeps, CaptureKeeps, OtherPaymentKeeps, CourierKeeps DEF Payment
<1>4. CASE UNCHANGED vars
  BY <1>4 DEF vars, IInv, TypeOK, Books, PaidOnce, CaptureAlone, Locked, ClaimIsKept,
     CompletedIsDue, RequestOK
<1>5. QED  BY <1>1, <1>2, <1>3, <1>4 DEF Next

(* The invariant that carries the theorems below.                           *)
THEOREM Invariance == Spec => []IInv
  BY InitIInv, NextIInv, PTL DEF Spec

(* Every part of the state has its type, for every set of statuses and      *)
(* stages that staff may write.                                             *)
THEOREM TypeCorrect == Spec => []TypeOK
<1>1. IInv => TypeOK  BY DEF IInv
<1>2. QED  BY <1>1, Invariance, PTL

(* However many representatives and managers accept or start the order at   *)
(* once, it has the one owner who was told so.                              *)
THEOREM OneOwner == Spec => []ClaimIsKept
<1>1. IInv => ClaimIsKept  BY DEF IInv
<1>2. QED  BY <1>1, Invariance, PTL

(* No stale request completes an order that was never paid for, or whose    *)
(* courier is still on the way.                                             *)
THEOREM CompletedOnlyWhenDue == Spec => []CompletedIsDue
<1>1. IInv => CompletedIsDue  BY DEF IInv
<1>2. QED  BY <1>1, Invariance, PTL

(* Cash, credit and PayPal take the total of the order once.                *)
THEOREM TakenOnce == Spec => []PaidOnce
<1>1. IInv => PaidOnce  BY DEF IInv, Books
<1>2. QED  BY <1>1, Invariance, PTL

(* If staff neither patch an order to a closed status nor set the stage     *)
(* cancelled, a paid order is never cancelled or archived: every other      *)
(* handler asks again when it writes.                                       *)
THEOREM PaidStays ==
  ASSUME "cancelled" \notin Stages, Statuses \cap {"cancelled", "archived"} = {}
  PROVE  Spec => PaidNeverCancelled
<1> DEFINE Stays == order.payment = "paid" =>
      /\ order'.fulfil = "cancelled" => order.fulfil = "cancelled"
      /\ order'.status \in {"cancelled", "archived"} => order.status = order'.status
<1>1. ASSUME IInv, [Next]_vars, order.payment = "paid" PROVE Stays
  <2>1. order \in Orders  BY <1>1 DEF IInv, TypeOK
  <2>2. CASE Assignment
    BY <1>1, <2>1, <2>2 DEF Assignment, ReadAccept, ReadStart, ReadReassign, Read, WriteAccept,
       WriteStart, WriteReassign, ReleaseOrder, Assign, MoveShift, ClockIn, ClockOut, Write,
       Refused, Freed, Movable, Orders
  <2>3. CASE Progress
    <3>1. ASSUME NEW a \in Staff, WriteTransition(a) PROVE Stays
      BY <1>1, <2>1, <3>1 DEF WriteTransition, Cancellable, Write, Refused, Orders, Target
    <3>2. ASSUME NEW a \in Staff, WriteFulfil(a) PROVE Stays
      <4>1. op[a].to \in LifecycleStates \ {"cancelled"}
        BY <1>1, <3>2, LifecycleAssumption DEF WriteFulfil, Doing, IInv, RequestOK, Actors
      <4>2. QED
        BY <2>1, <3>2, <4>1 DEF WriteFulfil, Write, Orders, LifecycleStates
    <3>3. CASE \E to \in Statuses : PatchStatus(to)
      BY <2>1, <3>3 DEF PatchStatus, Write, Orders
    <3>4. CASE WriteArchive
      BY <1>1, <3>4 DEF WriteArchive, Cancellable, Refused
    <3>5. QED
      BY <2>1, <2>3, <3>1, <3>2, <3>3, <3>4 DEF Progress, ReadTransition, ReadFulfil,
         ReadArchive, Read, MarkReady, Purge, Write, Orders
  <2>4. CASE Payment
    BY <1>1, <2>1, <2>4 DEF Payment, Closeout, Payable, ApplyCredit, CreateAttempt,
       BeginCapture, EndCapture, Reconcile, BuyerCancel, Refund, CourierReports, Settle,
       Write, Orders, IInv, Books, CaptureAlone
  <2>5. CASE UNCHANGED vars  BY <2>5 DEF vars
  <2>6. QED  BY <1>1, <2>2, <2>3, <2>4, <2>5 DEF Next
<1>2. IInv /\ [Next]_vars => [Stays]_vars  BY <1>1
<1>3. QED  BY <1>2, Invariance, PTL DEF Spec, PaidNeverCancelled

=============================================================================
