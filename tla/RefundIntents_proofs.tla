------------------------- MODULE RefundIntents_proofs -------------------------
(* Theorems about RefundIntents, for any number of keys and callers and any  *)
(* captured amount, and their proofs.                                        *)
EXTENDS RefundIntents, FiniteSetTheorems, TLAPS

(* What ties rows, requests, events and PayPal together.                     *)

\* What an answer or an event said of a refund is still so.
Says(outcome, k) ==
    /\ provider[k].status # "none"
    /\ outcome \in {"COMPLETED", "FAILED"} => provider[k].status = outcome

\* PayPal knows no refund without an intent, and reports its amount.
IntentFirst == \A k \in Keys :
    /\ provider[k].asked => rows[k].state # "absent"
    /\ provider[k].status # "none" =>
         provider[k].asked /\ provider[k].amount = rows[k].amount
    /\ rows[k].state # "absent" => rows[k].amount \in Money

\* A row whose state came from PayPal tells the truth and has its identity.
RowsTrue == \A k \in Keys :
    /\ rows[k].id \in {NoRefund, k}
    /\ rows[k].state = "absent" => rows[k].id = NoRefund
    /\ rows[k].state \in {"provider_succeeded", "locally_finalized", "failed"} =>
         rows[k].id = k
    /\ rows[k].state \in {"provider_succeeded", "locally_finalized"} =>
         provider[k].status = "COMPLETED"
    /\ rows[k].state = "failed" => provider[k].status = "FAILED"

CallsTrue == \A c \in Callers : calls[c] # Idle =>
    /\ rows[calls[c].key].state # "absent"
    /\ calls[c].step = "answered" => Says(calls[c].seen, calls[c].key)

MailTrue == \A e \in mail : e.type # "REFUNDED" => Says(e.type, e.key)

\* A handler that picked another row than its refund's will find the identity
\* taken when it writes.
HooksTrue == \A h \in hooks :
    /\ h.target \in Keys => rows[h.target].state # "absent"
    /\ h.e.type # "REFUNDED" =>
         Says(h.e.type, h.e.key)
           /\ (h.target # h.e.key => rows[h.e.key].id = h.e.key)

Wiring == /\ TypeOK /\ IntentFirst /\ RowsTrue
          /\ CallsTrue /\ MailTrue /\ HooksTrue

-----------------------------------------------------------------------------
(* Types.                                                                    *)

LEMMA TypeInit == Init => TypeOK
  BY RefundAssumption DEF Init, TypeOK, RefundRows, Payments, AttemptStates,
     Sides, Requests, Idle, Identities

\* The updates of a row keep the row type.
LEMMA RowTypes ==
  ASSUME TypeOK, NEW k \in Keys, NEW s \in RefundStates
  PROVE  /\ SetState(k, s) \in [Keys -> RefundRows]
         /\ \A id \in Identities : Outcome(k, s, id) \in [Keys -> RefundRows]
  BY DEF TypeOK, SetState, Outcome, RefundRows

LEMMA LocalStateType == \A s \in Outcomes : LocalState(s) \in RefundStates
  BY DEF LocalState, Outcomes, RefundStates

LEMMA TypeStep == TypeOK /\ [Next]_vars => TypeOK'
<1> SUFFICES ASSUME TypeOK, [Next]_vars PROVE TypeOK'
  OBVIOUS
<1> USE RefundAssumption DEF TypeOK
<1>0. ASSUME NEW c \in Callers
      PROVE  Ends(c) \in [Callers -> Requests]
  BY DEF Ends, Requests
<1>1. CASE Requesting
  <2> SUFFICES ASSUME NEW c \in Callers,
                      \/ \E k \in Keys : Prepare(c, k) \/ Replay(c, k)
                      \/ Post(c) \/ Answer(c) \/ Catch(c) \/ Record(c)
                      \/ RecordMismatch(c) \/ Finalize(c)
                      \/ FinalizeRefused(c) \/ Crash(c)
               PROVE  TypeOK'
    BY <1>1 DEF Requesting
  <2>0. /\ calls[c].step \in {"posting", "recorded", "answered"} =>
             calls[c].key \in Keys
        /\ calls[c].step = "answered" => calls[c].seen \in Outcomes
    BY DEF Requests, Idle
  <2>1. ASSUME NEW k \in Keys, Prepare(c, k) PROVE TypeOK'
    <3>1. rows' \in [Keys -> RefundRows]
      <4>1. PICK a \in Money :
              rows' = [rows EXCEPT ![k] =
                [state |-> "requested", amount |-> a, id |-> NoRefund]]
        BY <2>1 DEF Prepare
      <4>2. [state |-> "requested", amount |-> a, id |-> NoRefund] \in RefundRows
        BY DEF RefundRows, RefundStates, Identities, Money
      <4> QED
        BY <4>1, <4>2
    <3>2. calls' \in [Callers -> Requests]
      BY <2>1 DEF Prepare, Requests, Idle
    <3> QED
      BY <3>1, <3>2, <2>1 DEF Prepare
  <2>2. ASSUME NEW k \in Keys, Replay(c, k) PROVE TypeOK'
    <3>1. calls' \in [Callers -> Requests]
      BY <2>2 DEF Replay, Requests, Idle
    <3> QED
      BY <3>1, <2>2 DEF Replay
  <2>3. CASE Post(c)
    <3>1. provider' \in [Keys -> Sides]
      BY <2>0, <2>3 DEF Post, Sides
    <3> QED
      BY <3>1, <2>3 DEF Post
  <2>4. CASE Answer(c)
    <3>1. provider[calls[c].key].status \in Outcomes
      BY <2>0, <2>4 DEF Answer, Sides
    <3>2. calls' \in [Callers -> Requests]
      BY <3>1, <2>0, <2>4 DEF Answer, Requests, Idle
    <3> QED
      BY <3>2, <2>4 DEF Answer
  <2>5. CASE Catch(c)
    BY <1>0, <2>0, <2>5, RowTypes DEF Catch, RefundStates
  <2>6. CASE Record(c)
    <3>1. LocalState(calls[c].seen) \in RefundStates
      BY <2>0, <2>6, LocalStateType DEF Record
    <3>2. rows' \in [Keys -> RefundRows]
      BY <3>1, <2>0, <2>6, RowTypes DEF Record, Identities
    <3>3. Step(c, "recorded") \in [Callers -> Requests]
      BY <2>0, <2>6 DEF Record, Step, Requests, Idle
    <3> QED
      BY <1>0, <3>2, <3>3, <2>6 DEF Record
  <2>7. CASE RecordMismatch(c) \/ FinalizeRefused(c) \/ Crash(c)
    BY <1>0, <2>7 DEF RecordMismatch, FinalizeRefused, Crash
  <2>8. CASE Finalize(c)
    BY <1>0, <2>0, <2>8, RowTypes
    DEF Finalize, RefundStates, Payments, AttemptStates
  <2> QED
    BY <2>1, <2>2, <2>3, <2>4, <2>5, <2>6, <2>7, <2>8
<1>2. CASE Webhooks
  <2>1. CASE HookReads
    <3>1. PICK e \in mail, k \in Identities :
            /\ \/ Candidates(e) = {k}
               \/ e.type = "REFUNDED" /\ k = NoRefund
            /\ hooks' = hooks \cup
                 {[e |-> e, target |-> k,
                   open |-> e.type = "REFUNDED" /\ attempt = "reconciliation_required"]}
      BY <2>1 DEF HookReads
    <3>2. k \in Keys \/ e.type = "REFUNDED"
      <4>1. Candidates(e) \subseteq Keys
        BY DEF Candidates
      <4> QED
        BY <3>1, <4>1
    <3>3. \A b : b = (e.type = "REFUNDED" /\ attempt = "reconciliation_required")
                   => [e |-> e, target |-> k, open |-> b] \in Handlers
      <4>1. CASE e.type = "REFUNDED"
        BY <4>1 DEF Handlers, Events, Outcomes
      <4>2. CASE e.type # "REFUNDED"
        BY <3>2, <4>2 DEF Handlers, Events
      <4> QED
        BY <4>1, <4>2
    <3>4. hooks' \subseteq Handlers
      BY <3>1, <3>3
    <3> QED
      BY <2>1, <3>4 DEF HookReads
  <2>2. CASE HookWrites
    <3>1. PICK h \in hooks : /\ h.e.type # "REFUNDED"
                            /\ rows' = Outcome(h.target, LocalState(h.e.type), h.e.key)
                            /\ hooks' = hooks \ {h} /\ mail' = mail \ {h.e}
      BY <2>2 DEF HookWrites
    <3>2. h.target \in Keys /\ h.e.type \in Outcomes /\ h.e.key \in Identities
      BY <3>1 DEF Handlers, Identities
    <3>3. rows' \in [Keys -> RefundRows]
      BY <3>1, <3>2, RowTypes, LocalStateType
    <3> QED
      BY <3>1, <3>3, <2>2 DEF HookWrites
  <2>3. CASE HookFlags
    <3>1. PICK h \in hooks :
            /\ rows' = IF h.target = NoRefund THEN rows
                       ELSE SetState(h.target, "reconciliation_required")
            /\ attempt' = IF h.open THEN "reconciliation_required" ELSE attempt
            /\ hooks' = hooks \ {h}
      BY <2>3 DEF HookFlags
    <3>2. h.target = NoRefund \/ h.target \in Keys
      BY DEF Handlers, Identities
    <3>3. rows' \in [Keys -> RefundRows]
      BY <3>1, <3>2, RowTypes DEF RefundStates
    <3>4. attempt' \in AttemptStates
      BY <3>1 DEF AttemptStates
    <3> QED
      BY <2>3, <3>1, <3>3, <3>4 DEF HookFlags
  <2>4. CASE HookFails
    BY <2>4 DEF HookFails
  <2> QED
    BY <1>2, <2>1, <2>2, <2>3, <2>4 DEF Webhooks
<1>3. CASE Reconciling
  BY <1>3 DEF Reconciling, LookUp, Reconcile, ReconcileAborts, Payments,
     AttemptStates
<1>4. CASE World
  <2>1. PICK k \in Keys, s \in Outcomes : Decides(k, s)
    BY <1>4 DEF World, ProviderRefunds, ProviderSettles, Outcomes
  <2>2. PICK a \in Money :
          provider' = [provider EXCEPT ![k] =
            [status |-> s, asked |-> provider[k].asked,
             amount |-> IF provider[k].status = "none" THEN a
                        ELSE provider[k].amount]]
    BY <2>1 DEF Decides
  <2>3. provider' \in [Keys -> Sides]
    BY <2>2 DEF Sides, Money
  <2>4. mail' \subseteq Events
    BY <2>1 DEF Decides, Events
  <2> QED
    BY <2>1, <2>3, <2>4 DEF Decides
<1>5. CASE UNCHANGED vars
  BY <1>5 DEF vars
<1> QED
  BY <1>1, <1>2, <1>3, <1>4, <1>5 DEF Next

\* Every variable keeps its type: in particular no request is ever answered,
\* recorded or finalized for an intent that does not exist.
THEOREM TypeCorrect == Spec => []TypeOK
  BY TypeInit, TypeStep, PTL DEF Spec

-----------------------------------------------------------------------------
(* The wiring of rows, requests, events and PayPal is inductive.             *)

\* What every step keeps: intents stay, identities stay, PayPal's word stays.
Advances ==
    /\ \A k \in Keys : rows[k].state # "absent" => rows'[k].state # "absent"
    /\ \A k \in Keys : rows[k].id = k => rows'[k].id = k
    /\ \A k \in Keys, o \in Outcomes : Says(o, k) => Says(o, k)'

\* A request that ends, waits or goes on with an intent, without a new answer.
Continues(c) ==
    \/ calls'[c] = Idle
    \/ calls'[c] = calls[c]
    \/ calls'[c].step # "answered" /\ rows'[calls'[c].key].state # "absent"

LEMMA CallFacts ==
  ASSUME TypeOK, NEW c \in Callers, calls[c] # Idle
  PROVE  /\ calls[c].key \in Keys
         /\ calls[c].step = "answered" => calls[c].seen \in Outcomes
  BY DEF TypeOK, Requests

LEMMA Frame ==
  ASSUME TypeOK, CallsTrue, MailTrue, HooksTrue, Advances
  PROVE  /\ (\A c \in Callers : Continues(c)) => CallsTrue'
         /\ mail' \subseteq mail => MailTrue'
         /\ hooks' \subseteq hooks => HooksTrue'
<1>1. ASSUME \A c \in Callers : Continues(c) PROVE CallsTrue'
  <2> SUFFICES ASSUME NEW c \in Callers, calls'[c] # Idle
               PROVE  /\ rows'[calls'[c].key].state # "absent"
                      /\ calls'[c].step = "answered" =>
                           Says(calls[c].seen, calls[c].key)'
    BY DEF CallsTrue, Says
  <2>1. CASE calls'[c] = calls[c]
    <3>1. /\ calls[c].key \in Keys /\ rows[calls[c].key].state # "absent"
          /\ calls[c].step = "answered" =>
               calls[c].seen \in Outcomes /\ Says(calls[c].seen, calls[c].key)
      BY <2>1, CallFacts DEF CallsTrue
    <3> QED
      BY <2>1, <3>1 DEF Advances, Says
  <2>2. CASE calls'[c].step # "answered" /\ rows'[calls'[c].key].state # "absent"
    BY <2>2
  <2> QED
    BY <1>1, <2>1, <2>2 DEF Continues
<1>2. ASSUME mail' \subseteq mail PROVE MailTrue'
  BY <1>2 DEF MailTrue, Advances, Says, TypeOK, Events
<1>3. ASSUME hooks' \subseteq hooks PROVE HooksTrue'
  <2> SUFFICES ASSUME NEW h \in hooks
               PROVE  /\ h.target \in Keys => rows'[h.target].state # "absent"
                      /\ h.e.type # "REFUNDED" =>
                           /\ Says(h.e.type, h.e.key)'
                           /\ h.target # h.e.key => rows'[h.e.key].id = h.e.key
    BY <1>3 DEF HooksTrue, Says
  <2>1. h.e.type # "REFUNDED" =>
          h.target \in Keys /\ h.e.type \in Outcomes /\ h.e.key \in Keys
    BY DEF TypeOK, Handlers
  <2> QED
    BY <2>1 DEF HooksTrue, Advances, Says
<1> QED
  BY <1>1, <1>2, <1>3

\* A row written with a state that PayPal's side bears out.
LEMMA RowWritten ==
  ASSUME Wiring, provider' = provider,
         NEW k \in Keys, NEW s \in RefundStates, NEW id \in {NoRefund, k},
         rows' = Outcome(k, s, id), rows[k].state # "absent",
         rows[k].id = k => id = k,
         s \in {"provider_succeeded", "locally_finalized", "failed"} => id = k,
         s \in {"provider_succeeded", "locally_finalized"} =>
           provider[k].status = "COMPLETED",
         s = "failed" => provider[k].status = "FAILED"
  PROVE  IntentFirst' /\ RowsTrue' /\ Advances
<1>1. /\ rows'[k].state = s /\ rows'[k].id = id
      /\ rows'[k].amount = rows[k].amount
      /\ \A j \in Keys \ {k} : rows'[j] = rows[j]
  BY DEF Wiring, TypeOK, Outcome, RefundRows
<1>2. s # "absent"
  BY DEF RefundStates
<1>3. IntentFirst'
  BY <1>1, <1>2 DEF Wiring, IntentFirst
<1>4. RowsTrue'
  BY <1>1, <1>2 DEF Wiring, RowsTrue
<1>5. Advances
  BY <1>1, <1>2 DEF Advances, Says
<1> QED
  BY <1>3, <1>4, <1>5

\* Changing the state alone is such a write, with the row's own identity.
LEMMA StateWritten ==
  ASSUME TypeOK, NEW k \in Keys, NEW s \in RefundStates
  PROVE  SetState(k, s) = Outcome(k, s, rows[k].id)
  BY DEF TypeOK, SetState, Outcome, RefundRows

\* Nothing changes that the wiring of rows and PayPal is about.
LEMMA RowsKept ==
  ASSUME Wiring, rows' = rows, provider' = provider
  PROVE  IntentFirst' /\ RowsTrue' /\ Advances
<1>1. IntentFirst'
  BY DEF Wiring, IntentFirst
<1>2. RowsTrue'
  BY DEF Wiring, RowsTrue
<1>3. Advances
  BY DEF Advances, Says
<1> QED
  BY <1>1, <1>2, <1>3

LEMMA WiringInit == Init => Wiring
<1> SUFFICES ASSUME Init PROVE Wiring
  OBVIOUS
<1>1. TypeOK
  BY TypeInit
<1>2. IntentFirst /\ RowsTrue
  BY DEF Init, IntentFirst, RowsTrue
<1>3. CallsTrue /\ MailTrue /\ HooksTrue
  BY DEF Init, CallsTrue, MailTrue, HooksTrue
<1> QED
  BY <1>1, <1>2, <1>3 DEF Wiring

\* The steps of a refund request.
LEMMA RequestWiring ==
  ASSUME Wiring, Requesting, TypeOK'
  PROVE  Wiring'
<1> USE DEF Wiring
<1>1. PICK c \in Callers :
        \/ \E k \in Keys : Prepare(c, k) \/ Replay(c, k)
        \/ Post(c) \/ Answer(c) \/ Catch(c) \/ Record(c)
        \/ RecordMismatch(c) \/ Finalize(c) \/ FinalizeRefused(c) \/ Crash(c)
  BY DEF Requesting
<1>2. /\ \A d \in Callers \ {c} : calls'[d] = calls[d]
      /\ mail' = mail /\ hooks' = hooks
  BY <1>1 DEF Prepare, Replay, Post, Answer, Catch, Record, RecordMismatch,
     Finalize, FinalizeRefused, Crash, Ends, Step, TypeOK
<1>3. ASSUME IntentFirst', RowsTrue', Advances, Continues(c)
      PROVE  Wiring'
  BY <1>2, <1>3, Frame DEF Continues
<1>4. ASSUME calls' = Ends(c) PROVE Continues(c)
  BY <1>4 DEF Continues, Ends, TypeOK
<1>5. ASSUME calls[c] # Idle, calls' = Step(c, "recorded"), Advances
      PROVE  Continues(c)
  <2>1. calls[c].key \in Keys /\ rows'[calls[c].key].state # "absent"
    BY <1>5, CallFacts DEF CallsTrue, Advances
  <2>2. calls'[c].step = "recorded" /\ calls'[c].key = calls[c].key
    BY <1>5 DEF Step, TypeOK, Requests
  <2> QED
    BY <2>1, <2>2 DEF Continues
<1>6. calls[c].step # "idle" => calls[c] # Idle
  BY DEF Idle
<1>7. ASSUME NEW k \in Keys, Prepare(c, k) PROVE Wiring'
  <2>1. PICK a \in Money :
          rows' = [rows EXCEPT ![k] = [state |-> "requested", amount |-> a,
                                       id |-> NoRefund]]
    BY <1>7 DEF Prepare
  <2>2. /\ rows'[k] = [state |-> "requested", amount |-> a, id |-> NoRefund]
        /\ \A j \in Keys \ {k} : rows'[j] = rows[j]
        /\ rows[k].state = "absent" /\ provider' = provider
        /\ calls'[c] = [step |-> "posting", key |-> k, seen |-> "none"]
    BY <1>7, <2>1 DEF Prepare, State, TypeOK
  <2>3. IntentFirst' /\ RowsTrue'
    BY <2>2 DEF IntentFirst, RowsTrue
  <2>4. Advances
    BY <2>2, RefundAssumption DEF Advances, RowsTrue, Says
  <2>5. Continues(c)
    BY <2>2 DEF Continues
  <2> QED
    BY <1>3, <2>3, <2>4, <2>5
<1>8. ASSUME NEW k \in Keys, Replay(c, k) PROVE Wiring'
  <2>1. rows' = rows /\ provider' = provider /\ rows[k].state # "absent"
    BY <1>8 DEF Replay, State
  <2>2. calls'[c].step # "answered" /\ calls'[c].key = k
    BY <1>8 DEF Replay, TypeOK
  <2> QED
    BY <1>3, <2>1, <2>2, RowsKept DEF Continues
<1>9. CASE Post(c)
  <2>1. /\ rows' = rows /\ calls' = calls
        /\ provider' = [provider EXCEPT ![calls[c].key].asked = TRUE]
        /\ calls[c] # Idle
    BY <1>9, <1>6 DEF Post
  <2>2. calls[c].key \in Keys /\ rows[calls[c].key].state # "absent"
    BY <2>1, CallFacts DEF CallsTrue
  <2>3. \A k \in Keys : /\ provider'[k].status = provider[k].status
                        /\ provider'[k].amount = provider[k].amount
                        /\ provider'[k].asked =>
                             provider[k].asked \/ k = calls[c].key
                        /\ provider[k].asked => provider'[k].asked
    BY <2>1, <2>2 DEF TypeOK, Sides
  <2>4. IntentFirst'
    BY <2>1, <2>2, <2>3 DEF IntentFirst
  <2>5. RowsTrue' /\ Advances
    BY <2>1, <2>3 DEF RowsTrue, Advances, Says
  <2> QED
    BY <1>3, <2>1, <2>4, <2>5 DEF Continues
<1>10. CASE Answer(c)
  <2>1. /\ rows' = rows /\ provider' = provider /\ calls[c] # Idle
        /\ provider[calls[c].key].status # "none"
        /\ calls'[c] = [step |-> "answered", key |-> calls[c].key,
                        seen |-> provider[calls[c].key].status]
    BY <1>10, <1>6 DEF Answer, TypeOK
  <2>2. IntentFirst' /\ RowsTrue' /\ Advances
    BY <2>1, RowsKept
  <2>3. CallsTrue'
    BY <1>2, <2>1 DEF CallsTrue, Says
  <2> QED
    BY <1>2, <2>2, <2>3, Frame
<1>11. CASE Catch(c)
  <2>1. /\ calls[c] # Idle /\ calls' = Ends(c) /\ provider' = provider
        /\ rows' = SetState(calls[c].key, "reconciliation_required")
    BY <1>11, <1>6 DEF Catch
  <2>2. calls[c].key \in Keys /\ rows[calls[c].key].state # "absent"
    BY <2>1, CallFacts DEF CallsTrue
  <2>3. rows' = Outcome(calls[c].key, "reconciliation_required",
                        rows[calls[c].key].id)
    BY <2>1, <2>2, StateWritten DEF RefundStates
  <2>4. rows[calls[c].key].id \in {NoRefund, calls[c].key}
    BY <2>2 DEF RowsTrue
  <2>5. IntentFirst' /\ RowsTrue' /\ Advances
    BY <2>1, <2>2, <2>3, <2>4, RowWritten DEF RefundStates
  <2> QED
    BY <1>3, <1>4, <2>1, <2>5
<1>12. CASE Record(c)
  <2>1. /\ calls[c] # Idle /\ provider' = provider
        /\ calls' = Ends(c) \/ calls' = Step(c, "recorded")
        /\ rows' = Outcome(calls[c].key, LocalState(calls[c].seen), calls[c].key)
    BY <1>12, <1>6 DEF Record
  <2>2. /\ calls[c].key \in Keys /\ rows[calls[c].key].state # "absent"
        /\ calls[c].seen \in Outcomes /\ Says(calls[c].seen, calls[c].key)
    BY <2>1, <1>12, CallFacts DEF CallsTrue, Record
  <2>3. /\ LocalState(calls[c].seen) \in RefundStates
        /\ LocalState(calls[c].seen) \in {"provider_succeeded", "locally_finalized"}
             => provider[calls[c].key].status = "COMPLETED"
        /\ LocalState(calls[c].seen) = "failed"
             => provider[calls[c].key].status = "FAILED"
    BY <2>2 DEF LocalState, Says, Outcomes, RefundStates
  <2>4. IntentFirst' /\ RowsTrue' /\ Advances
    BY <2>1, <2>2, <2>3, RowWritten
  <2> QED
    BY <1>3, <1>4, <1>5, <2>1, <2>4
<1>13. CASE Finalize(c)
  <2>1. /\ calls[c] # Idle /\ calls' = Ends(c) /\ provider' = provider
        /\ rows[calls[c].key].state = "provider_succeeded"
        /\ rows' = SetState(calls[c].key, "locally_finalized")
    BY <1>13, <1>6 DEF Finalize, State
  <2>2. /\ calls[c].key \in Keys /\ rows[calls[c].key].id = calls[c].key
        /\ provider[calls[c].key].status = "COMPLETED"
    BY <2>1, CallFacts DEF RowsTrue
  <2>3. rows' = Outcome(calls[c].key, "locally_finalized", calls[c].key)
    BY <2>1, <2>2, StateWritten DEF RefundStates
  <2>4. IntentFirst' /\ RowsTrue' /\ Advances
    BY <2>1, <2>2, <2>3, RowWritten DEF RefundStates
  <2> QED
    BY <1>3, <1>4, <2>1, <2>4
<1>14. CASE RecordMismatch(c) \/ FinalizeRefused(c) \/ Crash(c)
  <2>1. calls' = Ends(c) /\ rows' = rows /\ provider' = provider
    BY <1>14 DEF RecordMismatch, FinalizeRefused, Crash
  <2> QED
    BY <1>3, <1>4, <2>1, RowsKept
<1> QED
  BY <1>1, <1>7, <1>8, <1>9, <1>10, <1>11, <1>12, <1>13, <1>14

\* The steps of a webhook handler: matching by amount finds the intent of the
\* event, or another one while the event's identity is already taken.
LEMMA WebhookWiring ==
  ASSUME Wiring, Webhooks, TypeOK'
  PROVE  Wiring'
<1> USE DEF Wiring
<1>1. calls' = calls /\ provider' = provider /\ mail' \subseteq mail
  BY DEF Webhooks, HookReads, HookWrites, HookFlags, HookFails
<1>2. \A c \in Callers : Continues(c)
  BY <1>1 DEF Continues
<1>3. CASE HookReads
  <2>1. PICK e \in mail, k \in Identities :
          /\ Candidates(e) = {k} \/ (e.type = "REFUNDED" /\ k = NoRefund)
          /\ hooks' = hooks \cup
               {[e |-> e, target |-> k,
                 open |-> e.type = "REFUNDED" /\ attempt = "reconciliation_required"]}
    BY <1>3 DEF HookReads
  <2>2. rows' = rows
    BY <1>3 DEF HookReads
  <2>3. IntentFirst' /\ RowsTrue' /\ Advances
    BY <1>1, <2>2, RowsKept
  <2>4. k \in Keys => k \in Candidates(e)
    BY <2>1, RefundAssumption
  <2>5. k \in Keys => rows[k].state # "absent"
    BY <2>4 DEF Candidates, State
  <2>6. ASSUME e.type # "REFUNDED", k # e.key PROVE rows[e.key].id = e.key
    <3>1. e.key \in Keys /\ Says(e.type, e.key)
      BY <2>6 DEF MailTrue, TypeOK, Events
    <3>2. /\ rows[e.key].state # "absent"
          /\ provider[e.key].amount = rows[e.key].amount
      BY <3>1 DEF IntentFirst, Says
    <3>3. e.key \notin Candidates(e)
      BY <2>1, <2>6
    <3>4. rows[e.key].state \notin {"requested", "reconciliation_required", "pending"}
      BY <2>6, <3>1, <3>2, <3>3 DEF Candidates, State
    <3>5. rows[e.key].state \in {"provider_succeeded", "locally_finalized", "failed"}
      BY <3>1, <3>2, <3>4 DEF TypeOK, RefundRows, RefundStates
    <3> QED
      BY <3>1, <3>5 DEF RowsTrue
  <2>7. HooksTrue'
    BY <1>1, <2>1, <2>2, <2>5, <2>6 DEF HooksTrue, MailTrue, Says
  <2> QED
    BY <1>1, <1>2, <2>3, <2>7, Frame
<1>4. CASE HookWrites
  <2>1. PICK h \in hooks : /\ h.e.type # "REFUNDED"
                          /\ IdentityFree(h.e.key, h.target)
                          /\ rows' = Outcome(h.target, LocalState(h.e.type), h.e.key)
                          /\ hooks' = hooks \ {h}
    BY <1>4 DEF HookWrites
  <2>2. /\ h.target \in Keys /\ h.e.key \in Keys /\ h.e.type \in Outcomes
        /\ rows[h.target].state # "absent" /\ Says(h.e.type, h.e.key)
        /\ h.target # h.e.key => rows[h.e.key].id = h.e.key
    BY <2>1 DEF HooksTrue, TypeOK, Handlers
  <2>3. h.target = h.e.key
    BY <2>1, <2>2 DEF IdentityFree
  <2>4. /\ LocalState(h.e.type) \in RefundStates
        /\ LocalState(h.e.type) \in {"provider_succeeded", "locally_finalized"}
             => provider[h.e.key].status = "COMPLETED"
        /\ LocalState(h.e.type) = "failed" => provider[h.e.key].status = "FAILED"
    BY <2>2 DEF LocalState, Says, Outcomes, RefundStates
  <2>5. IntentFirst' /\ RowsTrue' /\ Advances
    BY <1>1, <2>1, <2>2, <2>3, <2>4, RowWritten
  <2> QED
    BY <1>1, <1>2, <2>1, <2>5, Frame
<1>5. CASE HookFlags
  <2>1. PICK h \in hooks :
          /\ rows' = IF h.target = NoRefund THEN rows
                     ELSE SetState(h.target, "reconciliation_required")
          /\ hooks' = hooks \ {h}
    BY <1>5 DEF HookFlags
  <2>2. CASE h.target = NoRefund
    BY <1>1, <1>2, <2>1, <2>2, RowsKept, Frame
  <2>3. CASE h.target # NoRefund
    <3>1. h.target \in Keys /\ rows[h.target].state # "absent"
      BY <2>1, <2>3 DEF HooksTrue, TypeOK, Handlers, Identities
    <3>2. rows' = Outcome(h.target, "reconciliation_required", rows[h.target].id)
      BY <2>1, <2>3, <3>1, StateWritten DEF RefundStates
    <3>3. rows[h.target].id \in {NoRefund, h.target}
      BY <3>1 DEF RowsTrue
    <3>4. IntentFirst' /\ RowsTrue' /\ Advances
      BY <1>1, <3>1, <3>2, <3>3, RowWritten DEF RefundStates
    <3> QED
      BY <1>1, <1>2, <2>1, <3>4, Frame
  <2> QED
    BY <2>2, <2>3
<1>6. CASE HookFails
  <2>1. rows' = rows /\ hooks' \subseteq hooks
    BY <1>6 DEF HookFails
  <2> QED
    BY <1>1, <1>2, <2>1, RowsKept, Frame
<1> QED
  BY <1>3, <1>4, <1>5, <1>6 DEF Webhooks

\* A step of PayPal's on one refund, told in full.
LEMMA DecidesFacts ==
  ASSUME TypeOK, World
  PROVE  \E k \in Keys, s \in Outcomes :
           /\ Decides(k, s)
           /\ provider[k].status \in {"none", "PENDING"}
           /\ provider[k].status = "none" => provider[k].asked
  BY DEF World, ProviderRefunds, ProviderSettles, Outcomes

LEMMA WorldWiring ==
  ASSUME Exact, Wiring, World, TypeOK'
  PROVE  Wiring'
<1> USE DEF Wiring
<1>1. PICK k \in Keys, s \in Outcomes :
        /\ Decides(k, s)
        /\ provider[k].status \in {"none", "PENDING"}
        /\ provider[k].status = "none" => provider[k].asked
  BY DecidesFacts
<1>2. /\ provider'[k].status = s /\ provider'[k].asked = provider[k].asked
      /\ provider'[k].amount = IF provider[k].status = "none" THEN rows[k].amount
                               ELSE provider[k].amount
      /\ \A j \in Keys \ {k} : provider'[j] = provider[j]
  BY <1>1 DEF Decides, TypeOK
<1>3. /\ rows' = rows /\ calls' = calls /\ hooks' = hooks
      /\ mail' \subseteq mail \cup {[type |-> s, key |-> k],
                                   [type |-> "REFUNDED", key |-> NoRefund]}
  BY <1>1 DEF Decides
<1>4. s # "none"
  BY DEF Outcomes
<1>5. IntentFirst'
  BY <1>1, <1>2, <1>3 DEF IntentFirst
<1>6. RowsTrue'
  BY <1>1, <1>2, <1>3 DEF RowsTrue
<1>7. Advances
  BY <1>1, <1>2, <1>3, <1>4 DEF Advances, Says
<1>8. Says(s, k)'
  BY <1>2, <1>3, <1>4 DEF Says
<1>9. MailTrue'
  <2> SUFFICES ASSUME NEW e \in mail', e.type # "REFUNDED"
               PROVE  Says(e.type, e.key)'
    BY DEF MailTrue
  <2>1. CASE e \in mail
    BY <2>1, <1>7 DEF MailTrue, Advances, TypeOK, Events
  <2>2. CASE e = [type |-> s, key |-> k]
    BY <2>2, <1>8
  <2> QED
    BY <1>3, <2>1, <2>2
<1> QED
  BY <1>3, <1>5, <1>6, <1>7, <1>9, Frame DEF Continues

LEMMA WiringStep == Exact /\ Wiring /\ [Next]_vars => Wiring'
<1> SUFFICES ASSUME Exact, Wiring, [Next]_vars PROVE Wiring'
  OBVIOUS
<1>1. TypeOK'
  BY TypeStep DEF Wiring
<1>2. CASE Reconciling \/ UNCHANGED vars
  <2>1. /\ rows' = rows /\ provider' = provider /\ mail' = mail
        /\ calls' = calls /\ hooks' = hooks
    BY <1>2 DEF Reconciling, LookUp, Reconcile, ReconcileAborts, vars
  <2> QED
    BY <1>1, <2>1, RowsKept, Frame DEF Wiring, Continues
<1> QED
  BY <1>1, <1>2, RequestWiring, WebhookWiring, WorldWiring DEF Next

THEOREM WiringHolds == ASSUME Exact PROVE Spec => []Wiring
  BY WiringInit, WiringStep, PTL DEF Spec

-----------------------------------------------------------------------------
(* What follows from the wiring at once.                                     *)

\* No refund event is ever booked on another intent's row.
THEOREM IdentitiesMatch == ASSUME Exact PROVE Spec => []IdentityMatches
<1>1. Wiring => IdentityMatches
  BY DEF Wiring, RowsTrue, IdentityMatches
<1> QED
  BY <1>1, WiringHolds, PTL

\* What is locally final was paid out, for any number of intents and requests.
THEOREM FinalizedBacked == ASSUME Exact PROVE Spec => []FinalizedIsBacked
<1>1. Wiring => FinalizedIsBacked
  BY DEF Wiring, RowsTrue, FinalizedIsBacked, State
<1> QED
  BY <1>1, WiringHolds, PTL

\* An intent whose amount is given free again is dead at PayPal.
THEOREM FailedFinal == ASSUME Exact PROVE Spec => []FailedIsFinal
<1>1. Wiring => FailedIsFinal
  BY DEF Wiring, RowsTrue, FailedIsFinal, State
<1> QED
  BY <1>1, WiringHolds, PTL

-----------------------------------------------------------------------------
(* Sums of amounts, counted unit by unit.                                    *)

Coins(S, f) == {u \in S \X Money : u[2] <= f[u[1]].amount}
Worth(S, f) == Cardinality(Coins(S, f))

LEMMA TotalIsWorth == \A S : Total(S) = Worth(S, rows)
  BY DEF Total, Units, Worth, Coins

LEMMA CoinsFinite ==
  ASSUME NEW f, NEW S \in SUBSET Keys
  PROVE  IsFiniteSet(Coins(S, f)) /\ Worth(S, f) \in Nat
<1>1. IsFiniteSet(S)
  BY FS_Subset, RefundAssumption
<1>2. IsFiniteSet(Money)
  BY FS_Interval, RefundAssumption DEF Money
<1>3. IsFiniteSet(S \X Money)
  BY <1>1, <1>2, FS_Product
<1>4. Coins(S, f) \in SUBSET (S \X Money)
  BY DEF Coins
<1>5. IsFiniteSet(Coins(S, f))
  BY <1>3, <1>4, FS_Subset
<1> QED
  BY <1>5, FS_CardinalityType DEF Worth

LEMMA WorthMonotone ==
  ASSUME NEW f, NEW T \in SUBSET Keys, NEW S \in SUBSET T
  PROVE  Worth(S, f) <= Worth(T, f)
<1>1. Coins(S, f) \in SUBSET Coins(T, f)
  BY DEF Coins
<1> QED
  BY <1>1, CoinsFinite, FS_Subset DEF Worth

\* Only the amounts of the members count.
LEMMA WorthSame ==
  ASSUME NEW f, NEW g, NEW S, \A k \in S : f[k].amount = g[k].amount
  PROVE  Worth(S, f) = Worth(S, g)
<1>1. Coins(S, f) = Coins(S, g)
  BY DEF Coins
<1> QED
  BY <1>1 DEF Worth

LEMMA WorthSingle ==
  ASSUME NEW f, NEW k, f[k].amount \in Money
  PROVE  Worth({k}, f) = f[k].amount
<1> DEFINE a == f[k].amount
<1>1. a \in Int /\ a >= 1 /\ a <= Captured /\ Captured \in Int
  BY RefundAssumption DEF Money
<1>2. Coins({k}, f) = {k} \X (1 .. a)
  BY <1>1 DEF Coins, Money
<1>3. IsFiniteSet(1 .. a) /\ Cardinality(1 .. a) = a
  <2> HIDE DEF a
  <2>1. /\ IsFiniteSet(1 .. a)
        /\ Cardinality(1 .. a) = IF 1 > a THEN 0 ELSE a - 1 + 1
    BY <1>1, FS_Interval
  <2> QED
    BY <1>1, <2>1
<1>4. IsFiniteSet({k}) /\ Cardinality({k}) = 1
  BY FS_Singleton, Zenon
<1>5. Cardinality({k} \X (1 .. a)) = 1 * a
  <2> HIDE DEF a
  <2>1. Cardinality({k} \X (1 .. a)) = Cardinality({k}) * Cardinality(1 .. a)
    BY <1>3, <1>4, FS_Product
  <2> QED
    BY <1>3, <1>4, <2>1
<1>6. Worth({k}, f) = 1 * a
  BY <1>2, <1>5 DEF Worth
<1> QED
  BY <1>1, <1>6

LEMMA WorthAdd ==
  ASSUME NEW f, NEW S \in SUBSET Keys, NEW k \in Keys, k \notin S,
         f[k].amount \in Money
  PROVE  Worth(S \cup {k}, f) = Worth(S, f) + f[k].amount
<1>1. /\ IsFiniteSet(Coins(S, f)) /\ IsFiniteSet(Coins({k}, f))
      /\ Worth(S, f) \in Nat /\ Worth({k}, f) \in Nat
  BY CoinsFinite
<1>2. Coins(S \cup {k}, f) = Coins(S, f) \cup Coins({k}, f)
  BY DEF Coins
<1>3. Coins(S, f) \cap Coins({k}, f) = {}
  BY DEF Coins
<1>4. Cardinality(Coins(S, f) \cup Coins({k}, f)) =
        Cardinality(Coins(S, f)) + Cardinality(Coins({k}, f)) - Cardinality({})
  BY <1>1, <1>3, FS_Union
<1>5. Cardinality({}) = 0
  BY FS_EmptySet, Zenon
<1>6. Worth(S \cup {k}, f) = Worth(S, f) + Worth({k}, f) - 0
  BY <1>2, <1>4, <1>5, Zenon DEF Worth
<1>7. Worth({k}, f) = f[k].amount
  BY WorthSingle
<1> QED
  BY <1>1, <1>6, <1>7

LEMMA WorthEmpty == \A f : Worth({}, f) = 0
<1>1. \A f : Coins({}, f) = {}
  BY DEF Coins
<1> QED
  BY <1>1, FS_EmptySet DEF Worth

-----------------------------------------------------------------------------
(* Money: the accounting on committed rows bounds what PayPal may pay back.  *)

\* Intents whose refund has not failed at PayPal, asked for or not.
NotDead == {k \in Keys : rows[k].state # "absent" /\ provider[k].status # "FAILED"}
PaidBack == {k \in Keys : provider[k].status = "COMPLETED"}

MoneyInv ==
    /\ Worth(NotDead, rows) <= Captured
    /\ payment = "refunded" => Worth(PaidBack, rows) = Captured
    /\ payment = "partially_refunded" => Worth(PaidBack, rows) > 0
    /\ recon = "completed" => Finalized = {} /\ payment \in {"unpaid", "paid"}

\* Once all that PayPal paid back is final, the payment is what it adds up to.
BooksInv ==
    /\ PaidBack \subseteq Finalized /\ Finalized # {} =>
         payment = IF Worth(Finalized, rows) = Captured
                   THEN "refunded" ELSE "partially_refunded"
    /\ attempt \in {"refunded", "partially_refunded"} => payment = attempt

\* How the sets of intents lie in each other, and what they are worth.
LEMMA Nested ==
  ASSUME Wiring
  PROVE  /\ Finalized \subseteq PaidBack /\ PaidBack \subseteq NotDead
         /\ NotDead \subseteq Reserving /\ Reserving \subseteq Keys
         /\ \A k \in NotDead : rows[k].amount \in Money
         /\ Worth(Finalized, rows) \in Nat /\ Worth(PaidBack, rows) \in Nat
         /\ Worth(NotDead, rows) \in Nat /\ Worth(Reserving, rows) \in Nat
         /\ Worth(PaidBack, rows) <= Worth(NotDead, rows)
         /\ Worth(NotDead, rows) <= Worth(Reserving, rows)
<1>1. /\ Finalized \subseteq PaidBack /\ PaidBack \subseteq NotDead
      /\ NotDead \subseteq Reserving /\ Reserving \subseteq Keys
  BY DEF Wiring, IntentFirst, RowsTrue, Finalized, PaidBack, NotDead, Reserving,
     State
<1>2. \A k \in NotDead : rows[k].amount \in Money
  BY DEF Wiring, IntentFirst, NotDead
<1>3. /\ Worth(Finalized, rows) \in Nat /\ Worth(PaidBack, rows) \in Nat
      /\ Worth(NotDead, rows) \in Nat /\ Worth(Reserving, rows) \in Nat
  BY <1>1, CoinsFinite
<1>4. /\ Worth(PaidBack, rows) <= Worth(NotDead, rows)
      /\ Worth(NotDead, rows) <= Worth(Reserving, rows)
  BY <1>1, WorthMonotone
<1> QED
  BY <1>1, <1>2, <1>3, <1>4

LEMMA MoneyInit == Init => MoneyInv /\ BooksInv
<1> SUFFICES ASSUME Init PROVE MoneyInv /\ BooksInv
  OBVIOUS
<1>1. NotDead = {} /\ Finalized = {}
  BY DEF Init, NotDead, Finalized, State
<1>2. payment \in {"paid", "unpaid"} /\ recon = "none"
      /\ attempt \notin {"refunded", "partially_refunded"}
  BY DEF Init
<1>3. Worth({}, rows) = 0
  BY WorthEmpty
<1> QED
  BY <1>1, <1>2, <1>3, RefundAssumption DEF MoneyInv, BooksInv

\* One of these writes to row w, as far as the accounting goes.
OnlyStateOf(w) ==
    \A k \in Keys : /\ rows'[k].amount = rows[k].amount
                    /\ k # w => rows'[k] = rows[k]

LEMMA OutcomeIsOfOneRow ==
  ASSUME TypeOK, NEW w \in Keys, NEW s \in RefundStates, NEW id,
         rows' = Outcome(w, s, id)
  PROVE  OnlyStateOf(w)
  BY DEF OnlyStateOf, TypeOK, Outcome, RefundRows

\* Every step but Prepare leaves the amounts alone; PayPal goes forward only.
LEMMA AmountsKept ==
  ASSUME Wiring, [Next]_vars, ~ \E c \in Callers, k \in Keys : Prepare(c, k)
  PROVE  /\ \A k \in Keys : rows'[k].amount = rows[k].amount
         /\ NotDead' \subseteq NotDead
         /\ PaidBack \subseteq PaidBack'
<1> USE DEF Wiring
<1>0. ASSUME \A k \in Keys : provider'[k].status = provider[k].status,
             NEW w, w \in Keys => rows[w].state # "absent",
             OnlyStateOf(w)
      PROVE  /\ \A k \in Keys : rows'[k].amount = rows[k].amount
             /\ NotDead' \subseteq NotDead
             /\ PaidBack \subseteq PaidBack'
  BY <1>0 DEF NotDead, PaidBack, OnlyStateOf
<1>1. CASE Requesting
  <2>1. PICK c \in Callers :
          \/ \E k \in Keys : Replay(c, k)
          \/ Post(c) \/ Answer(c) \/ Catch(c) \/ Record(c)
          \/ RecordMismatch(c) \/ Finalize(c) \/ FinalizeRefused(c) \/ Crash(c)
    BY <1>1 DEF Requesting
  <2>2. calls[c].step # "idle" => rows[calls[c].key].state # "absent"
    BY DEF CallsTrue, Idle
  <2>3. CASE Catch(c) \/ Record(c) \/ Finalize(c)
    <3>1. provider' = provider /\ rows[calls[c].key].state # "absent"
      BY <2>2, <2>3 DEF Catch, Record, Finalize
    <3>2. /\ calls[c].key \in Keys
          /\ calls[c].step = "answered" => calls[c].seen \in Outcomes
      BY <2>3, CallFacts DEF Catch, Record, Finalize, Idle
    <3>3. PICK s, id : /\ s \in RefundStates
                     /\ rows' = Outcome(calls[c].key, s, id)
      BY <2>3, <3>2, StateWritten, LocalStateType
      DEF Catch, Record, Finalize, RefundStates
    <3>4. OnlyStateOf(calls[c].key)
      BY <3>2, <3>3, OutcomeIsOfOneRow
    <3> QED
      BY <1>0, <3>1, <3>4
  <2>4. CASE Post(c)
    <3>1. \A k \in Keys : provider'[k].status = provider[k].status
      BY <2>4 DEF Post, TypeOK, Sides
    <3> QED
      BY <2>4, <3>1 DEF Post, NotDead, PaidBack
  <2>5. CASE \/ \E k \in Keys : Replay(c, k)
             \/ Answer(c) \/ RecordMismatch(c) \/ FinalizeRefused(c) \/ Crash(c)
    BY <2>5 DEF Replay, Answer, RecordMismatch, FinalizeRefused, Crash, NotDead,
       PaidBack
  <2> QED
    BY <2>1, <2>3, <2>4, <2>5
<1>2. CASE Webhooks
  <2>1. CASE rows' # rows
    <3>1. PICK h \in hooks :
            \/ h.e.type # "REFUNDED"
                 /\ rows' = Outcome(h.target, LocalState(h.e.type), h.e.key)
            \/ h.target # NoRefund
                 /\ rows' = SetState(h.target, "reconciliation_required")
      BY <1>2, <2>1 DEF Webhooks, HookReads, HookWrites, HookFlags, HookFails
    <3>2. h.target \in Keys /\ (h.e.type # "REFUNDED" => h.e.type \in Outcomes)
      BY <3>1 DEF TypeOK, Handlers, Identities
    <3>3. provider' = provider /\ rows[h.target].state # "absent"
      BY <1>2, <3>2 DEF Webhooks, HookReads, HookWrites, HookFlags, HookFails, HooksTrue
    <3>4. PICK s, id : /\ s \in RefundStates
                     /\ rows' = Outcome(h.target, s, id)
      BY <3>1, <3>2, StateWritten, LocalStateType DEF RefundStates
    <3>5. OnlyStateOf(h.target)
      BY <3>2, <3>4, OutcomeIsOfOneRow
    <3> QED
      BY <1>0, <3>3, <3>5
  <2>2. CASE rows' = rows
    BY <1>2, <2>2 DEF Webhooks, HookReads, HookWrites, HookFlags, HookFails, NotDead,
       PaidBack
  <2> QED
    BY <2>1, <2>2
<1>3. CASE World
  <2>1. PICK k \in Keys, s \in Outcomes :
          Decides(k, s) /\ provider[k].status \in {"none", "PENDING"}
    BY <1>3, DecidesFacts
  <2>2. rows' = rows /\ \A j \in Keys \ {k} : provider'[j] = provider[j]
    BY <2>1 DEF Decides, TypeOK
  <2>3. NotDead' \subseteq NotDead
    BY <2>1, <2>2 DEF NotDead
  <2>4. PaidBack \subseteq PaidBack'
    BY <2>1, <2>2 DEF PaidBack
  <2> QED
    BY <2>2, <2>3, <2>4
<1>4. CASE Reconciling \/ UNCHANGED vars
  BY <1>4 DEF Reconciling, LookUp, Reconcile, ReconcileAborts, vars, NotDead,
     PaidBack
<1> QED
  BY <1>1, <1>2, <1>3, <1>4 DEF Next

\* Once PayPal has paid something back, the sums say so after the step too.
LEMMA SumsKept ==
  ASSUME Wiring, Wiring', MoneyInv, [Next]_vars,
         ~ \E c \in Callers, k \in Keys : Prepare(c, k)
  PROVE  /\ Worth(NotDead', rows') <= Captured
         /\ Worth(PaidBack', rows') \in Worth(PaidBack, rows) .. Captured
         /\ \A S \in SUBSET Keys : Worth(S, rows') = Worth(S, rows)
<1>1. /\ \A k \in Keys : rows'[k].amount = rows[k].amount
      /\ NotDead' \subseteq NotDead /\ PaidBack \subseteq PaidBack'
  BY AmountsKept
<1>2. PaidBack' \subseteq NotDead'
  BY DEF Wiring, IntentFirst, PaidBack, NotDead
<1>3. NotDead \in SUBSET Keys /\ PaidBack' \in SUBSET Keys
      /\ NotDead' \in SUBSET Keys /\ PaidBack \in SUBSET Keys
  BY DEF NotDead, PaidBack
<1>4. \A S \in SUBSET Keys : Worth(S, rows') = Worth(S, rows)
  BY <1>1, WorthSame
<1>5. /\ Worth(NotDead', rows) <= Worth(NotDead, rows)
      /\ Worth(PaidBack, rows) <= Worth(PaidBack', rows)
      /\ Worth(PaidBack', rows) <= Worth(NotDead', rows)
  BY <1>1, <1>2, <1>3, WorthMonotone
<1>6. /\ Worth(NotDead', rows) \in Nat /\ Worth(NotDead, rows) \in Nat
      /\ Worth(PaidBack, rows) \in Nat /\ Worth(PaidBack', rows) \in Nat
  BY <1>3, CoinsFinite
<1>7. Worth(NotDead, rows) <= Captured
  BY DEF MoneyInv
<1> QED
  BY <1>3, <1>4, <1>5, <1>6, <1>7, RefundAssumption

\* Only finalizeRefund makes a row final; only it and reconcile touch the books.
LEMMA OnlyFinalizeFinalizes ==
  ASSUME Wiring, [Next]_vars, ~ \E c \in Callers : Finalize(c)
  PROVE  /\ Finalized' \subseteq Finalized
         /\ \/ /\ payment' = payment /\ recon' = recon
               /\ attempt' \in {attempt, "reconciliation_required"}
            \/ Reconciling
<1> USE DEF Wiring
<1>1. CASE Requesting
  <2>1. PICK c \in Callers :
          \/ \E k \in Keys : Prepare(c, k) \/ Replay(c, k)
          \/ Post(c) \/ Answer(c) \/ Catch(c) \/ Record(c)
          \/ RecordMismatch(c) \/ FinalizeRefused(c) \/ Crash(c)
    BY <1>1 DEF Requesting
  <2>2. payment' = payment /\ attempt' = attempt /\ recon' = recon
    BY <2>1 DEF Prepare, Replay, Post, Answer, Catch, Record, RecordMismatch,
       FinalizeRefused, Crash
  <2>3. ASSUME NEW k \in Keys, Prepare(c, k) PROVE Finalized' \subseteq Finalized
    BY <2>3 DEF Prepare, Finalized, State, TypeOK
  <2>4. CASE Catch(c) \/ Record(c)
    <3>1. /\ calls[c].key \in Keys
          /\ calls[c].step = "answered" => calls[c].seen \in Outcomes
      BY <2>4, CallFacts DEF Catch, Record, Idle
    <3>2. PICK s, id : /\ s \in RefundStates \ {"locally_finalized"}
                     /\ rows' = Outcome(calls[c].key, s, id)
      BY <2>4, <3>1, StateWritten, LocalStateType
      DEF Catch, Record, RefundStates, LocalState, Outcomes
    <3>3. rows'[calls[c].key].state = s /\ OnlyStateOf(calls[c].key)
      BY <3>1, <3>2, OutcomeIsOfOneRow DEF Outcome, TypeOK, RefundRows
    <3>4. Finalized' \subseteq Finalized
      BY <3>1, <3>2, <3>3 DEF OnlyStateOf, Finalized, State
    <3> QED
      BY <2>2, <3>4
  <2>5. CASE \/ \E k \in Keys : Replay(c, k)
             \/ Post(c) \/ Answer(c) \/ RecordMismatch(c)
             \/ FinalizeRefused(c) \/ Crash(c)
    BY <2>5 DEF Replay, Post, Answer, RecordMismatch, FinalizeRefused, Crash,
       Finalized, State
  <2> QED
    BY <2>1, <2>2, <2>3, <2>4, <2>5
<1>2. CASE Webhooks
  <2>1. /\ payment' = payment /\ recon' = recon
        /\ attempt' \in {attempt, "reconciliation_required"}
    BY <1>2 DEF Webhooks, HookReads, HookWrites, HookFlags, HookFails
  <2>2. CASE rows' # rows
    <3>1. PICK h \in hooks :
            \/ h.e.type # "REFUNDED"
                 /\ rows' = Outcome(h.target, LocalState(h.e.type), h.e.key)
            \/ h.target # NoRefund
                 /\ rows' = SetState(h.target, "reconciliation_required")
      BY <1>2, <2>2 DEF Webhooks, HookReads, HookWrites, HookFlags, HookFails
    <3>2. h.target \in Keys /\ (h.e.type # "REFUNDED" => h.e.type \in Outcomes)
      BY <3>1 DEF TypeOK, Handlers, Identities
    <3>3. PICK s, id : /\ s \in RefundStates \ {"locally_finalized"}
                     /\ rows' = Outcome(h.target, s, id)
      BY <3>1, <3>2, StateWritten, LocalStateType
      DEF RefundStates, LocalState, Outcomes
    <3>4. rows'[h.target].state = s /\ OnlyStateOf(h.target)
      BY <3>2, <3>3, OutcomeIsOfOneRow DEF Outcome, TypeOK, RefundRows
    <3>5. Finalized' \subseteq Finalized
      BY <3>2, <3>3, <3>4 DEF OnlyStateOf, Finalized, State
    <3> QED
      BY <2>1, <3>5
  <2>3. CASE rows' = rows
    BY <2>1, <2>3 DEF Finalized, State
  <2> QED
    BY <2>2, <2>3
<1>3. CASE World
  BY <1>3 DEF World, ProviderRefunds, ProviderSettles, Decides, Finalized, State
<1>4. CASE Reconciling \/ UNCHANGED vars
  BY <1>4 DEF Reconciling, LookUp, Reconcile, ReconcileAborts, vars, Finalized,
     State
<1> QED
  BY <1>1, <1>2, <1>3, <1>4 DEF Next

\* Preparing an intent adds its amount to what PayPal may pay back, and no more
\* than what no live intent holds.
LEMMA PrepareMoney ==
  ASSUME Wiring, MoneyInv, BooksInv,
         NEW c \in Callers, NEW k \in Keys, Prepare(c, k)
  PROVE  MoneyInv' /\ BooksInv'
<1>1. PICK a \in Money :
        /\ a <= Remaining
        /\ rows' = [rows EXCEPT ![k] = [state |-> "requested", amount |-> a,
                                        id |-> NoRefund]]
  BY DEF Prepare
<1>2. /\ rows[k].state = "absent" /\ rows'[k].amount = a
      /\ rows'[k].state = "requested"
      /\ \A j \in Keys \ {k} : rows'[j] = rows[j]
      /\ payment' = payment /\ attempt' = attempt /\ recon' = recon
      /\ provider' = provider
  BY <1>1 DEF Prepare, State, Wiring, TypeOK
<1>3. provider[k].status = "none"
  BY <1>2 DEF Wiring, TypeOK, Sides, IntentFirst
<1>4. /\ NotDead' = NotDead \cup {k} /\ k \notin NotDead
      /\ PaidBack' = PaidBack /\ k \notin PaidBack
      /\ Finalized' = Finalized /\ k \notin Finalized
  BY <1>2, <1>3 DEF NotDead, PaidBack, Finalized, State
<1>5. /\ Worth(NotDead, rows') = Worth(NotDead, rows)
      /\ Worth(PaidBack, rows') = Worth(PaidBack, rows)
      /\ Worth(Finalized, rows') = Worth(Finalized, rows)
  <2>1. /\ \A j \in NotDead : rows[j].amount = rows'[j].amount
        /\ \A j \in PaidBack : rows[j].amount = rows'[j].amount
        /\ \A j \in Finalized : rows[j].amount = rows'[j].amount
    BY <1>2, <1>4 DEF NotDead, PaidBack, Finalized
  <2> QED
    BY <2>1, WorthSame
<1>6. Worth(NotDead \cup {k}, rows') = Worth(NotDead, rows') + a
  <2>1. NotDead \in SUBSET Keys /\ k \notin NotDead /\ rows'[k].amount \in Money
    BY <1>1, <1>2, <1>4 DEF NotDead
  <2>2. Worth(NotDead \cup {k}, rows') = Worth(NotDead, rows') + rows'[k].amount
    BY <2>1, WorthAdd
  <2> QED
    BY <1>2, <2>2
<1>7. Worth(NotDead, rows) <= Worth(Reserving, rows)
      /\ Worth(NotDead, rows) \in Nat /\ Worth(Reserving, rows) \in Nat
  BY Nested
<1>8. a <= Captured - Worth(Reserving, rows)
  BY <1>1, TotalIsWorth DEF Remaining
<1>9. Worth(NotDead', rows') <= Captured
  BY <1>1, <1>4, <1>5, <1>6, <1>7, <1>8, RefundAssumption DEF Money
<1>10. MoneyInv'
  BY <1>2, <1>4, <1>5, <1>9 DEF MoneyInv
<1>11. BooksInv'
  BY <1>2, <1>4, <1>5 DEF BooksInv
<1> QED
  BY <1>10, <1>11

\* Finalizing books what all finalized intents, this one included, amount to.
LEMMA FinalizeMoney ==
  ASSUME Wiring, Wiring', MoneyInv, BooksInv, [Next]_vars,
         ~ \E c \in Callers, k \in Keys : Prepare(c, k),
         NEW c \in Callers, Finalize(c)
  PROVE  MoneyInv' /\ BooksInv'
<1> DEFINE k == calls[c].key
<1>1. /\ rows[k].state = "provider_succeeded"
      /\ rows' = SetState(k, "locally_finalized")
      /\ payment' = IF FullRefund(k) THEN "refunded" ELSE "partially_refunded"
      /\ attempt' = payment' /\ recon' = recon /\ recon = "none"
      /\ provider' = provider /\ calls[c] # Idle
  BY DEF Finalize, State, Unlocked, Idle
<1>2. k \in Keys
  BY <1>1, CallFacts DEF Wiring
<1>3. rows'[k].state = "locally_finalized" /\ OnlyStateOf(k)
  <2>1. rows' = Outcome(k, "locally_finalized", rows[k].id)
    BY <1>1, <1>2, StateWritten DEF RefundStates, Wiring
  <2>2. OnlyStateOf(k)
    BY <1>2, <2>1, OutcomeIsOfOneRow DEF RefundStates, Wiring
  <2> QED
    BY <1>2, <2>1, <2>2 DEF Outcome, Wiring, TypeOK, RefundRows
<1> HIDE DEF k
<1>4. Finalized' = Finalized \cup {k} /\ k \notin Finalized
  BY <1>1, <1>2, <1>3 DEF OnlyStateOf, Finalized, State
<1>5. k \in PaidBack /\ PaidBack' = PaidBack /\ rows[k].amount \in Money
  BY <1>1, <1>2 DEF Wiring, RowsTrue, IntentFirst, PaidBack
<1>6. /\ Finalized \subseteq PaidBack /\ PaidBack \in SUBSET Keys
      /\ Worth(Finalized, rows) \in Nat /\ Worth(PaidBack, rows) \in Nat
  BY Nested DEF PaidBack
<1>7. Worth(Finalized', rows) = Worth(Finalized, rows) + rows[k].amount
  BY <1>2, <1>4, <1>5, <1>6, WorthAdd
<1>8. /\ Worth(NotDead', rows') <= Captured
      /\ Worth(PaidBack', rows') \in Worth(PaidBack, rows) .. Captured
      /\ Worth(Finalized', rows') = Worth(Finalized', rows)
      /\ Worth(PaidBack', rows') = Worth(PaidBack, rows)
  BY SumsKept, <1>2, <1>4, <1>5, <1>6
<1>9. Worth(Finalized', rows) <= Worth(PaidBack, rows)
  BY <1>4, <1>5, <1>6, WorthMonotone
<1>10. FullRefund(k) <=> Worth(Finalized', rows') = Captured
  <2>1. Finalized \ {k} = Finalized
    BY <1>4
  <2>2. Total(Finalized \ {k}) = Worth(Finalized, rows)
    BY <2>1, TotalIsWorth
  <2> QED
    BY <1>7, <1>8, <2>2 DEF FullRefund
<1>11. MoneyInv'
  BY <1>1, <1>5, <1>6, <1>7, <1>8, <1>9, <1>10, RefundAssumption
  DEF MoneyInv, Money
<1>12. BooksInv'
  BY <1>1, <1>10 DEF BooksInv
<1> QED
  BY <1>11, <1>12

\* Everything else only makes the sums smaller at PayPal's end, or the books
\* incomplete; a reconciliation knows of no refund when it calls an order paid.
LEMMA OtherMoney ==
  ASSUME Wiring, Wiring', MoneyInv, BooksInv, [Next]_vars,
         ~ \E c \in Callers, k \in Keys : Prepare(c, k),
         ~ \E c \in Callers : Finalize(c)
  PROVE  MoneyInv' /\ BooksInv'
<1>1. /\ Worth(NotDead', rows') <= Captured
      /\ Worth(PaidBack', rows') \in Worth(PaidBack, rows) .. Captured
      /\ \A S \in SUBSET Keys : Worth(S, rows') = Worth(S, rows)
  BY SumsKept
<1>2. /\ Finalized' \subseteq Finalized
      /\ \/ /\ payment' = payment /\ recon' = recon
            /\ attempt' \in {attempt, "reconciliation_required"}
         \/ Reconciling
  BY OnlyFinalizeFinalizes
<1>3. PaidBack \subseteq PaidBack'
  BY AmountsKept
<1>4. /\ Finalized \subseteq PaidBack /\ Finalized \in SUBSET Keys
      /\ Worth(PaidBack, rows) \in Nat
  BY Nested DEF Finalized
<1>5. PaidBack' \subseteq Finalized' =>
        /\ Finalized' = Finalized /\ PaidBack \subseteq Finalized
        /\ Worth(Finalized', rows') = Worth(Finalized, rows)
  BY <1>1, <1>2, <1>3, <1>4
<1>6. CASE /\ payment' = payment /\ recon' = recon
           /\ attempt' \in {attempt, "reconciliation_required"}
  <2>1. MoneyInv'
    BY <1>1, <1>2, <1>4, <1>6, RefundAssumption DEF MoneyInv
  <2>2. BooksInv'
    BY <1>5, <1>6 DEF BooksInv
  <2> QED
    BY <2>1, <2>2
<1>7. CASE LookUp
  <2>1. payment' = payment /\ attempt' = attempt
    BY <1>7 DEF LookUp
  <2>2. recon' = "completed" => PaidBack = {}
    BY <1>7 DEF LookUp, PaidBack
  <2>3. recon' = "completed" => Finalized' = {} /\ payment \in {"unpaid", "paid"}
    <3>1. PaidBack = {} => Finalized' = {} /\ Worth(PaidBack, rows) = 0
      BY <1>2, <1>4, WorthEmpty
    <3>2. Worth(PaidBack, rows) = 0 => payment \in {"unpaid", "paid"}
      BY RefundAssumption DEF MoneyInv, Wiring, TypeOK, Payments
    <3> QED
      BY <2>2, <3>1, <3>2
  <2>4. MoneyInv'
    BY <1>1, <1>4, <2>1, <2>3, RefundAssumption DEF MoneyInv
  <2>5. BooksInv'
    BY <1>5, <2>1 DEF BooksInv
  <2> QED
    BY <2>4, <2>5
<1>8. CASE Reconcile
  <2>1. /\ recon' = "none"
        /\ payment' = IF recon = "completed" THEN "paid" ELSE payment
        /\ attempt' \in {"captured", "reconciliation_required"}
    BY <1>8 DEF Reconcile
  <2>2. recon = "completed" => Finalized' = {}
    BY <1>2 DEF MoneyInv
  <2>3. MoneyInv'
    BY <1>1, <1>4, <2>1, RefundAssumption DEF MoneyInv
  <2>4. BooksInv'
    BY <1>5, <2>1, <2>2 DEF BooksInv
  <2> QED
    BY <2>3, <2>4
<1>9. CASE ReconcileAborts
  <2>1. recon' = "none" /\ payment' = payment /\ attempt' = attempt
    BY <1>9 DEF ReconcileAborts
  <2>2. MoneyInv'
    BY <1>1, <1>4, <2>1, RefundAssumption DEF MoneyInv
  <2>3. BooksInv'
    BY <1>5, <2>1 DEF BooksInv
  <2> QED
    BY <2>2, <2>3
<1> QED
  BY <1>2, <1>6, <1>7, <1>8, <1>9 DEF Reconciling

LEMMA MoneyStep ==
  Wiring /\ Wiring' /\ MoneyInv /\ BooksInv /\ [Next]_vars => MoneyInv' /\ BooksInv'
  BY PrepareMoney, FinalizeMoney, OtherMoney

THEOREM MoneyHolds == ASSUME Exact PROVE Spec => [](Wiring /\ MoneyInv /\ BooksInv)
  BY WiringInit, WiringStep, MoneyInit, MoneyStep, PTL DEF Spec

-----------------------------------------------------------------------------
(* What the books promise.                                                   *)

\* For any number of keys, parallel requests, retries and lost answers: what
\* PayPal has paid back or may still pay back is within what it captured.
THEOREM WithinCapture == ASSUME Exact PROVE Spec => []ProviderWithinCapture
<1>1. Wiring /\ MoneyInv => ProviderWithinCapture
  <2> SUFFICES ASSUME Wiring, MoneyInv PROVE ProviderWithinCapture
    OBVIOUS
  <2> DEFINE Asked == {k \in Keys : provider[k].asked /\ provider[k].status # "FAILED"}
  <2>1. Asked \in SUBSET NotDead /\ NotDead \in SUBSET Keys
    BY DEF Wiring, IntentFirst, NotDead
  <2>2. Worth(Asked, rows) <= Worth(NotDead, rows)
    BY <2>1, WorthMonotone
  <2>3. Worth(Asked, rows) \in Nat /\ Worth(NotDead, rows) \in Nat
    BY <2>1, CoinsFinite
  <2>4. Worth(Asked, rows) <= Captured
    BY <2>2, <2>3, RefundAssumption DEF MoneyInv
  <2> QED
    BY <2>4, TotalIsWorth DEF ProviderWithinCapture
<1> QED
  BY <1>1, MoneyHolds, PTL

\* An order is called refunded, or partially refunded, only for money that
\* PayPal has paid back.
THEOREM RefundBacked == ASSUME Exact PROVE Spec => []RefundIsBacked
<1>1. MoneyInv => RefundIsBacked
  BY TotalIsWorth DEF MoneyInv, RefundIsBacked, PaidBack
<1> QED
  BY <1>1, MoneyHolds, PTL

\* Once all that PayPal paid back is locally final, the order says its sum,
\* whoever finalized what in which order.
THEOREM BooksCorrect == ASSUME Exact PROVE Spec => []BooksAgree
<1>1. Wiring /\ MoneyInv /\ BooksInv => BooksAgree
  <2> SUFFICES ASSUME Wiring, MoneyInv, BooksInv, PaidBack \subseteq Finalized
               PROVE  /\ payment = "refunded" <=> Total(Finalized) = Captured
                      /\ payment = "partially_refunded" <=>
                           Total(Finalized) \in 1 .. Captured - 1
                      /\ attempt = "refunded" => payment = "refunded"
                      /\ attempt = "partially_refunded" =>
                           payment = "partially_refunded"
    BY DEF BooksAgree, PaidBack
  <2>1. Finalized = PaidBack /\ Total(Finalized) = Worth(Finalized, rows)
        /\ Worth(Finalized, rows) \in Nat /\ Worth(Finalized, rows) <= Captured
    <3>1. /\ Finalized \subseteq PaidBack /\ Worth(Finalized, rows) \in Nat
          /\ Worth(PaidBack, rows) \in Nat /\ Worth(NotDead, rows) \in Nat
          /\ Worth(PaidBack, rows) <= Worth(NotDead, rows)
      BY Nested
    <3>2. Finalized = PaidBack
      BY <3>1
    <3>3. Worth(PaidBack, rows) <= Captured
      BY <3>1, RefundAssumption DEF MoneyInv
    <3>4. Total(Finalized) = Worth(Finalized, rows)
      BY TotalIsWorth
    <3> QED
      BY <3>1, <3>2, <3>3, <3>4
  <2>2. Finalized = {} => Worth(Finalized, rows) = 0
    BY WorthEmpty
  <2>3. payment = "refunded" <=> Total(Finalized) = Captured
    BY <2>1, <2>2, RefundAssumption DEF MoneyInv, BooksInv
  <2>4. payment = "partially_refunded" <=> Total(Finalized) \in 1 .. Captured - 1
    BY <2>1, <2>2, RefundAssumption DEF MoneyInv, BooksInv
  <2> QED
    BY <2>3, <2>4 DEF BooksInv
<1> QED
  BY <1>1, MoneyHolds, PTL

\* No step, reconciliation included, makes a refunded order a paid one.
THEOREM NeverPaidAgain == ASSUME Exact PROVE Spec => RefundedNeverPaid
<1>1. Wiring /\ MoneyInv /\ [Next]_vars =>
        [(payment \in {"partially_refunded", "refunded"}) =>
           payment' \in {"partially_refunded", "refunded"}]_vars
  <2> SUFFICES ASSUME Wiring, MoneyInv, [Next]_vars,
                      payment \in {"partially_refunded", "refunded"}
               PROVE  payment' \in {"partially_refunded", "refunded"}
    OBVIOUS
  <2>1. CASE \E c \in Callers : Finalize(c)
    BY <2>1 DEF Finalize
  <2>2. CASE ~ \E c \in Callers : Finalize(c)
    <3>1. payment' = payment \/ Reconciling
      BY <2>2, OnlyFinalizeFinalizes
    <3>2. recon # "completed"
      BY DEF MoneyInv
    <3> QED
      BY <3>1, <3>2 DEF Reconciling, LookUp, Reconcile, ReconcileAborts
  <2> QED
    BY <2>1, <2>2
<1> QED
  BY <1>1, MoneyHolds, PTL DEF Spec, RefundedNeverPaid

-----------------------------------------------------------------------------
(* Amounts, whether PayPal reports the one it was asked for or not.          *)

\* PayPal has reported a refund, and of this amount.
Reported(k, amount) == provider[k].status # "none" /\ provider[k].amount = amount

\* A row that has a refund's identity has the amount reported of that refund.
RowsExact == \A k \in Keys :
    /\ rows[k].id \in Keys => Reported(rows[k].id, rows[k].amount)
    /\ State(k) \in {"provider_succeeded", "locally_finalized"} => rows[k].id \in Keys

\* What is still to be written about a refund is about one PayPal has reported.
CallsReal == \A c \in Callers :
    calls[c].step = "answered" => provider[calls[c].key].status # "none"
MailReal == \A e \in mail : e.type # "REFUNDED" => provider[e.key].status # "none"
HooksReal == \A h \in hooks :
    /\ h.target \in Keys => State(h.target) # "absent"
    /\ h.e.type # "REFUNDED" => Reported(h.e.key, rows[h.target].amount)

Amounts == TypeOK /\ RowsExact /\ CallsReal /\ MailReal /\ HooksReal

\* What PayPal has reported it does not take back, and an intent keeps its amount.
ReportsStay == \A k \in Keys, a \in 0 .. Captured : Reported(k, a) => Reported(k, a)'
IntentsStay == \A k \in Keys : State(k) # "absent" =>
    rows'[k].state # "absent" /\ rows'[k].amount = rows[k].amount

LEMMA HearsayStays ==
  ASSUME Amounts, TypeOK', ReportsStay, IntentsStay
  PROVE  /\ \A c \in Callers : calls'[c] = calls[c] \/ calls'[c].step # "answered" =>
              (calls'[c].step = "answered" => provider'[calls'[c].key].status # "none")
         /\ \A e \in mail : e.type # "REFUNDED" => provider'[e.key].status # "none"
         /\ \A h \in hooks : /\ h.target \in Keys => rows'[h.target].state # "absent"
                             /\ h.e.type # "REFUNDED" => Reported(h.e.key, rows[h.target].amount)'
<1>1. /\ provider \in [Keys -> Sides] /\ calls \in [Callers -> Requests]
      /\ mail \subseteq Events /\ hooks \subseteq Handlers /\ rows \in [Keys -> RefundRows]
  BY DEF Amounts, TypeOK
<1>2. \A k \in Keys : provider[k].amount \in 0 .. Captured  BY <1>1 DEF Sides
<1>3. \A k \in Keys : provider[k].status # "none" => provider'[k].status # "none"
  BY <1>2 DEF ReportsStay, Reported
<1>4. ASSUME NEW c \in Callers, calls'[c] = calls[c] \/ calls'[c].step # "answered",
             calls'[c].step = "answered"
      PROVE  provider'[calls'[c].key].status # "none"
  <2>1. calls[c].key \in Keys  BY <1>1, <1>4 DEF Requests, Idle
  <2>2. QED  BY <1>3, <1>4, <2>1 DEF Amounts, CallsReal
<1>5. ASSUME NEW e \in mail, e.type # "REFUNDED" PROVE provider'[e.key].status # "none"
  BY <1>1, <1>3, <1>5 DEF Amounts, MailReal, Events
<1>6. ASSUME NEW h \in hooks
      PROVE  /\ h.target \in Keys => rows'[h.target].state # "absent"
             /\ h.e.type # "REFUNDED" => Reported(h.e.key, rows[h.target].amount)'
  <2>1. h.target \in Keys =>
          /\ rows[h.target].amount \in 0 .. Captured
          /\ rows'[h.target].state # "absent" /\ rows'[h.target].amount = rows[h.target].amount
    BY <1>1 DEF Amounts, HooksReal, IntentsStay, RefundRows
  <2>2. h.e.type # "REFUNDED" => h.e.key \in Keys /\ h.target \in Keys  BY <1>1 DEF Handlers
  <2>3. QED  BY <2>1, <2>2 DEF Amounts, HooksReal, ReportsStay, Reported
<1>7. QED  BY <1>4, <1>5, <1>6

\* A row written with the identity it had, or with a reported refund's.
LEMMA ExactWritten ==
  ASSUME Amounts, provider' = provider, NEW k \in Keys, NEW s \in RefundStates,
         NEW id \in Identities, rows' = Outcome(k, s, id),
         id \in Keys => Reported(id, rows[k].amount),
         s \in {"provider_succeeded", "locally_finalized"} => id \in Keys
  PROVE  RowsExact' /\ ReportsStay /\ IntentsStay
<1>1. /\ rows'[k].state = s /\ rows'[k].id = id /\ rows'[k].amount = rows[k].amount
      /\ \A j \in Keys \ {k} : rows'[j] = rows[j]
  BY DEF Amounts, TypeOK, Outcome, RefundRows
<1>2. s # "absent"  BY DEF RefundStates
<1>3. RowsExact'  BY <1>1 DEF Amounts, RowsExact, Reported, State
<1>4. QED  BY <1>1, <1>2, <1>3 DEF ReportsStay, Reported, IntentsStay, State

\* Nothing changes that the amounts are about.
LEMMA ExactKept ==
  ASSUME Amounts, rows' = rows, \A k \in Keys : provider'[k].status = provider[k].status
                                             /\ provider'[k].amount = provider[k].amount
  PROVE  RowsExact' /\ ReportsStay /\ IntentsStay
<1>1. RowsExact'  BY DEF Amounts, RowsExact, Reported, State
<1>2. QED  BY <1>1 DEF ReportsStay, Reported, IntentsStay, State

LEMMA RequestAmounts ==
  ASSUME Amounts, Requesting, TypeOK' PROVE Amounts'
<1>1. PICK c \in Callers :
        \/ \E k \in Keys : Prepare(c, k) \/ Replay(c, k)
        \/ Post(c) \/ Answer(c) \/ Catch(c) \/ Record(c) \/ RecordMismatch(c)
        \/ Finalize(c) \/ FinalizeRefused(c) \/ Crash(c)
  BY DEF Requesting
<1>2. /\ provider \in [Keys -> Sides] /\ calls \in [Callers -> Requests]
      /\ rows \in [Keys -> RefundRows] /\ mail' = mail /\ hooks' = hooks
  BY <1>1 DEF Amounts, TypeOK, Prepare, Replay, Post, Answer, Catch, Record, RecordMismatch,
              Finalize, FinalizeRefused, Crash
<1>3. calls[c].step \in {"posting", "answered", "recorded"} => calls[c].key \in Keys
  BY <1>2 DEF Requests, Idle
<1>4. RowsExact' /\ ReportsStay /\ IntentsStay
  <2>1. ASSUME NEW k \in Keys, Prepare(c, k) PROVE RowsExact' /\ ReportsStay /\ IntentsStay
    <3>1. PICK a \in Money :
            rows' = [rows EXCEPT ![k] = [state |-> "requested", amount |-> a, id |-> NoRefund]]
      BY <2>1 DEF Prepare
    <3>2. State(k) = "absent" /\ provider' = provider  BY <2>1 DEF Prepare
    <3>3. /\ rows'[k] = [state |-> "requested", amount |-> a, id |-> NoRefund]
          /\ \A j \in Keys \ {k} : rows'[j] = rows[j]
      BY <1>2, <3>1
    <3>4. RowsExact'
      BY <3>2, <3>3, RefundAssumption DEF Amounts, RowsExact, Reported, State
    <3>5. QED  BY <3>2, <3>3, <3>4 DEF ReportsStay, Reported, IntentsStay, State
  <2>2. ASSUME NEW k \in Keys, Replay(c, k) PROVE rows' = rows /\ provider' = provider
    BY <2>2 DEF Replay
  <2>3. CASE Post(c)
    <3>1. calls[c].key \in Keys /\ rows' = rows
          /\ provider' = [provider EXCEPT ![calls[c].key].asked = TRUE]
      BY <1>3, <2>3 DEF Post
    <3>2. \A k \in Keys : provider'[k].status = provider[k].status
                       /\ provider'[k].amount = provider[k].amount
      BY <1>2, <3>1 DEF Sides
    <3>3. QED  BY <3>1, <3>2, ExactKept
  <2>4. CASE rows' = rows /\ provider' = provider  BY <2>4, ExactKept
  <2>5. CASE Catch(c)
    <3> DEFINE k == calls[c].key
    <3>1. k \in Keys /\ rows' = SetState(k, "reconciliation_required") /\ provider' = provider
      BY <1>3, <2>5 DEF Catch
    <3>2. "reconciliation_required" \in RefundStates  BY DEF RefundStates
    <3>3. rows' = Outcome(k, "reconciliation_required", rows[k].id)
      BY <3>1, <3>2, StateWritten DEF Amounts
    <3>4. rows[k].id \in Identities  BY <1>2, <3>1 DEF RefundRows
    <3> HIDE DEF k
    <3>5. QED  BY <3>1, <3>2, <3>3, <3>4, ExactWritten DEF Amounts, RowsExact
  <2>6. CASE Record(c)
    <3> DEFINE k == calls[c].key
               s == LocalState(calls[c].seen)
    <3>1. k \in Keys /\ calls[c].seen \in Outcomes
      BY <1>2, <2>6 DEF Record, Requests, Idle
    <3>2. rows' = Outcome(k, s, k) /\ provider' = provider /\ SameAmount(k)
          /\ calls[c].step = "answered"
      BY <2>6 DEF Record
    <3>3. s \in RefundStates  BY <3>1, LocalStateType
    <3>4. Reported(k, rows[k].amount)
      BY <3>2 DEF Amounts, CallsReal, SameAmount, Reported
    <3> HIDE DEF k, s
    <3>5. QED  BY <3>1, <3>2, <3>3, <3>4, ExactWritten DEF Identities
  <2>7. CASE Finalize(c)
    <3> DEFINE k == calls[c].key
    <3>1. k \in Keys /\ rows' = SetState(k, "locally_finalized") /\ provider' = provider
          /\ State(k) = "provider_succeeded"
      BY <1>3, <2>7 DEF Finalize
    <3>2. "locally_finalized" \in RefundStates  BY DEF RefundStates
    <3>3. rows' = Outcome(k, "locally_finalized", rows[k].id)
      BY <3>1, <3>2, StateWritten DEF Amounts
    <3>4. rows[k].id \in Keys  BY <3>1 DEF Amounts, RowsExact
    <3> HIDE DEF k
    <3>5. QED  BY <3>1, <3>2, <3>3, <3>4, ExactWritten DEF Amounts, RowsExact, Identities
  <2>8. QED
    BY <1>1, <2>1, <2>2, <2>3, <2>4, <2>5, <2>6, <2>7
       DEF Answer, RecordMismatch, FinalizeRefused, Crash
<1>5. \A d \in Callers : \/ calls'[d] = calls[d] \/ calls'[d].step # "answered"
                         \/ Answer(d)
  <2>1. ASSUME NEW k \in Keys, Prepare(c, k) \/ Replay(c, k)
        PROVE  calls'[c].step # "answered" /\ \A d \in Callers \ {c} : calls'[d] = calls[d]
    BY <1>2, <2>1 DEF Prepare, Replay
  <2>2. CASE Post(c)  BY <2>2 DEF Post
  <2>3. CASE Answer(c)
    <3>1. \A d \in Callers \ {c} : calls'[d] = calls[d]  BY <1>2, <2>3 DEF Answer
    <3>2. QED  BY <2>3, <3>1
  <2>4. ASSUME calls' = Ends(c) \/ calls' = Step(c, "recorded"), calls[c] # Idle
        PROVE  calls'[c].step # "answered" /\ \A d \in Callers \ {c} : calls'[d] = calls[d]
    BY <1>2, <2>4 DEF Ends, Step, Idle, Requests
  <2>5. ASSUME Catch(c) \/ Record(c) \/ RecordMismatch(c) \/ Finalize(c) \/ FinalizeRefused(c)
                 \/ Crash(c)
        PROVE  (calls' = Ends(c) \/ calls' = Step(c, "recorded")) /\ calls[c] # Idle
    BY <2>5 DEF Catch, Record, RecordMismatch, Finalize, FinalizeRefused, Crash, Idle
  <2>6. QED  BY <1>1, <2>1, <2>2, <2>3, <2>4, <2>5
<1>6. CallsReal'
  <2> SUFFICES ASSUME NEW d \in Callers, calls'[d].step = "answered"
               PROVE  provider'[calls'[d].key].status # "none"
    BY DEF CallsReal
  <2>1. CASE calls'[d] = calls[d]  BY <1>4, <2>1, HearsayStays
  <2>2. CASE Answer(d)  BY <1>2, <2>2 DEF Answer
  <2>3. QED  BY <1>5, <2>1, <2>2
<1>7. MailReal' /\ HooksReal'
  BY <1>2, <1>4, HearsayStays DEF MailReal, HooksReal, State
<1>8. QED  BY <1>4, <1>6, <1>7 DEF Amounts

LEMMA WebhookAmounts ==
  ASSUME Amounts, Webhooks, TypeOK' PROVE Amounts'
<1>1. calls' = calls /\ provider' = provider /\ mail' \subseteq mail
  BY DEF Webhooks, HookReads, HookWrites, HookFlags, HookFails
<1>2. hooks \subseteq Handlers /\ rows \in [Keys -> RefundRows] /\ mail \subseteq Events
  BY DEF Amounts, TypeOK
<1>3. CASE HookReads
  <2>1. PICK e \in mail, k \in Identities :
          /\ Candidates(e) = {k} \/ (e.type = "REFUNDED" /\ k = NoRefund)
          /\ hooks' = hooks \cup
               {[e |-> e, target |-> k,
                 open |-> e.type = "REFUNDED" /\ attempt = "reconciliation_required"]}
    BY <1>3 DEF HookReads
  <2>2. rows' = rows /\ RowsExact' /\ ReportsStay /\ IntentsStay
    BY <1>1, <1>3, ExactKept DEF HookReads
  <2>3. k \in Keys \/ e.type # "REFUNDED" => k \in Candidates(e)
    BY <2>1, RefundAssumption
  <2>4. (k \in Keys => State(k) # "absent")
        /\ (e.type # "REFUNDED" => rows[k].amount = provider[e.key].amount)
    BY <2>3 DEF Candidates
  <2>5. e.type # "REFUNDED" => Reported(e.key, rows[k].amount)
    BY <2>4 DEF Amounts, MailReal, Reported
  <2>6. HooksReal'
    BY <1>1, <2>1, <2>2, <2>4, <2>5 DEF Amounts, HooksReal, Reported, State
  <2>7. CallsReal' /\ MailReal'
    BY <1>1, <2>2, HearsayStays DEF CallsReal, MailReal
  <2>8. QED  BY <2>2, <2>6, <2>7 DEF Amounts
<1>4. CASE ~HookReads
  <2>1. hooks' \subseteq hooks  
    BY <1>4 DEF Webhooks, HookWrites, HookFlags, HookFails
  <2>2. RowsExact' /\ ReportsStay /\ IntentsStay
    <3>1. CASE HookWrites
      <4>1. PICK h \in hooks : h.e.type # "REFUNDED"
                               /\ rows' = Outcome(h.target, LocalState(h.e.type), h.e.key)
        BY <3>1 DEF HookWrites
      <4>2. h.target \in Keys /\ h.e.type \in Outcomes /\ h.e.key \in Keys
        BY <1>2, <4>1 DEF Handlers
      <4>3. Reported(h.e.key, rows[h.target].amount)  BY <4>1 DEF Amounts, HooksReal
      <4>4. LocalState(h.e.type) \in RefundStates  BY <4>2, LocalStateType
      <4>5. QED  BY <1>1, <4>1, <4>2, <4>3, <4>4, ExactWritten DEF Identities
    <3>2. CASE HookFlags
      <4>1. PICK h \in hooks : rows' = IF h.target = NoRefund THEN rows
                                       ELSE SetState(h.target, "reconciliation_required")
        BY <3>2 DEF HookFlags
      <4>2. CASE h.target = NoRefund  BY <1>1, <4>1, <4>2, ExactKept
      <4>3. CASE h.target # NoRefund
        <5>1. h.target \in Keys /\ "reconciliation_required" \in RefundStates
          BY <1>2, <4>3 DEF Handlers, Identities, RefundStates
        <5>2. rows' = Outcome(h.target, "reconciliation_required", rows[h.target].id)
          BY <4>1, <4>3, <5>1, StateWritten DEF Amounts
        <5>3. rows[h.target].id \in Identities  BY <1>2, <5>1 DEF RefundRows
        <5>4. QED  BY <1>1, <5>1, <5>2, <5>3, ExactWritten DEF Amounts, RowsExact
      <4>4. QED  BY <4>2, <4>3
    <3>3. CASE HookFails  BY <1>1, <3>3, ExactKept DEF HookFails
    <3>4. QED  BY <1>4, <3>1, <3>2, <3>3 DEF Webhooks
  <2>3. CallsReal' /\ MailReal' /\ HooksReal'
    BY <1>1, <2>1, <2>2, HearsayStays DEF CallsReal, MailReal, HooksReal, State
  <2>4. QED  BY <2>2, <2>3 DEF Amounts
<1>5. QED  BY <1>3, <1>4

LEMMA WorldAmounts ==
  ASSUME Amounts, World, TypeOK' PROVE Amounts'
<1>1. PICK k \in Keys, s \in Outcomes :
        Decides(k, s) /\ provider[k].status \in {"none", "PENDING"}
  BY DecidesFacts DEF Amounts
<1>2. /\ rows' = rows /\ calls' = calls /\ hooks' = hooks
      /\ mail' \subseteq mail \cup {[type |-> s, key |-> k],
                                   [type |-> "REFUNDED", key |-> NoRefund]}
  BY <1>1 DEF Decides
<1>3. /\ provider'[k].status = s
      /\ provider[k].status # "none" => provider'[k].amount = provider[k].amount
      /\ \A j \in Keys \ {k} : provider'[j] = provider[j]
  BY <1>1 DEF Decides, Amounts, TypeOK
<1>4. s # "none"  BY DEF Outcomes
<1>5. ReportsStay /\ IntentsStay
  BY <1>2, <1>3, <1>4 DEF ReportsStay, Reported, IntentsStay, State
<1>6. RowsExact'
  BY <1>2, <1>3, <1>4 DEF Amounts, RowsExact, Reported, State
<1>7. CallsReal' /\ HooksReal'
  BY <1>2, <1>5, HearsayStays DEF CallsReal, HooksReal, State
<1>8. MailReal'
  <2> SUFFICES ASSUME NEW e \in mail', e.type # "REFUNDED" PROVE provider'[e.key].status # "none"
    BY DEF MailReal
  <2>1. CASE e \in mail  BY <1>5, <2>1, HearsayStays
  <2>2. CASE e = [type |-> s, key |-> k]  BY <1>3, <1>4, <2>2
  <2>3. QED  BY <1>2, <2>1, <2>2
<1>9. QED  BY <1>6, <1>7, <1>8 DEF Amounts

(* No refund is taken for done with another amount than PayPal reports of  *)
(* it, even if PayPal reports amounts it was not asked for: the answer is   *)
(* compared and a webhook picks the row by the amount.                      *)
THEOREM FinalizedExact == Spec => []FinalizedIsExact
<1>1. Init => Amounts
  <2> SUFFICES ASSUME Init PROVE Amounts  OBVIOUS
  <2>1. RowsExact /\ CallsReal /\ MailReal /\ HooksReal
    BY RefundAssumption DEF Init, RowsExact, CallsReal, MailReal, HooksReal, State, Idle
  <2>2. QED  BY <2>1, TypeInit DEF Amounts
<1>2. Amounts /\ [Next]_vars => Amounts'
  <2> SUFFICES ASSUME Amounts, [Next]_vars PROVE Amounts'  OBVIOUS
  <2>1. TypeOK'  BY TypeStep DEF Amounts
  <2>2. CASE Reconciling \/ UNCHANGED vars
    <3>1. UNCHANGED <<rows, provider, calls, mail, hooks>>
      BY <2>2 DEF Reconciling, LookUp, Reconcile, ReconcileAborts, vars
    <3>2. RowsExact' /\ ReportsStay /\ IntentsStay  BY <3>1, ExactKept
    <3>3. CallsReal' /\ MailReal' /\ HooksReal'
      BY <2>1, <3>1, <3>2, HearsayStays DEF CallsReal, MailReal, HooksReal, State
    <3>4. QED  BY <2>1, <3>2, <3>3 DEF Amounts
  <2>3. QED  BY <2>1, <2>2, RequestAmounts, WebhookAmounts, WorldAmounts DEF Next
<1>3. Amounts => FinalizedIsExact
  BY DEF Amounts, RowsExact, Reported, FinalizedIsExact, Finalized
<1>4. QED  BY <1>1, <1>2, <1>3, PTL DEF Spec

=============================================================================
