--------------------------- MODULE PrintQueue_proofs ---------------------------
(***************************************************************************)
(* That no copy is printed without a cause, for any number of requests,    *)
(* retries and restarts.  The argument counts permissions to print: a job   *)
(* that waits is one, and so is a dispatcher that has claimed it and does    *)
(* not yet know what came of it.  Only staff make new ones.                 *)
(***************************************************************************)
EXTENDS PrintQueue, FiniteSetTheorems, TLAPS

\* Dispatchers that hold a permission: they may still print, or let the job wait again.
Holding == {"send", "failed", "create"}
Holders == {d \in Dispatchers : work[d].at \in Holding}
Held == Cardinality(Holders)
Waits(j) == IF row[j].status \in Claimable THEN 1 ELSE 0
Unqueued == IF row["first"].status = "none" THEN 1 ELSE 0

Budget ==
    copies + Unqueued + Waits("first") + Waits("fallback") + Held
      <= 1 + asked + unheard

\* A waiting job may be tried again.
WaitersHaveTries == \A j \in Jobs : row[j].status \in Claimable => row[j].tries < MaxRetries

TypeInv == TypeOK /\ WaitersHaveTries
Inv == TypeInv /\ Budget

-----------------------------------------------------------------------------
(* Types.                                                                  *)

LEMMA Constants ==
    /\ IsFiniteSet(Dispatchers) /\ MaxRetries \in Nat \ {0} /\ MaxAsked \in Nat
    /\ MaxUnheard \in Nat /\ MaxCrashes \in Nat /\ Requests \subseteq Dispatchers
    /\ Worker \in Dispatchers
<1>1. IsFiniteSet(Requests \cup {Worker})
  BY PrintQueueAssumption, FS_AddElement
<1> QED
  BY <1>1, PrintQueueAssumption DEF Dispatchers

\* A row as a write leaves it.
LEMMA WriteType ==
    ASSUME TypeInv, NEW j \in Jobs, NEW r \in Rows, row' = [row EXCEPT ![j] = r],
           r.status \in Claimable => r.tries < MaxRetries
    PROVE  row' \in [Jobs -> Rows] /\ WaitersHaveTries'
  BY DEF TypeInv, TypeOK, WaitersHaveTries

\* A dispatcher as a step leaves it.
LEMMA WorkType ==
    ASSUME TypeInv, NEW d \in Dispatchers, NEW w \in Works \cup {Idle}, work' = [work EXCEPT ![d] = w]
    PROVE  work' \in [Dispatchers -> Works \cup {Idle}]
  BY DEF TypeInv, TypeOK

\* A dispatcher at work is a record of its type.
LEMMA AtWork ==
    ASSUME TypeInv, NEW d \in Dispatchers, work[d].at # "idle"
    PROVE  /\ work[d] \in Works /\ work[d].job \in Jobs /\ work[d].tries \in 0..(MaxRetries - 1)
           /\ \A s \in Steps : [work[d] EXCEPT !.at = s] \in Works
<1>1. work[d] \in Works \cup {Idle}
  BY DEF TypeInv, TypeOK
<1>2. work[d] # Idle
  BY DEF Idle
<1> QED
  BY <1>1, <1>2, SMT DEF Works

\* A step that ends leaves a dispatcher idle, one that goes on at a step.
LEMMA GotoType ==
    ASSUME TypeInv, NEW d \in Dispatchers, work[d].at # "idle", NEW s \in Steps,
           Goto(d, s) \/ Ends(d)
    PROVE  work' \in [Dispatchers -> Works \cup {Idle}]
<1>1. CASE Goto(d, s)
  <2>1. work' = [work EXCEPT ![d] = [work[d] EXCEPT !.at = s]]
    BY <1>1 DEF Goto
  <2> QED
    BY <2>1, AtWork, WorkType
<1>2. CASE Ends(d)
  BY <1>2, WorkType DEF Ends
<1> QED
  BY <1>1, <1>2

LEMMA BeginType ==
    ASSUME TypeInv, NEW d \in Dispatchers, NEW j \in Jobs, NEW n \in 0..(MaxRetries - 1),
           NEW fits \in BOOLEAN, NEW s \in Steps, Begin(d, s, j, n, fits)
    PROVE  work' \in [Dispatchers -> Works \cup {Idle}]
<1>1. [at |-> s, job |-> j, tries |-> n, fits |-> fits] \in Works
  BY DEF Works
<1> QED
  BY <1>1, WorkType DEF Begin

\* What Write leaves.
LEMMA RowWrites ==
    ASSUME TypeInv, NEW j \in Jobs, NEW st \in {"none", "sending"} \cup Claimable \cup Settled,
           NEW n \in 0..MaxRetries, NEW e \in Errors, Write(j, st, n, e),
           st \in Claimable => n < MaxRetries
    PROVE  row' \in [Jobs -> Rows] /\ WaitersHaveTries'
<1> DEFINE r == [status |-> st, tries |-> n, error |-> e]
<1>1. r \in Rows /\ row' = [row EXCEPT ![j] = r]
  BY DEF Rows, Write
<1>2. r.status = st /\ r.tries = n
  OBVIOUS
<1> HIDE DEF r
<1> QED
  BY <1>1, <1>2, WriteType

\* What a new row leaves.
LEMMA NewRowType ==
    ASSUME TypeInv, NEW j \in Jobs, row' = [row EXCEPT ![j] = NewRow]
    PROVE  row' \in [Jobs -> Rows] /\ WaitersHaveTries'
<1>1. NewRow = [status |-> "queued", tries |-> 0, error |-> "none"]
  BY DEF NewRow, NoRow
<1>2. NewRow \in Rows /\ NewRow.tries < MaxRetries
  BY <1>1, Constants, SMT DEF Rows, Claimable, Errors
<1> QED
  BY <1>2, WriteType

\* Retry and Rerouted, which Failed, Create and Mark end with.
LEMMA RetryType ==
    ASSUME TypeInv, NEW d \in Dispatchers, work[d].at # "idle", Retry(d)
    PROVE  /\ row' \in [Jobs -> Rows] /\ WaitersHaveTries'
           /\ work' \in [Dispatchers -> Works \cup {Idle}]
<1>1. work[d].job \in Jobs /\ work[d].tries \in 0..(MaxRetries - 1)
  BY AtWork
<1>2. work' \in [Dispatchers -> Works \cup {Idle}]
  BY WorkType DEF Retry, Ends
<1>3. CASE Exhausted(work[d].tries)
  <2>1. Write(work[d].job, "failed", work[d].tries + 1, "exhausted")
    BY <1>3 DEF Retry
  <2>2. work[d].tries + 1 \in 0..MaxRetries
    BY <1>1, Constants, SMT
  <2> QED
    BY <1>1, <1>2, <2>1, <2>2, RowWrites DEF Claimable, Settled, Errors
<1>4. CASE ~Exhausted(work[d].tries)
  <2>1. Write(work[d].job, "retrying", work[d].tries + 1, "none")
    BY <1>4 DEF Retry
  <2>2. work[d].tries + 1 \in 0..MaxRetries /\ work[d].tries + 1 < MaxRetries
    BY <1>1, <1>4, Constants, SMT DEF Exhausted
  <2> QED
    BY <1>1, <1>2, <2>1, <2>2, RowWrites DEF Claimable, Settled, Errors
<1> QED
  BY <1>3, <1>4

LEMMA ReroutedType ==
    ASSUME TypeInv, NEW d \in Dispatchers, work[d].at # "idle", Rerouted(d)
    PROVE  row' \in [Jobs -> Rows] /\ WaitersHaveTries'
<1>1. work[d].job \in Jobs /\ work[d].tries + 1 \in 0..MaxRetries
  BY AtWork, Constants, SMT
<1>2. Write(work[d].job, "failed", work[d].tries + 1, "rerouted")
  BY DEF Rerouted
<1> QED
  BY <1>1, <1>2, RowWrites DEF Claimable, Settled, Errors

\* A row of which only the status changes, to one that does not wait.
LEMMA StatusType ==
    ASSUME TypeInv, NEW j \in Jobs, NEW r \in Rows, r.status \notin Claimable,
           row' = [row EXCEPT ![j] = r]
    PROVE  row' \in [Jobs -> Rows] /\ WaitersHaveTries'
  BY WriteType

\* What the fields of a row are.
LEMMA RowFields == \A r \in Rows : r.tries \in 0..MaxRetries /\ r.error \in Errors
  BY DEF Rows

\* The type invariant, step by step.
LEMMA TypeStep == TypeInv /\ [Next]_vars => TypeInv'
<1> SUFFICES ASSUME TypeInv, [Next]_vars PROVE TypeInv'
  OBVIOUS
<1>0. /\ row \in [Jobs -> Rows] /\ printer \in [Jobs -> BOOLEAN]
      /\ work \in [Dispatchers -> Works \cup {Idle}]
      /\ list \subseteq [job : Jobs, tries : 0..(MaxRetries - 1)]
      /\ copies \in Nat /\ unheard \in 0..MaxUnheard /\ asked \in 0..MaxAsked
      /\ crashes \in 0..MaxCrashes /\ crowded \in BOOLEAN
  BY DEF TypeInv, TypeOK
<1> DEFINE RW == /\ row' \in [Jobs -> Rows] /\ WaitersHaveTries'
                 /\ work' \in [Dispatchers -> Works \cup {Idle}]
<1>a. ASSUME RW, UNCHANGED World PROVE TypeInv'
  BY <1>0, <1>a DEF TypeInv, TypeOK, World
<1>b. ASSUME UNCHANGED row PROVE row' \in [Jobs -> Rows] /\ WaitersHaveTries'
  BY <1>0, <1>b DEF TypeInv, WaitersHaveTries
<1>c. ASSUME NEW d \in Dispatchers, NEW j \in Jobs, NEW n \in 0..(MaxRetries - 1),
             NEW fits \in BOOLEAN, Begin(d, "dispatch", j, n, fits)
      PROVE  work' \in [Dispatchers -> Works \cup {Idle}]
  BY <1>c, BeginType DEF Steps
<1>1. ASSUME NEW d \in Dispatchers, Queue(d) PROVE TypeInv'
  <2>1. CASE row' = [row EXCEPT !["first"] = NewRow] /\ Begin(d, "dispatch", "first", 0, TRUE)
    <3>1. 0 \in 0..(MaxRetries - 1) /\ "first" \in Jobs
      BY Constants, SMT DEF Jobs
    <3> QED
      BY <1>1, <1>a, <1>c, <2>1, <3>1, NewRowType DEF Queue
  <2>2. CASE Write("first", "failed", 0, "no_route") /\ UNCHANGED work
    <3>1. 0 \in 0..MaxRetries /\ "first" \in Jobs
      BY Constants, SMT DEF Jobs
    <3>2. row' \in [Jobs -> Rows] /\ WaitersHaveTries'
      BY <2>2, <3>1, RowWrites DEF Claimable, Settled, Errors
    <3> QED
      BY <1>0, <1>1, <1>a, <2>2, <3>2 DEF Queue
  <2> QED
    BY <1>1, <2>1, <2>2 DEF Queue
<1>2. ASSUME NEW d \in Requests, NEW j \in Jobs, Ask(d, j) PROVE TypeInv'
  <2>1. 0 \in 0..(MaxRetries - 1) /\ 0 < MaxRetries /\ 0 \in 0..MaxRetries /\ d \in Dispatchers
    BY Constants, SMT
  <2>2. row' \in [Jobs -> Rows] /\ WaitersHaveTries'
    BY <1>2, <2>1, RowWrites DEF Ask, Claimable, Errors
  <2>3. PICK fits \in BOOLEAN : Begin(d, "dispatch", j, 0, fits)
    BY <1>2 DEF Ask
  <2>4. work' \in [Dispatchers -> Works \cup {Idle}]
    BY <1>c, <2>1, <2>3
  <2>5. asked' \in 0..MaxAsked /\ UNCHANGED <<printer, list, copies, unheard, crashes, crowded>>
    BY <1>0, <1>2, Constants, SMT DEF Ask
  <2> QED
    BY <1>0, <2>2, <2>4, <2>5 DEF TypeInv, TypeOK
<1>3. CASE Tick
  <2>1. \A j \in Jobs : row[j].status \in Claimable =>
          [job |-> j, tries |-> row[j].tries] \in [job : Jobs, tries : 0..(MaxRetries - 1)]
    <3> TAKE j \in Jobs
    <3> HAVE row[j].status \in Claimable
    <3>1. row[j].tries < MaxRetries /\ row[j].tries \in 0..MaxRetries
      BY <1>0 DEF TypeInv, WaitersHaveTries, Rows
    <3>2. row[j].tries \in 0..(MaxRetries - 1)
      BY <3>1, Constants, SMT
    <3> QED
      BY <3>2
  <2>2. list' \subseteq [job : Jobs, tries : 0..(MaxRetries - 1)]
    <3>1. PICK read \in IF crowded THEN SUBSET Waiting ELSE {Waiting} :
            list' = {[job |-> j, tries |-> row[j].tries] : j \in read}
      BY <1>3 DEF Tick
    <3>2. \A j \in read : j \in Jobs /\ row[j].status \in Claimable
      BY <3>1 DEF Waiting
    <3> QED
      BY <2>1, <3>1, <3>2
  <2>3. UNCHANGED <<row, work, printer, copies, unheard, asked, crashes, crowded>>
    BY <1>3 DEF Tick
  <2> QED
    BY <1>0, <1>b, <2>2, <2>3 DEF TypeInv, TypeOK
<1>4. ASSUME NEW e \in list, Take(e) PROVE TypeInv'
  <2>1. e.job \in Jobs /\ e.tries \in 0..(MaxRetries - 1)
    BY <1>0
  <2>2. work' \in [Dispatchers -> Works \cup {Idle}]
    <3>1. CASE ~printer[e.job]
      BY <1>0, <1>4, <3>1 DEF Take
    <3>2. CASE printer[e.job]
      BY <1>4, <1>c, <2>1, <3>2, Constants DEF Take
    <3> QED
      BY <3>1, <3>2
  <2>3. /\ UNCHANGED <<row, printer, copies, unheard, asked, crashes, crowded>> /\ list' \subseteq list
    BY <1>4 DEF Take
  <2> QED
    BY <1>0, <1>b, <2>2, <2>3 DEF TypeInv, TypeOK
<1>5. ASSUME NEW d \in Dispatchers, Claim(d) PROVE TypeInv'
  <2>1. work[d].at # "idle" /\ work[d].job \in Jobs
    BY <1>5, AtWork DEF Claim, At
  <2> DEFINE j == work[d].job
  <2>2. work' \in [Dispatchers -> Works \cup {Idle}]
    BY <1>5, <2>1, GotoType DEF Claim, Steps
  <2>3. CASE Write(j, "failed", row[j].tries, "scope")
    <3>1. row' \in [Jobs -> Rows] /\ WaitersHaveTries'
      BY <1>0, <2>1, <2>3, RowFields, RowWrites DEF Claimable, Settled, Errors
    <3> QED
      BY <1>5, <1>a, <2>2, <3>1 DEF Claim
  <2>4. CASE Status(j, "sending")
    <3>1. row' = [row EXCEPT ![j] = [row[j] EXCEPT !.status = "sending"]]
      BY <1>0, <2>1, <2>4 DEF Status
    <3>2. /\ [row[j] EXCEPT !.status = "sending"] \in Rows
          /\ [row[j] EXCEPT !.status = "sending"].status \notin Claimable
      BY <1>0, <2>1, SMT DEF Rows, Claimable, Settled, Errors
    <3> QED
      BY <1>5, <1>a, <2>1, <2>2, <3>1, <3>2, StatusType DEF Claim
  <2>5. CASE UNCHANGED row
    BY <1>5, <1>a, <1>b, <2>2, <2>5 DEF Claim
  <2> QED
    BY <1>5, <2>3, <2>4, <2>5 DEF Claim
<1>6. ASSUME NEW d \in Dispatchers, Send(d) PROVE TypeInv'
  <2>1. work[d].at # "idle"
    BY <1>6 DEF Send, At
  <2>2. work' \in [Dispatchers -> Works \cup {Idle}]
    BY <1>6, <2>1, GotoType DEF Send, Steps
  <2>3. copies' \in Nat /\ unheard' \in 0..MaxUnheard
    BY <1>0, <1>6, Constants, SMT DEF Send
  <2>4. UNCHANGED <<row, printer, list, asked, crashes, crowded>>
    BY <1>6 DEF Send
  <2> QED
    BY <1>0, <1>b, <2>2, <2>3, <2>4 DEF TypeInv, TypeOK
<1>7. ASSUME NEW d \in Dispatchers, Printed(d) PROVE TypeInv'
  <2>1. work[d].at # "idle" /\ work[d].job \in Jobs /\ work[d].tries \in 0..(MaxRetries - 1)
    BY <1>7, AtWork DEF Printed, At
  <2>2. work[d].tries + 1 \in 0..MaxRetries /\ row[work[d].job].error \in Errors
    BY <1>0, <2>1, Constants, RowFields, SMT
  <2>3. row' \in [Jobs -> Rows] /\ WaitersHaveTries'
    BY <1>7, <2>1, <2>2, RowWrites DEF Printed, Claimable, Settled
  <2>4. work' \in [Dispatchers -> Works \cup {Idle}]
    BY <1>7, WorkType DEF Printed, Ends
  <2> QED
    BY <1>7, <1>a, <2>3, <2>4 DEF Printed
<1>8. ASSUME NEW d \in Dispatchers, Failed(d) PROVE TypeInv'
  <2>1. work[d].at # "idle" /\ UNCHANGED World
    BY <1>8 DEF Failed, At
  <2>2. CASE Retry(d)
    BY <1>a, <2>1, <2>2, RetryType
  <2>3. CASE Goto(d, "create") /\ UNCHANGED row
    BY <1>a, <1>b, <2>1, <2>3, GotoType DEF Steps
  <2>4. CASE Rerouted(d) /\ Ends(d)
    <3>1. work' \in [Dispatchers -> Works \cup {Idle}]
      BY <2>4, WorkType DEF Ends
    <3> QED
      BY <1>a, <2>1, <2>4, <3>1, ReroutedType
  <2> QED
    BY <1>8, <2>2, <2>3, <2>4 DEF Failed
<1>9. ASSUME NEW d \in Dispatchers, Create(d) PROVE TypeInv'
  <2>1. work[d].at # "idle" /\ UNCHANGED World /\ "fallback" \in Jobs
    BY <1>9 DEF Create, At, Jobs
  <2>2. CASE Retry(d)
    BY <1>a, <2>1, <2>2, RetryType
  <2>3. CASE row' = [row EXCEPT !["fallback"] = NewRow] /\ Goto(d, "mark")
    BY <1>a, <2>1, <2>3, NewRowType, GotoType DEF Steps
  <2> QED
    BY <1>9, <2>2, <2>3 DEF Create
<1>10. ASSUME NEW d \in Dispatchers, Mark(d) PROVE TypeInv'
  <2>1. /\ work[d].at # "idle" /\ UNCHANGED World /\ "fallback" \in Jobs
        /\ 0 \in 0..(MaxRetries - 1)
    BY <1>10, Constants, SMT DEF Mark, At, Jobs
  <2>2. work' \in [Dispatchers -> Works \cup {Idle}]
    BY <1>10, <1>c, <2>1 DEF Mark
  <2> QED
    BY <1>10, <1>a, <2>1, <2>2, ReroutedType DEF Mark
<1>11. ASSUME NEW j \in Jobs, Sweep(j) PROVE TypeInv'
  <2>1. row[j].tries \in 0..MaxRetries
    BY <1>0 DEF Rows
  <2>2. row' \in [Jobs -> Rows] /\ WaitersHaveTries'
    BY <1>11, <2>1, RowWrites DEF Sweep, Stale, Claimable, Settled, Errors
  <2> QED
    BY <1>0, <1>11, <1>a, <2>2 DEF Sweep
<1>12. CASE Crash
  <2>1. work' \in [Dispatchers -> Works \cup {Idle}] /\ list' = {}
    BY <1>12 DEF Crash
  <2>2. crashes' \in 0..MaxCrashes
    BY <1>0, <1>12, Constants, SMT DEF Crash
  <2>3. UNCHANGED <<row, printer, copies, unheard, asked, crowded>>
    BY <1>12 DEF Crash
  <2> QED
    BY <1>0, <1>b, <2>1, <2>2, <2>3 DEF TypeInv, TypeOK
<1>13. ASSUME NEW j \in Jobs, Delete(j) PROVE TypeInv'
  BY <1>0, <1>13, <1>b DEF TypeInv, TypeOK, Delete
<1>14. CASE Crowd \/ UNCHANGED vars
  BY <1>0, <1>14, <1>b DEF TypeInv, TypeOK, Crowd, vars
<1> QED
  BY <1>1, <1>2, <1>3, <1>4, <1>5, <1>6, <1>7, <1>8, <1>9, <1>10, <1>11, <1>12, <1>13, <1>14, Constants
     DEF Next, Dispatch, WorkerStep, Staff

-----------------------------------------------------------------------------
(* The permissions.                                                        *)

LEMMA HoldersFinite ==
    ASSUME TypeInv PROVE IsFiniteSet(Holders) /\ Cardinality(Holders) \in Nat
<1>1. Holders \subseteq Dispatchers
  BY DEF Holders
<1> QED
  BY <1>1, Constants, FS_Subset, FS_CardinalityType

\* What one dispatcher's step makes of their number.
LEMMA HoldersStep ==
    ASSUME TypeInv, NEW d \in Dispatchers, NEW w, work' = [work EXCEPT ![d] = w]
    PROVE  /\ d \notin Holders /\ w.at \in Holding => Held' = Held + 1
           /\ d \in Holders /\ w.at \notin Holding => Held' = Held - 1
           /\ (d \in Holders <=> w.at \in Holding) => Held' = Held
<1>1. /\ w.at \in Holding => Holders' = Holders \cup {d}
      /\ w.at \notin Holding => Holders' = Holders \ {d}
  BY DEF TypeInv, TypeOK, Holders
<1>2. IsFiniteSet(Holders) /\ Cardinality(Holders) \in Nat
  BY HoldersFinite
<1>3. ASSUME d \notin Holders, w.at \in Holding PROVE Held' = Held + 1
  BY <1>1, <1>2, <1>3, FS_AddElement DEF Held
<1>4. ASSUME d \in Holders, w.at \notin Holding PROVE Held' = Held - 1
  BY <1>1, <1>2, <1>4, FS_RemoveElement DEF Held
<1>5. ASSUME d \in Holders <=> w.at \in Holding PROVE Held' = Held
  <2>1. Holders' = Holders
    BY <1>1, <1>5
  <2> QED
    BY <2>1 DEF Held
<1> QED
  BY <1>3, <1>4, <1>5

\* The same for a dispatcher that goes on, that ends, and that begins.
LEMMA HeldGoto ==
    ASSUME TypeInv, NEW d \in Dispatchers, NEW s, Goto(d, s), work[d].at # "idle"
    PROVE  /\ work[d].at \notin Holding /\ s \in Holding => Held' = Held + 1
           /\ work[d].at \in Holding /\ s \notin Holding => Held' = Held - 1
           /\ (work[d].at \in Holding <=> s \in Holding) => Held' = Held
<1> DEFINE w == [work[d] EXCEPT !.at = s]
<1>1. work[d] \in Works
  BY AtWork
<1>2. work' = [work EXCEPT ![d] = w] /\ w.at = s
  BY <1>1 DEF Goto, Works
<1>3. d \in Holders <=> work[d].at \in Holding
  BY DEF Holders
<1> HIDE DEF w
<1> QED
  BY <1>2, <1>3, HoldersStep

LEMMA HeldEnds ==
    ASSUME TypeInv, NEW d \in Dispatchers, Ends(d)
    PROVE  /\ work[d].at \in Holding => Held' = Held - 1
           /\ work[d].at \notin Holding => Held' = Held
<1>1. work' = [work EXCEPT ![d] = Idle] /\ Idle.at = "idle"
  BY DEF Ends, Idle
<1>2. d \in Holders <=> work[d].at \in Holding
  BY DEF Holders
<1> QED
  BY <1>1, <1>2, HoldersStep DEF Holding

LEMMA HeldBegin ==
    ASSUME TypeInv, NEW d \in Dispatchers, work[d].at \notin Holding, NEW j, NEW n, NEW fits,
           Begin(d, "dispatch", j, n, fits)
    PROVE  Held' = Held
<1> DEFINE w == [at |-> "dispatch", job |-> j, tries |-> n, fits |-> fits]
<1>1. work' = [work EXCEPT ![d] = w] /\ w.at = "dispatch"
  BY DEF Begin
<1>2. d \in Holders <=> work[d].at \in Holding
  BY DEF Holders
<1> HIDE DEF w
<1> QED
  BY <1>1, <1>2, HoldersStep DEF Holding

LEMMA HeldType ==
    ASSUME TypeInv PROVE Held \in Nat /\ \A d \in Dispatchers : work[d].at \in Holding => Held # 0
<1>1. ASSUME NEW d \in Dispatchers, work[d].at \in Holding PROVE Held # 0
  <2>1. d \in Holders /\ IsFiniteSet(Holders)
    BY <1>1, HoldersFinite DEF Holders
  <2> QED
    BY <2>1, FS_EmptySet DEF Held
<1> QED
  BY <1>1, HoldersFinite DEF Held

\* The permissions that rows give, in numbers.
Rowed == Unqueued + Waits("first") + Waits("fallback")

LEMMA RowedType == Rowed \in 0..3 /\ Unqueued \in 0..1 /\ \A j \in Jobs : Waits(j) \in 0..1
  BY DEF Rowed, Unqueued, Waits, Jobs

\* What writing one row makes of it.
LEMMA RowedStep ==
    ASSUME TypeInv, NEW j \in Jobs, NEW r, row' = [row EXCEPT ![j] = r], r.status # "none"
    PROVE  /\ Rowed' <= Rowed + 1
           /\ (r.status \notin Claimable => Rowed' <= Rowed)
           /\ (row[j].status \in Claimable => Rowed' <= Rowed)
           /\ (row[j].status \in Claimable /\ r.status \notin Claimable => Rowed' = Rowed - 1)
           /\ (j = "first" /\ row[j].status = "none" => Rowed' <= Rowed)
<1>1. row'[j] = r /\ \A i \in Jobs \ {j} : row'[i] = row[i]
  BY DEF TypeInv, TypeOK
<1>2. "first" \in Jobs /\ "fallback" \in Jobs /\ (j = "first" \/ j = "fallback") /\ "none" \notin Claimable
  BY DEF Jobs, Claimable
<1>3. CASE j = "first"
  <2>1. Waits("fallback")' = Waits("fallback") /\ Unqueued' = 0
    BY <1>1, <1>2, <1>3 DEF Waits, Unqueued
  <2>2. Waits("first")' = IF r.status \in Claimable THEN 1 ELSE 0
    BY <1>1, <1>3 DEF Waits
  <2>3. /\ row[j].status \in Claimable => Waits("first") = 1 /\ Unqueued = 0
        /\ row[j].status = "none" => Unqueued = 1
    BY <1>2, <1>3 DEF Waits, Unqueued
  <2> QED
    BY <1>3, <2>1, <2>2, <2>3, RowedType DEF Rowed, Jobs
<1>4. CASE j = "fallback"
  <2>1. Waits("first")' = Waits("first") /\ Unqueued' = Unqueued
    BY <1>1, <1>2, <1>4 DEF Waits, Unqueued
  <2>2. Waits("fallback")' = IF r.status \in Claimable THEN 1 ELSE 0
    BY <1>1, <1>4 DEF Waits
  <2>3. row[j].status \in Claimable => Waits("fallback") = 1
    BY <1>4 DEF Waits
  <2> QED
    BY <1>4, <2>1, <2>2, <2>3, RowedType DEF Rowed, Jobs
<1> QED
  BY <1>2, <1>3, <1>4

\* The sums of the next proof.
LEMMA Sums ==
    \A c, h, r, m, h2, r2 \in Int :
      c + r + h <= m =>
        /\ (h2 = h /\ r2 <= r) => c + r2 + h2 <= m
        /\ (h2 = h + 1 /\ r2 = r - 1) => c + r2 + h2 <= m
        /\ (h2 = h - 1 /\ r2 <= r + 1) => c + r2 + h2 <= m
        /\ (h2 = h /\ r2 <= r + 1) => c + r2 + h2 <= m + 1
  BY SMT

\* Nothing is printed that the permissions do not cover, step by step.
LEMMA BudgetStep == Inv /\ [Next]_vars => Budget'
<1> SUFFICES ASSUME TypeInv, Budget, [Next]_vars PROVE Budget'
  BY DEF Inv
<1>0. /\ copies + Rowed + Held <= 1 + asked + unheard
      /\ row \in [Jobs -> Rows] /\ work \in [Dispatchers -> Works \cup {Idle}]
      /\ Held \in Nat /\ Rowed \in 0..3 /\ Rowed' \in 0..3
      /\ copies \in Nat /\ unheard \in Nat /\ asked \in Nat
  <2>1. copies + Unqueued + Waits("first") + Waits("fallback") + Held = copies + Rowed + Held
    BY HeldType, RowedType DEF Rowed, TypeInv, TypeOK, Jobs
  <2>2. Rowed' \in 0..3
    BY DEF Rowed, Unqueued, Waits
  <2> QED
    BY <2>1, <2>2, HeldType, RowedType DEF Budget, TypeInv, TypeOK
<1>a. ASSUME copies' + Rowed' + Held' <= 1 + asked' + unheard', copies' \in Nat, Held' \in Nat
      PROVE  Budget'
  <2>1. Unqueued' \in 0..1 /\ Waits("first")' \in 0..1 /\ Waits("fallback")' \in 0..1
    BY DEF Unqueued, Waits
  <2> QED
    BY <1>a, <2>1 DEF Budget, Rowed
<1>b. ASSUME UNCHANGED row PROVE Rowed' = Rowed
  BY <1>b DEF Rowed, Unqueued, Waits
<1>c. ASSUME UNCHANGED work PROVE Held' = Held
  BY <1>c DEF Held, Holders
<1>w. ASSUME UNCHANGED World PROVE copies' = copies /\ asked' = asked /\ unheard' = unheard
  BY <1>w DEF World
<1>d. ASSUME UNCHANGED World, Held' \in Nat,
             \/ Held' = Held /\ Rowed' <= Rowed
             \/ Held' = Held + 1 /\ Rowed' = Rowed - 1
             \/ Held' = Held - 1 /\ Rowed' <= Rowed + 1
      PROVE  Budget'
  <2>1. /\ copies \in Int /\ Held \in Int /\ Rowed \in Int /\ Held' \in Int /\ Rowed' \in Int
        /\ 1 + asked + unheard \in Int
    BY <1>0, <1>d
  <2>2. PICK m \in Int, r2 \in Int, h2 \in Int : m = 1 + asked + unheard /\ r2 = Rowed' /\ h2 = Held'
    BY <2>1
  <2>3. copies + Rowed + Held <= m
    BY <1>0, <2>2
  <2>4. \/ h2 = Held /\ r2 <= Rowed
        \/ h2 = Held + 1 /\ r2 = Rowed - 1
        \/ h2 = Held - 1 /\ r2 <= Rowed + 1
    BY <1>d, <2>2
  <2>5. copies + r2 + h2 <= m
    BY <2>1, <2>3, <2>4, Sums
  <2> QED
    BY <1>0, <1>a, <1>w, <1>d, <2>2, <2>5
<1>h. Idle.at \notin Holding /\ "dispatch" \notin Holding /\ "printed" \notin Holding /\ "mark" \notin Holding
      /\ "idle" \notin Holding /\ "send" \in Holding /\ "failed" \in Holding /\ "create" \in Holding
  BY DEF Idle, Holding
<1>i. ASSUME NEW d \in Dispatchers, work[d].at \notin Holding, NEW j, NEW n, NEW fits,
             Begin(d, "dispatch", j, n, fits) \/ Ends(d)
      PROVE  Held' = Held
  BY <1>i, HeldBegin, HeldEnds
\* Retry gives a permission back to the row, Rerouted lets it go.
<1>j. ASSUME NEW d \in Dispatchers, work[d].at \in Holding, Retry(d), UNCHANGED World PROVE Budget'
  <2>1. work[d].at # "idle" /\ work[d].job \in Jobs
    BY <1>h, <1>j, AtWork
  <2>2. Held' = Held - 1 /\ Held' \in Nat
    BY <1>0, <1>j, HeldEnds, HeldType DEF Retry
  <2>3. \E st \in {"failed", "retrying"} : \E n, e : Write(work[d].job, st, n, e)
    BY <1>j DEF Retry
  <2>4. PICK st \in {"failed", "retrying"} : \E n, e : Write(work[d].job, st, n, e)
    BY <2>3
  <2>5. PICK n, e : Write(work[d].job, st, n, e)
    BY <2>4
  <2>6. Rowed' <= Rowed + 1
    <3> DEFINE r == [status |-> st, tries |-> n, error |-> e]
    <3>1. row' = [row EXCEPT ![work[d].job] = r] /\ r.status # "none"
      BY <2>5 DEF Write
    <3> HIDE DEF r
    <3> QED
      BY <2>1, <3>1, RowedStep
  <2> QED
    BY <1>d, <1>j, <2>2, <2>6
<1>k. ASSUME NEW d \in Dispatchers, work[d].at # "idle", Rerouted(d) PROVE Rowed' <= Rowed
  <2> DEFINE r == [status |-> "failed", tries |-> work[d].tries + 1, error |-> "rerouted"]
  <2>1. row' = [row EXCEPT ![work[d].job] = r] /\ r.status = "failed"
    BY <1>k DEF Rerouted, Write
  <2> HIDE DEF r
  <2> QED
    BY <1>k, <2>1, AtWork, RowedStep DEF Claimable
<1>l. NewRow.status = "queued" /\ "queued" \in Claimable
  BY DEF NewRow, NoRow, Claimable
<1>1. ASSUME NEW d \in Dispatchers, Queue(d) PROVE Budget'
  <2>1. work[d].at \notin Holding /\ row["first"].status = "none" /\ UNCHANGED World
    BY <1>1, <1>h DEF Queue, At
  <2>2. Held' = Held
    BY <1>1, <1>c, <1>i, <2>1 DEF Queue
  <2>3. Rowed' <= Rowed
    <3>1. CASE row' = [row EXCEPT !["first"] = NewRow]
      BY <1>l, <2>1, <3>1, RowedStep DEF Jobs
    <3>2. CASE Write("first", "failed", 0, "no_route")
      <4> DEFINE r == [status |-> "failed", tries |-> 0, error |-> "no_route"]
      <4>1. row' = [row EXCEPT !["first"] = r] /\ r.status = "failed"
        BY <3>2 DEF Write
      <4> HIDE DEF r
      <4> QED
        BY <4>1, RowedStep DEF Jobs, Claimable
    <3> QED
      BY <1>1, <3>1, <3>2 DEF Queue
  <2> QED
    BY <1>0, <1>d, <2>1, <2>2, <2>3
<1>2. ASSUME NEW d \in Requests, NEW j \in Jobs, Ask(d, j) PROVE Budget'
  <2>1. d \in Dispatchers /\ work[d].at \notin Holding
    BY <1>2, <1>h, Constants DEF Ask, At
  <2>2. Held' = Held
    BY <1>2, <1>i, <2>1 DEF Ask
  <2>3. Rowed' <= Rowed + 1
    <3> DEFINE r == [status |-> "queued", tries |-> 0, error |-> "none"]
    <3>1. row' = [row EXCEPT ![j] = r] /\ r.status # "none"
      BY <1>2 DEF Ask, Write
    <3> HIDE DEF r
    <3> QED
      BY <3>1, RowedStep
  <2>4. asked' = asked + 1 /\ copies' = copies /\ unheard' = unheard
    BY <1>2 DEF Ask
  <2>5. /\ copies \in Int /\ Held \in Int /\ Rowed \in Int /\ Held' \in Int /\ Rowed' \in Int
        /\ 1 + asked + unheard \in Int /\ Held' \in Nat
    BY <1>0, <2>2
  <2>6. copies + Rowed' + Held' <= 1 + asked + unheard + 1
    <3>1. PICK m \in Int, r2 \in Int, h2 \in Int : m = 1 + asked + unheard /\ r2 = Rowed' /\ h2 = Held'
      BY <2>5
    <3>2. copies + Rowed + Held <= m /\ h2 = Held /\ r2 <= Rowed + 1
      BY <1>0, <2>2, <2>3, <3>1
    <3>3. copies + r2 + h2 <= m + 1
      BY <2>5, <3>2, Sums
    <3> QED
      BY <3>1, <3>3
  <2>7. copies' + Rowed' + Held' <= 1 + asked' + unheard' /\ copies' \in Nat
    <3>1. 1 + asked' + unheard' = 1 + asked + unheard + 1
      BY <1>0, <2>4
    <3> QED
      BY <1>0, <2>4, <2>6, <3>1
  <2> QED
    BY <1>a, <2>5, <2>7
<1>3. CASE Tick
  BY <1>0, <1>3, <1>a, <1>b, <1>c DEF Tick
<1>4. ASSUME NEW e \in list, Take(e) PROVE Budget'
  <2>1. Worker \in Dispatchers /\ work[Worker].at \notin Holding
    BY <1>4, <1>h, Constants DEF Take, At
  <2>2. Held' = Held
    BY <1>4, <1>c, <1>i, <2>1 DEF Take
  <2>3. UNCHANGED <<row, copies, unheard, asked>>
    BY <1>4 DEF Take
  <2> QED
    BY <1>0, <1>a, <1>b, <2>2, <2>3
<1>5. ASSUME NEW d \in Dispatchers, Claim(d) PROVE Budget'
  <2>1. work[d].at = "dispatch" /\ work[d].job \in Jobs /\ UNCHANGED World
    BY <1>5, AtWork DEF Claim, At
  <2> DEFINE j == work[d].job
  <2>2. CASE Write(j, "failed", row[j].tries, "scope") /\ Ends(d)
    <3> DEFINE r == [status |-> "failed", tries |-> row[j].tries, error |-> "scope"]
    <3>1. row' = [row EXCEPT ![j] = r] /\ r.status = "failed"
      BY <2>2 DEF Write
    <3> HIDE DEF r
    <3>2. Rowed' <= Rowed
      BY <2>1, <3>1, RowedStep DEF Claimable
    <3>3. Held' = Held
      BY <1>h, <1>i, <2>1, <2>2
    <3> QED
      BY <1>0, <1>d, <2>1, <3>2, <3>3
  <2>3. CASE row[j].status \in Claimable /\ Status(j, "sending") /\ Goto(d, "send")
    <3> DEFINE r == [row[j] EXCEPT !.status = "sending"]
    <3>1. row' = [row EXCEPT ![j] = r] /\ r.status = "sending"
      BY <1>0, <2>1, <2>3 DEF Status, Rows
    <3> HIDE DEF r
    <3>2. Rowed' = Rowed - 1
      BY <2>1, <2>3, <3>1, RowedStep DEF Claimable
    <3>3. Held' = Held + 1
      BY <1>h, <2>1, <2>3, HeldGoto
    <3> QED
      BY <1>0, <1>d, <2>1, <3>2, <3>3
  <2>4. CASE Ends(d) /\ UNCHANGED row
    BY <1>0, <1>b, <1>d, <1>h, <1>i, <2>1, <2>4
  <2> QED
    BY <1>5, <2>2, <2>3, <2>4 DEF Claim
<1>6. ASSUME NEW d \in Dispatchers, Send(d) PROVE Budget'
  <2>1. work[d].at = "send" /\ work[d].at # "idle" /\ work[d].at \in Holding /\ UNCHANGED <<row, asked>>
    BY <1>6, <1>h DEF Send, At
  <2>2. Rowed' = Rowed
    BY <1>b, <2>1
  <2>3. CASE copies' = copies + 1 /\ Goto(d, "printed") /\ UNCHANGED unheard
    <3>1. Held' = Held - 1
      BY <1>h, <2>1, <2>3, HeldGoto
    <3>2. Held' \in Nat
      BY <1>0, <2>1, <3>1, HeldType
    <3> QED
      BY <1>0, <1>a, <2>1, <2>2, <2>3, <3>1, <3>2
  <2>4. CASE Goto(d, "failed")
    <3>1. Held' = Held
      BY <1>h, <2>1, <2>4, HeldGoto
    <3>2. \/ UNCHANGED <<copies, unheard>>
          \/ copies' = copies + 1 /\ unheard' = unheard + 1
          \/ Goto(d, "printed")
      BY <1>6 DEF Send
    <3>3. ~Goto(d, "printed")
      <4>1. \A s : Goto(d, s) => work'[d].at = s
        BY <1>0, <2>1, AtWork DEF Goto, Works
      <4> QED
        BY <2>4, <4>1
    <3> QED
      BY <1>0, <1>a, <2>1, <2>2, <3>1, <3>2, <3>3
  <2> QED
    BY <1>6, <2>3, <2>4 DEF Send
<1>7. ASSUME NEW d \in Dispatchers, Printed(d) PROVE Budget'
  <2>1. work[d].at = "printed" /\ work[d].job \in Jobs /\ UNCHANGED World
    BY <1>7, AtWork DEF Printed, At
  <2> DEFINE j == work[d].job
             r == [status |-> "printed", tries |-> work[d].tries + 1, error |-> row[j].error]
  <2>2. row' = [row EXCEPT ![j] = r] /\ r.status = "printed"
    BY <1>7 DEF Printed, Write
  <2> HIDE DEF r
  <2>3. Rowed' <= Rowed
    BY <2>1, <2>2, RowedStep DEF Claimable
  <2>4. Held' = Held
    BY <1>7, <1>h, <1>i, <2>1 DEF Printed
  <2> QED
    BY <1>0, <1>d, <2>1, <2>3, <2>4
<1>8. ASSUME NEW d \in Dispatchers, Failed(d) PROVE Budget'
  <2>1. work[d].at = "failed" /\ work[d].at # "idle" /\ work[d].at \in Holding /\ UNCHANGED World
    BY <1>8, <1>h DEF Failed, At
  <2>2. CASE Retry(d)
    BY <1>d, <1>j, <2>1, <2>2
  <2>3. CASE Goto(d, "create") /\ UNCHANGED row
    <3>1. Held' = Held
      BY <1>h, <2>1, <2>3, HeldGoto
    <3> QED
      BY <1>0, <1>b, <1>d, <2>1, <2>3, <3>1
  <2>4. CASE Rerouted(d) /\ Ends(d)
    <3>1. Held' = Held - 1 /\ Held' \in Nat
      BY <1>0, <2>1, <2>4, HeldEnds, HeldType
    <3>2. Rowed' <= Rowed
      BY <1>k, <2>1, <2>4
    <3> QED
      BY <1>0, <1>d, <2>1, <3>1, <3>2
  <2> QED
    BY <1>8, <2>2, <2>3, <2>4 DEF Failed
<1>9. ASSUME NEW d \in Dispatchers, Create(d) PROVE Budget'
  <2>1. work[d].at = "create" /\ work[d].at # "idle" /\ work[d].at \in Holding /\ UNCHANGED World
    BY <1>9, <1>h DEF Create, At
  <2>2. CASE Retry(d)
    BY <1>d, <1>j, <2>1, <2>2
  <2>3. CASE row' = [row EXCEPT !["fallback"] = NewRow] /\ Goto(d, "mark")
    <3>1. Held' = Held - 1 /\ Held' \in Nat
      BY <1>0, <1>h, <2>1, <2>3, HeldGoto, HeldType
    <3>2. Rowed' <= Rowed + 1
      BY <1>l, <2>3, RowedStep DEF Jobs
    <3> QED
      BY <1>0, <1>d, <2>1, <3>1, <3>2
  <2> QED
    BY <1>9, <2>2, <2>3 DEF Create
<1>10. ASSUME NEW d \in Dispatchers, Mark(d) PROVE Budget'
  <2>1. work[d].at = "mark" /\ work[d].at # "idle" /\ work[d].at \notin Holding /\ UNCHANGED World
    BY <1>10, <1>h DEF Mark, At
  <2>2. Rowed' <= Rowed
    BY <1>10, <1>k, <2>1 DEF Mark
  <2>3. Held' = Held
    BY <1>10, <1>i, <2>1 DEF Mark
  <2> QED
    BY <1>0, <1>d, <2>1, <2>2, <2>3
<1>11. ASSUME NEW j \in Jobs, Sweep(j) PROVE Budget'
  <2>1. Write(j, "failed", row[j].tries, "interrupted") /\ UNCHANGED work /\ UNCHANGED World
    BY <1>11 DEF Sweep, Stale
  <2> DEFINE r == [status |-> "failed", tries |-> row[j].tries, error |-> "interrupted"]
  <2>2. row' = [row EXCEPT ![j] = r] /\ r.status = "failed"
    BY <2>1 DEF Write
  <2> HIDE DEF r
  <2>3. Rowed' <= Rowed
    BY <2>2, RowedStep DEF Claimable
  <2> QED
    BY <1>0, <1>c, <1>d, <2>1, <2>3
<1>12. CASE Crash
  <2>1. Holders' = {}
    BY <1>12, <1>h DEF Crash, Holders
  <2>2. Held' = 0
    BY <2>1, FS_EmptySet DEF Held
  <2>3. UNCHANGED <<row, copies, unheard, asked>>
    BY <1>12 DEF Crash
  <2> QED
    BY <1>0, <1>a, <1>b, <2>2, <2>3
<1>13. ASSUME NEW j \in Jobs, Delete(j) PROVE Budget'
  BY <1>0, <1>13, <1>a, <1>b, <1>c DEF Delete
<1>14. CASE Crowd \/ UNCHANGED vars
  BY <1>0, <1>14, <1>a, <1>b, <1>c DEF Crowd, vars
<1> QED
  BY <1>1, <1>2, <1>3, <1>4, <1>5, <1>6, <1>7, <1>8, <1>9, <1>10, <1>11, <1>12, <1>13, <1>14, Constants
     DEF Next, Dispatch, WorkerStep, Staff

-----------------------------------------------------------------------------
(* The theorems.                                                           *)

LEMMA InitInv == Init => Inv
<1> SUFFICES ASSUME Init PROVE Inv
  OBVIOUS
<1>1. row = [j \in Jobs |-> NoRow] /\ NoRow = [status |-> "none", tries |-> 0, error |-> "none"]
  BY DEF Init, NoRow
<1>2. NoRow \in Rows /\ NoRow.status = "none" /\ "none" \notin Claimable
  BY <1>1, Constants, SMT DEF Rows, Claimable, Errors
<1>3. TypeInv
  <2>1. row \in [Jobs -> Rows] /\ WaitersHaveTries
    BY <1>1, <1>2 DEF WaitersHaveTries
  <2> QED
    BY <2>1, Constants DEF Init, TypeInv, TypeOK
<1>4. Waits("first") = 0 /\ Waits("fallback") = 0 /\ Unqueued = 1
  BY <1>1, <1>2 DEF Waits, Unqueued, Jobs
<1>5. Holders = {}
  BY DEF Init, Holders, Holding, Idle
<1>6. Held = 0
  BY <1>5, FS_EmptySet DEF Held
<1> QED
  BY <1>3, <1>4, <1>6 DEF Init, Inv, Budget

\* Every variable keeps its type; in particular no job is tried more often than its
\* limit says between two retries of staff, whoever has an old count of it.
THEOREM JobsKeepTheirType == Spec => []TypeOK
<1>1. Init => TypeInv
  BY InitInv DEF Inv
<1>2. TypeInv => TypeOK
  BY DEF TypeInv
<1> QED
  BY <1>1, <1>2, TypeStep, PTL DEF Spec

\* For any number of requests and restarts, there are no more copies than the first,
\* the retries staff asked for and those nobody was told of.
THEOREM EveryCopyHasACause == Spec => []CopiesHaveCauses
<1>1. Inv => CopiesHaveCauses
  <2> SUFFICES ASSUME Inv PROVE CopiesHaveCauses
    OBVIOUS
  <2>1. Held \in Nat /\ Unqueued \in 0..1 /\ copies \in Nat /\ asked \in Nat /\ unheard \in Nat
    BY HeldType, RowedType DEF Inv, TypeInv, TypeOK
  <2>2. Waits("first") \in 0..1 /\ Waits("fallback") \in 0..1
    BY DEF Waits
  <2> QED
    BY <2>1, <2>2 DEF Inv, Budget, CopiesHaveCauses
<1>2. Inv /\ [Next]_vars => Inv'
  BY TypeStep, BudgetStep DEF Inv
<1> QED
  BY <1>1, <1>2, InitInv, PTL DEF Spec

-----------------------------------------------------------------------------
(* A document that is given up has a reason.                               *)

\* What a row says of its end is so: a printed one was printed, a failed one has a
\* reason, and only the first is rerouted, to a fallback that is there.
EndsTrue ==
    /\ \A j \in Jobs : row[j].status = "printed" => copies > 0
    /\ \A j \in Jobs : row[j].status = "failed" => row[j].error # "none"
    /\ row["fallback"].error # "rerouted"
    /\ row["first"].error = "rerouted" => row["fallback"].status # "none"

\* A dispatcher is about to write what is so.
WorkTrue(d) ==
    /\ At(d, "printed") => copies > 0
    /\ work[d].at \in {"create", "mark"} => work[d].job = "first"
    /\ At(d, "mark") => row["fallback"].status # "none"

DropInv == TypeInv /\ EndsTrue /\ \A d \in Dispatchers : WorkTrue(d)

\* Copies stay printed, and rows that are there stay there.
Forward ==
    /\ copies > 0 => copies' > 0
    /\ row["fallback"].status # "none" => row'["fallback"].status # "none"

\* A dispatcher that is done, goes on elsewhere, or is left alone.
LEMMA WorkStays ==
  ASSUME DropInv, Forward, NEW d \in Dispatchers, WorkTrue(d)',
         \A e \in Dispatchers \ {d} : work'[e] = work[e]
  PROVE  \A e \in Dispatchers : WorkTrue(e)'
  BY DEF DropInv, WorkTrue, Forward, At

\* A row written with an end that is so.
LEMMA EndWritten ==
  ASSUME DropInv, copies > 0 => copies' > 0, NEW j \in Jobs, NEW r \in Rows,
         row' = [row EXCEPT ![j] = r], r.status # "none",
         r.status = "printed" => copies' > 0,
         r.status = "failed" => r.error # "none",
         r.error = "rerouted" => j = "first" /\ row["fallback"].status # "none"
  PROVE  EndsTrue' /\ Forward
<1>1. row'[j] = r /\ \A i \in Jobs \ {j} : row'[i] = row[i]
  BY DEF DropInv, TypeInv, TypeOK
<1>2. "first" \in Jobs /\ "fallback" \in Jobs  BY DEF Jobs
<1>3. Forward  BY <1>1, <1>2 DEF Forward
<1>4. \A i \in Jobs : row'[i].status = "printed" => copies' > 0
  BY <1>1 DEF DropInv, EndsTrue
<1>5. \A i \in Jobs : row'[i].status = "failed" => row'[i].error # "none"
  BY <1>1 DEF DropInv, EndsTrue
<1>6. row'["fallback"].error # "rerouted"  BY <1>1, <1>2 DEF DropInv, EndsTrue
<1>7. row'["first"].error = "rerouted" => row'["fallback"].status # "none"
  BY <1>1, <1>2 DEF DropInv, EndsTrue
<1>8. QED  BY <1>3, <1>4, <1>5, <1>6, <1>7 DEF EndsTrue

LEMMA EndsKept ==
  ASSUME DropInv, row' = row, copies > 0 => copies' > 0 PROVE EndsTrue' /\ Forward
  BY DEF DropInv, EndsTrue, Forward

\* The writes of a dispatcher that gave up.
LEMMA GivenUp ==
  ASSUME DropInv, NEW d \in Dispatchers, work[d].at # "idle", UNCHANGED copies,
         Retry(d) \/ (Rerouted(d) /\ work[d].job = "first" /\ row["fallback"].status # "none")
  PROVE  EndsTrue' /\ Forward
<1>1. /\ work[d].job \in Jobs /\ work[d].tries \in 0..(MaxRetries - 1)
      /\ MaxRetries \in Nat \ {0}
  BY AtWork, Constants DEF DropInv
<1>2. work[d].tries + 1 \in 0..MaxRetries  BY <1>1
<1>3. PICK st \in {"failed", "retrying"}, e \in {"exhausted", "none", "rerouted"} :
        /\ row' = [row EXCEPT ![work[d].job] =
                     [status |-> st, tries |-> work[d].tries + 1, error |-> e]]
        /\ st = "failed" => e # "none"
        /\ e = "rerouted" => work[d].job = "first" /\ row["fallback"].status # "none"
  BY DEF Retry, Rerouted, Write
<1> DEFINE r == [status |-> st, tries |-> work[d].tries + 1, error |-> e]
<1>4. r \in Rows /\ r.status = st /\ r.error = e
  BY <1>2 DEF Rows, Claimable, Settled, Errors
<1> HIDE DEF r
<1>5. row' = [row EXCEPT ![work[d].job] = r]  BY <1>3 DEF r
<1>6. QED  BY <1>1, <1>3, <1>4, <1>5, EndWritten

\* A row that waits, or is being sent, or says why it is not.
LEMMA NotEnded ==
  ASSUME DropInv, NEW j \in Jobs, UNCHANGED copies,
         \/ row' = [row EXCEPT ![j] = NewRow]
         \/ Status(j, "sending")
         \/ \E tries \in 0..MaxRetries : Write(j, "queued", tries, "none")
         \/ \E tries \in 0..MaxRetries, e \in {"scope", "no_route", "interrupted"} :
              Write(j, "failed", tries, e)
  PROVE  EndsTrue' /\ Forward
<1>1. row[j] \in Rows /\ MaxRetries \in Nat  BY Constants DEF DropInv, TypeInv, TypeOK
<1>2. CASE Status(j, "sending")
  <2> DEFINE r == [row[j] EXCEPT !.status = "sending"]
  <2>1. row' = [row EXCEPT ![j] = r] /\ r \in Rows /\ r.status = "sending" /\ r.error = row[j].error
    BY <1>1, <1>2 DEF Status, Rows
  <2>2. row[j].error = "rerouted" => j = "first" /\ row["fallback"].status # "none"
    BY DEF DropInv, EndsTrue, Jobs
  <2> HIDE DEF r
  <2>3. QED  BY <2>1, <2>2, EndWritten
<1>3. ASSUME NEW st \in {"queued", "failed"}, NEW tries \in 0..MaxRetries,
             NEW e \in {"none", "scope", "no_route", "interrupted"},
             st = "failed" => e # "none",
             row' = [row EXCEPT ![j] = [status |-> st, tries |-> tries, error |-> e]]
      PROVE  EndsTrue' /\ Forward
  <2> DEFINE r == [status |-> st, tries |-> tries, error |-> e]
  <2>1. r \in Rows /\ r.status = st /\ r.error = e
    BY DEF Rows, Claimable, Settled, Errors
  <2> HIDE DEF r
  <2>2. row' = [row EXCEPT ![j] = r]  BY <1>3 DEF r
  <2>3. QED  BY <1>3, <2>1, <2>2, EndWritten
<1>4. NewRow = [status |-> "queued", tries |-> 0, error |-> "none"] /\ 0 \in 0..MaxRetries
  BY <1>1 DEF NewRow, NoRow
<1>5. QED  BY <1>2, <1>3, <1>4 DEF Write

LEMMA RequestDrops ==
  ASSUME DropInv, TypeInv', NEW d \in Dispatchers, Dispatch(d) PROVE DropInv'
<1>1. work \in [Dispatchers -> Works \cup {Idle}] /\ copies \in Nat /\ row \in [Jobs -> Rows]
  BY DEF DropInv, TypeInv, TypeOK
<1>2. work[d].at # "idle"
  BY DEF Dispatch, Claim, Send, Printed, Failed, Create, Mark, At
<1>3. work[d] \in Works /\ work[d].job \in Jobs /\ work[d].tries \in 0..(MaxRetries - 1)
  BY <1>2, AtWork DEF DropInv
<1>4. ASSUME NEW w, work' = [work EXCEPT ![d] = w]
      PROVE  work'[d] = w /\ \A e \in Dispatchers \ {d} : work'[e] = work[e]
  BY <1>1, <1>4
<1>5. ASSUME EndsTrue', Forward, Ends(d) \/ \E s \in {"send", "failed"} : Goto(d, s)
      PROVE  DropInv'
  <2>1. WorkTrue(d)' /\ \A e \in Dispatchers \ {d} : work'[e] = work[e]
    BY <1>1, <1>3, <1>5 DEF Ends, Goto, WorkTrue, At, Idle, Works
  <2>2. QED  BY <1>5, <2>1, WorkStays DEF DropInv
<1>6. CASE Claim(d)
  <2>1. row[work[d].job].tries \in 0..MaxRetries
    BY <1>1, <1>3, RowFields
  <2>2. EndsTrue' /\ Forward
    BY <1>3, <1>6, <2>1, NotEnded, EndsKept DEF Claim, World
  <2>3. QED  BY <1>5, <1>6, <2>2 DEF Claim
<1>7. CASE Send(d)
  <2>1. row' = row /\ (copies > 0 => copies' > 0)  BY <1>1, <1>7 DEF Send
  <2>2. EndsTrue' /\ Forward  BY <2>1, EndsKept
  <2>3. CASE Goto(d, "failed")  BY <1>5, <2>2, <2>3
  <2>4. CASE copies' = copies + 1 /\ Goto(d, "printed")
    <3>1. copies' > 0  BY <1>1, <2>4
    <3>2. WorkTrue(d)' /\ \A e \in Dispatchers \ {d} : work'[e] = work[e]
      BY <1>1, <1>3, <2>4, <3>1 DEF Goto, WorkTrue, At, Works
    <3>3. QED  BY <2>2, <3>2, WorkStays DEF DropInv
  <2>5. QED  BY <1>7, <2>3, <2>4 DEF Send
<1>8. CASE Printed(d)
  <2> DEFINE j == work[d].job
             r == [status |-> "printed", tries |-> work[d].tries + 1, error |-> row[j].error]
  <2>1. copies > 0 /\ copies' = copies  BY <1>8 DEF Printed, World, DropInv, WorkTrue
  <2>2. row[j].error \in Errors /\ work[d].tries + 1 \in 0..MaxRetries /\ j \in Jobs
    BY <1>1, <1>3, RowFields, Constants
  <2>3. r \in Rows /\ r.status = "printed" /\ r.error = row[j].error
    BY <2>2 DEF Rows, Settled
  <2>4. row[j].error = "rerouted" => j = "first" /\ row["fallback"].status # "none"
    BY <2>2 DEF DropInv, EndsTrue, Jobs
  <2>5. row' = [row EXCEPT ![j] = r] /\ Ends(d)  BY <1>8 DEF Printed, Write
  <2> HIDE DEF j, r
  <2>6. EndsTrue' /\ Forward  BY <2>1, <2>2, <2>3, <2>4, <2>5, EndWritten
  <2>7. QED  BY <1>5, <2>5, <2>6
<1>9. CASE Failed(d)
  <2>1. CASE Goto(d, "create")
    <3>1. work[d].job = "first" /\ row' = row /\ copies' = copies
      BY <1>1, <1>3, <1>9, <2>1 DEF Failed, Retry, Rerouted, Reroutable, Ends, Goto, World, Idle, Works
    <3>2. WorkTrue(d)' /\ \A e \in Dispatchers \ {d} : work'[e] = work[e]
      BY <1>1, <1>3, <2>1, <3>1 DEF Goto, WorkTrue, At, Works
    <3>3. QED  BY <3>1, <3>2, EndsKept, WorkStays DEF DropInv
  <2>2. CASE ~Goto(d, "create")
    <3>1. Ends(d) /\ copies' = copies
          /\ (Retry(d) \/ (Rerouted(d) /\ work[d].job = "first" /\ row["fallback"].status # "none"))
      BY <1>9, <2>2 DEF Failed, Retry, Reroutable, World
    <3>2. QED  BY <1>2, <1>5, <3>1, GivenUp
  <2>3. QED  BY <2>1, <2>2
<1>10. CASE Create(d)
  <2>1. copies' = copies /\ work[d].at = "create" /\ work[d].job = "first"
    BY <1>10 DEF Create, World, At, DropInv, WorkTrue
  <2>2. CASE Retry(d)
    BY <1>2, <1>5, <2>1, <2>2, GivenUp DEF Retry
  <2>3. CASE row' = [row EXCEPT !["fallback"] = NewRow] /\ Goto(d, "mark")
    <3>1. EndsTrue' /\ Forward  BY <2>1, <2>3, NotEnded DEF Jobs
    <3>2. row'["fallback"].status = "queued"
      BY <1>1, <2>3 DEF Jobs, NewRow, NoRow
    <3>3. WorkTrue(d)' /\ \A e \in Dispatchers \ {d} : work'[e] = work[e]
      BY <1>1, <1>3, <2>1, <2>3, <3>2 DEF Goto, WorkTrue, At, Works
    <3>4. QED  BY <3>1, <3>3, WorkStays DEF DropInv
  <2>4. QED  BY <1>10, <2>2, <2>3 DEF Create
<1>11. CASE Mark(d)
  <2>1. copies' = copies /\ work[d].job = "first" /\ row["fallback"].status # "none" /\ Rerouted(d)
    BY <1>11 DEF Mark, World, At, DropInv, WorkTrue
  <2>2. EndsTrue' /\ Forward  BY <1>2, <2>1, GivenUp
  <2>3. WorkTrue(d)' /\ \A e \in Dispatchers \ {d} : work'[e] = work[e]
    BY <1>1, <1>11 DEF Mark, Begin, WorkTrue, At
  <2>4. QED  BY <2>2, <2>3, WorkStays DEF DropInv
<1>12. QED  BY <1>6, <1>7, <1>8, <1>9, <1>10, <1>11 DEF Dispatch

LEMMA OtherDrops ==
  ASSUME DropInv, TypeInv',
         \/ \E d \in Dispatchers : Queue(d)
         \/ WorkerStep \/ Staff \/ Crash \/ Crowd \/ UNCHANGED vars
  PROVE  DropInv'
<1>1. work \in [Dispatchers -> Works \cup {Idle}] /\ row \in [Jobs -> Rows] /\ copies' = copies
      /\ Requests \subseteq Dispatchers /\ Worker \in Dispatchers
  BY Constants DEF DropInv, TypeInv, TypeOK, Queue, World, WorkerStep, Tick, Take, Sweep, Staff,
     Delete, Ask, Crash, Crowd, vars
<1>2. ASSUME NEW d \in Dispatchers, NEW j \in Jobs, NEW n, NEW fits, Begin(d, "dispatch", j, n, fits)
      PROVE  WorkTrue(d)' /\ \A e \in Dispatchers \ {d} : work'[e] = work[e]
  BY <1>1, <1>2 DEF Begin, WorkTrue, At
<1>3. ASSUME EndsTrue', Forward, work' = work PROVE DropInv'
  BY <1>1, <1>3 DEF DropInv, WorkTrue, At, Forward
<1>4. ASSUME NEW d \in Dispatchers, Queue(d) PROVE DropInv'
  <2>1. EndsTrue' /\ Forward
    <3>1. "first" \in Jobs /\ 0 \in 0..MaxRetries  BY Constants DEF Jobs
    <3>2. row' = [row EXCEPT !["first"] = NewRow] \/ Write("first", "failed", 0, "no_route")
      BY <1>4 DEF Queue
    <3>3. CASE row' = [row EXCEPT !["first"] = NewRow]
      BY <1>1, <3>1, <3>3, NotEnded
    <3>4. CASE Write("first", "failed", 0, "no_route")
      BY <1>1, <3>1, <3>4, NotEnded
    <3>5. QED  BY <3>2, <3>3, <3>4
  <2>2. CASE Begin(d, "dispatch", "first", 0, TRUE)
    BY <1>2, <2>1, <2>2, WorkStays DEF DropInv, Jobs
  <2>3. QED  BY <1>3, <1>4, <2>1, <2>2 DEF Queue
<1>5. CASE Staff
  <2>1. ASSUME NEW j \in Jobs, NEW d \in Requests, Ask(d, j) PROVE DropInv'
    <3>1. Write(j, "queued", 0, "none") /\ 0 \in 0..MaxRetries /\ d \in Dispatchers
          /\ \E fits \in BOOLEAN : Begin(d, "dispatch", j, 0, fits)
      BY <1>1, <2>1, Constants DEF Ask
    <3>2. EndsTrue' /\ Forward  BY <1>1, <3>1, NotEnded
    <3>3. QED  BY <1>2, <3>1, <3>2, WorkStays DEF DropInv
  <2>2. ASSUME NEW j \in Jobs, Delete(j) PROVE DropInv'
    BY <1>1, <1>3, <2>2, EndsKept DEF Delete
  <2>3. QED  BY <1>5, <2>1, <2>2 DEF Staff
<1>6. CASE WorkerStep
  <2>1. CASE Tick  BY <1>1, <1>3, <2>1, EndsKept DEF Tick
  <2>2. ASSUME NEW e \in list, Take(e) PROVE DropInv'
    <3>1. e.job \in Jobs /\ row' = row  BY <2>2 DEF Take, DropInv, TypeInv, TypeOK
    <3>2. EndsTrue' /\ Forward  BY <1>1, <3>1, EndsKept
    <3>3. CASE \E fits \in BOOLEAN : Begin(Worker, "dispatch", e.job, e.tries, fits)
      BY <1>1, <1>2, <3>1, <3>2, <3>3, WorkStays DEF DropInv
    <3>4. QED  BY <1>3, <2>2, <3>2, <3>3 DEF Take
  <2>3. ASSUME NEW j \in Jobs, Sweep(j) PROVE DropInv'
    <3>1. row[j].tries \in 0..MaxRetries  BY <1>1, RowFields
    <3>2. Write(j, "failed", row[j].tries, "interrupted") /\ work' = work
      BY <2>3 DEF Sweep, Stale
    <3>3. QED  BY <1>1, <1>3, <3>1, <3>2, NotEnded
  <2>4. QED  BY <1>6, <2>1, <2>2, <2>3 DEF WorkerStep
<1>7. CASE Crash
  <2>1. EndsTrue' /\ Forward  BY <1>1, <1>7, EndsKept DEF Crash
  <2>2. \A d \in Dispatchers : WorkTrue(d)'
    BY <1>7 DEF Crash, WorkTrue, At, Idle
  <2>3. QED  BY <2>1, <2>2 DEF DropInv
<1>8. CASE Crowd \/ UNCHANGED vars  BY <1>1, <1>3, <1>8, EndsKept DEF Crowd, vars
<1>9. QED  BY <1>4, <1>5, <1>6, <1>7, <1>8

\* A document that was not printed and is not going to be has a job that says why, for
\* any number of requests and restarts: a row is called rerouted only once the fallback
\* is there, and the fallback itself cannot be.
THEOREM NeverSilent == Spec => []NeverDropped
<1>1. Init => DropInv
  <2> SUFFICES ASSUME Init PROVE DropInv
    OBVIOUS
  <2>1. TypeInv
    BY InitInv DEF Inv
  <2>2. EndsTrue
    BY DEF Init, EndsTrue, NoRow, Jobs
  <2>3. \A d \in Dispatchers : WorkTrue(d)
    BY DEF Init, WorkTrue, At, Idle
  <2> QED
    BY <2>1, <2>2, <2>3 DEF DropInv
<1>2. DropInv /\ [Next]_vars => DropInv'
  BY TypeStep, RequestDrops, OtherDrops DEF DropInv, Next
<1>3. DropInv => NeverDropped
  BY DEF DropInv, EndsTrue, NeverDropped, Settled, Jobs, TypeInv, TypeOK
<1> QED
  BY <1>1, <1>2, <1>3, PTL DEF Spec

=============================================================================
