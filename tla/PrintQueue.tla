------------------------------ MODULE PrintQueue ------------------------------
(***************************************************************************)
(* The print queue: lib/printService.ts, lib/print/documentJobs.ts and the *)
(* retry of routes/print.ts, for one document of one order.                *)
(*                                                                         *)
(* The request that queues the document's job sends it at once; so does    *)
(* the worker, from a list it may have read before, and so does staff who  *)
(* ask for a retry.  A dispatcher claims the job, sends it to the bridge   *)
(* and then writes what came of it.  When a receipt's printer fails, the   *)
(* receipt is queued once more, for the general printer.                   *)
(***************************************************************************)
EXTENDS Integers, FiniteSets

CONSTANTS
    Requests,   \* requests that queue the document, or ask for a retry
    Worker,     \* the process's one retry worker
    MaxRetries, \* print_jobs.max_retries
    MaxAsked,   \* bound: retries staff ask for
    MaxUnheard, \* bound: copies that no answer tells of
    MaxCrashes  \* bound: restarts of the process

ASSUME PrintQueueAssumption ==
    /\ IsFiniteSet(Requests) /\ Worker \notin Requests /\ MaxRetries \in Nat \ {0}
    /\ MaxAsked \in Nat /\ MaxUnheard \in Nat /\ MaxCrashes \in Nat

VARIABLES
    row,     \* print_jobs: the document's job and the one it is rerouted as
    printer, \* whether the printers of these two jobs are there, or deleted
    work,    \* what each dispatcher is at
    list,    \* what the worker's tick has read and not dispatched yet
    copies,  \* copies that came out of a printer (external)
    unheard, \* those of them that a failed, lost or late answer hides (external)
    asked,   \* retries staff asked for
    crashes,
    crowded  \* whether more jobs wait, of all documents, than a tick reads: ten

vars == <<row, printer, work, list, copies, unheard, asked, crashes, crowded>>

Jobs == {"first", "fallback"}
Dispatchers == Requests \cup {Worker}
Claimable_Queued == {"queued"}
Claimable == {"queued", "retrying"}
Settled == {"printed", "failed"}
Errors == {"none", "exhausted", "rerouted", "interrupted", "scope", "no_route"}
Rows == [status : {"none", "sending"} \cup Claimable \cup Settled,
         tries : 0..MaxRetries, error : Errors]
NoRow == [status |-> "none", tries |-> 0, error |-> "none"]
NewRow == [NoRow EXCEPT !.status = "queued"]

\* A dispatcher keeps the job as it read it: its count, and whether its printer fits.
Steps == {"dispatch", "send", "printed", "failed", "create", "mark"}
Works == [at : Steps, job : Jobs, tries : 0..(MaxRetries - 1), fits : BOOLEAN]
Idle == [at |-> "idle"]

\* The first printer is the one the document is routed to, if there is one; the
\* fallback's is the Brightek, if there is another and the document may go there.
Init ==
    /\ row = [j \in Jobs |-> NoRow]
    /\ printer \in [Jobs -> BOOLEAN]
    /\ work = [d \in Dispatchers |-> Idle] /\ list = {}
    /\ copies = 0 /\ unheard = 0 /\ asked = 0 /\ crashes = 0
    /\ crowded \in BOOLEAN

At(d, step) == work[d].at = step
Goto(d, step) == work' = [work EXCEPT ![d].at = step]
Begin(d, step, j, tries, fits) ==
    work' = [work EXCEPT ![d] = [at |-> step, job |-> j, tries |-> tries, fits |-> fits]]
Ends(d) == work' = [work EXCEPT ![d] = Idle]
Write(j, status, tries, error) ==
    row' = [row EXCEPT ![j] = [status |-> status, tries |-> tries, error |-> error]]
Status(j, status) == row' = [row EXCEPT ![j].status = status]

World == <<printer, list, copies, unheard, asked, crashes, crowded>>

-----------------------------------------------------------------------------
(* Queueing, by queueDocumentPrint, and asking again.                      *)

\* One row for the document's key, which the database keeps unique; without a route
\* the row is there to say so.
Queue(d) ==
    /\ d \in Requests /\ At(d, "idle") /\ row["first"].status = "none" /\ UNCHANGED World
    /\ \/ /\ printer["first"] /\ row' = [row EXCEPT !["first"] = NewRow]
          /\ Begin(d, "dispatch", "first", 0, TRUE)
       \/ ~printer["first"] /\ Write("first", "failed", 0, "no_route") /\ UNCHANGED work

\* POST /print/jobs/:id/retry, whatever the job's status.  The printer may be switched
\* off or on at any time, so that it fits, or not, when it is read.
Ask(d, j) ==
    /\ d \in Requests /\ At(d, "idle") /\ asked < MaxAsked
    /\ row[j].status # "none" /\ printer[j]
    /\ Write(j, "queued", 0, "none")
    /\ \E fits \in BOOLEAN : Begin(d, "dispatch", j, 0, fits)
    /\ asked' = asked + 1
    /\ UNCHANGED <<printer, list, copies, unheard, crashes, crowded>>

\* The worker's tick reads what waits, any ten of it if it is more, and then takes
\* one after the other.  A job without a printer is passed over and waits on.
Waiting == {j \in Jobs : row[j].status \in Claimable}
Tick ==
    /\ At(Worker, "idle") /\ list = {}
    /\ \E read \in IF crowded THEN SUBSET Waiting ELSE {Waiting} :
         list' = {[job |-> j, tries |-> row[j].tries] : j \in read}
    /\ UNCHANGED <<row, work, printer, copies, unheard, asked, crashes, crowded>>

Take(e) ==
    /\ At(Worker, "idle") /\ e \in list /\ list' = list \ {e}
    /\ IF ~printer[e.job] THEN UNCHANGED work
       ELSE \E fits \in BOOLEAN : Begin(Worker, "dispatch", e.job, e.tries, fits)
    /\ UNCHANGED <<row, printer, copies, unheard, asked, crashes, crowded>>

-----------------------------------------------------------------------------
(* dispatchJob.                                                            *)

\* failClosedScopeMismatch, for a printer that was switched off, and claimJob.
Claim(d) ==
    LET j == work[d].job
    IN /\ At(d, "dispatch") /\ UNCHANGED World
       /\ \/ /\ ~work[d].fits
             /\ Write(j, "failed", row[j].tries, "scope") /\ Ends(d)
          \/ /\ work[d].fits /\ row[j].status \in Claimable
             /\ Status(j, "sending") /\ Goto(d, "send")
          \/ /\ work[d].fits /\ row[j].status \notin Claimable
             /\ Ends(d) /\ UNCHANGED row

\* dispatchBridge: printed, or not, or printed without an answer in time.
Send(d) ==
    /\ At(d, "send") /\ UNCHANGED <<row, printer, list, asked, crashes, crowded>>
    /\ \/ copies' = copies + 1 /\ Goto(d, "printed") /\ UNCHANGED unheard
       \/ Goto(d, "failed") /\ UNCHANGED <<copies, unheard>>
       \/ /\ unheard < MaxUnheard /\ unheard' = unheard + 1
          /\ copies' = copies + 1 /\ Goto(d, "failed")

Printed(d) ==
    /\ At(d, "printed")
    /\ Write(work[d].job, "printed", work[d].tries + 1, row[work[d].job].error)
    /\ Ends(d) /\ UNCHANGED World

\* rerouteFailedReceiptToBrightek: never a job that was rerouted already.
Reroutable_Any(j) == printer["fallback"]
Reroutable(j) == j = "first" /\ printer["fallback"]

Exhausted_Late(tries) == tries + 1 > MaxRetries
Exhausted(tries) == tries + 1 >= MaxRetries

Retry(d) ==
    /\ IF Exhausted(work[d].tries)
       THEN Write(work[d].job, "failed", work[d].tries + 1, "exhausted")
       ELSE Write(work[d].job, "retrying", work[d].tries + 1, "none")
    /\ Ends(d)
Rerouted(d) == Write(work[d].job, "failed", work[d].tries + 1, "rerouted")

\* The general printer may be switched off as well.  A receipt is rerouted once.
Failed(d) ==
    /\ At(d, "failed") /\ UNCHANGED World
    /\ \/ Retry(d)
       \/ /\ Reroutable(work[d].job)
          /\ IF row["fallback"].status = "none" THEN Goto(d, "create") /\ UNCHANGED row
             ELSE Rerouted(d) /\ Ends(d)

\* Somebody else may have queued the fallback meanwhile: the key is unique, the insert
\* fails, and the job is retried.
Create(d) ==
    /\ At(d, "create") /\ UNCHANGED World
    /\ \/ /\ row["fallback"].status = "none"
          /\ row' = [row EXCEPT !["fallback"] = NewRow] /\ Goto(d, "mark")
       \/ row["fallback"].status # "none" /\ Retry(d)

\* markOriginalFailed, and then the fallback in the same request.
Mark(d) ==
    /\ At(d, "mark") /\ UNCHANGED World
    /\ Rerouted(d) /\ Begin(d, "dispatch", "fallback", 0, TRUE)

\* failStaleSendingJobs: five minutes are longer than any dispatch.
Dispatched(j) == \E d \in Dispatchers : work[d].at \notin {"idle", "dispatch"} /\ work[d].job = j
Stale_Retried(j) == Write(j, "retrying", row[j].tries, "interrupted")
Stale(j) == Write(j, "failed", row[j].tries, "interrupted")
Sweep(j) ==
    /\ row[j].status = "sending" /\ ~Dispatched(j) /\ At(Worker, "idle") /\ list = {}
    /\ Stale(j) /\ UNCHANGED <<work, World>>

Crash ==
    /\ crashes < MaxCrashes /\ crashes' = crashes + 1
    /\ work' = [d \in Dispatchers |-> Idle] /\ list' = {}
    /\ UNCHANGED <<row, printer, copies, unheard, asked, crowded>>

Delete(j) ==
    /\ printer[j] /\ printer' = [printer EXCEPT ![j] = FALSE]
    /\ UNCHANGED <<row, work, list, copies, unheard, asked, crashes, crowded>>

\* Other documents' jobs come and go: those whose printer was deleted stay.
Crowd == crowded' = ~crowded /\ UNCHANGED <<row, printer, work, list, copies, unheard, asked, crashes>>

-----------------------------------------------------------------------------
Dispatch(d) ==
    Claim(d) \/ Send(d) \/ Printed(d) \/ Failed(d) \/ Create(d) \/ Mark(d)
WorkerStep == Tick \/ (\E e \in list : Take(e)) \/ \E j \in Jobs : Sweep(j)
Staff == \E j \in Jobs : Delete(j) \/ \E d \in Requests : Ask(d, j)

Next ==
    \/ \E d \in Dispatchers : Queue(d) \/ Dispatch(d)
    \/ WorkerStep \/ Staff \/ Crash \/ Crowd

\* A dispatch that has begun goes on, every wait in it having a timeout.  The worker's
\* ticks follow each other whatever happens in one, and each begins with the sweep,
\* between two of which a list of jobs without printers may come and go.  Of a crowd
\* no tick has to read the document's jobs.
Fairness ==
    /\ \A d \in Dispatchers : WF_vars(Dispatch(d))
    /\ WF_vars(~crowded /\ Tick) /\ WF_vars(\E e \in list : Take(e)) /\ \A j \in Jobs : SF_vars(Sweep(j))

Spec == Init /\ [][Next]_vars /\ Fairness

-----------------------------------------------------------------------------
(* Properties.                                                             *)

\* Every variable has its type: in particular a job is never counted beyond its limit.
TypeOK ==
    /\ row \in [Jobs -> Rows] /\ printer \in [Jobs -> BOOLEAN]
    /\ work \in [Dispatchers -> Works \cup {Idle}]
    /\ list \subseteq [job : Jobs, tries : 0..(MaxRetries - 1)]
    /\ copies \in Nat /\ unheard \in 0..MaxUnheard /\ asked \in 0..MaxAsked
    /\ crashes \in 0..MaxCrashes /\ crowded \in BOOLEAN

\* However request, worker and staff race, whatever is rerouted and wherever the process
\* dies, no copy is printed but the one, one for every retry staff asked for, and those
\* that came out without anybody being told.
CopiesHaveCauses == copies <= 1 + asked + unheard

\* A document that was not printed and is not going to be has a job that says why.
\* That it was rerouted is no reason: then the other job has one.
NeverDropped ==
    (\A j \in Jobs : row[j].status \in Settled \cup {"none"}) /\ row["first"].status # "none"
      /\ (\A d \in Dispatchers : At(d, "idle")) /\ copies = 0
    => \E j \in Jobs : row[j].status = "failed" /\ row[j].error \notin {"none", "rerouted"}

\* A job is printed or given up in the end, also what a crash has left half sent, but
\* for two reasons to wait: its printer is deleted, or more jobs wait than the worker
\* reads.  Ten jobs of the first kind are enough for the second to last: a job waits
\* forever only behind such a crowd, or as one of it.
Settles ==
    \A j \in Jobs : row[j].status \notin Settled \cup {"none"} ~>
      row[j].status \in Settled \/ ~printer[j] \/ crowded

=============================================================================
