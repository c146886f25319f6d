------------------------- MODULE DeletionLifecycle -------------------------
(***************************************************************************)
(* Account deletion: internal/application/deletionrequest.                 *)
(*                                                                         *)
(* An API call creates a request (pending_grace) or cancels it.  When the  *)
(* 14 days are over the hourly scan enqueues an anonymize:user job and     *)
(* then marks the request processing; the job deletes the user's PDFs,     *)
(* scrubs the account in one transaction, marks the request completed and  *)
(* enqueues a confirmation email.  API calls, scans and jobs run           *)
(* concurrently, every database or queue operation is a step, and a job    *)
(* that fails or whose worker dies is delivered again.                     *)
(*                                                                         *)
(* An API call that fails is a call that stops: calls have no fairness.    *)
(***************************************************************************)
EXTENDS Naturals, FiniteSets

CONSTANTS
    Users,
    Rows, RowUser,      \* deletion requests ever made, and whose they are
    Pdfs, PdfUser,      \* reports generated before the deletion, and whose
    Calls, CallUser,    \* API calls, and whose they are
    Scans,              \* concurrent executions of deletion:scan-expired
    Jobs,               \* bound: anonymize:user tasks in the queue at once
    MaxRetry,           \* Asynq's retry limit of a job
    MaxFaults,          \* bound: failed operations and worker deaths
    NoRow

ASSUME DeletionAssumption ==
    /\ RowUser \in [Rows -> Users]
    /\ PdfUser \in [Pdfs -> Users]
    /\ CallUser \in [Calls -> Users]
    /\ NoRow \notin Rows
    /\ MaxRetry \in Nat /\ MaxFaults \in Nat

VARIABLES
    status,      \* status[r]: of request r; "absent": not created yet
    elapsed,     \* the requests whose grace period is over
    anonymized,  \* the users whose account was scrubbed
    linked,      \* the PDFs whose test result still has a pdf_url
    objects,     \* the PDFs in object storage
    call,        \* call[c]: next step of API call c
    found,       \* found[c]: the row c's CancelDeletion read
    scan,        \* scan[s]: next step of scan s
    batch,       \* batch[s]: rows it has yet to process
    current,     \* current[s]: the row it enqueued last
    job,         \* job[j]: next step of task j; "free": not in use
    jobRow,      \* jobRow[j]: the request in its payload
    urls,        \* urls[j]: PDFs j listed and has yet to delete
    tries,       \* tries[j]: retries of j so far
    archived,    \* the rows a job of which ran out of retries
    emails,      \* emails[r]: confirmation emails enqueued for r
    faults

callVars == <<call, found>>
scanVars == <<scan, batch, current>>
jobVars == <<job, jobRow, urls, tries>>
userVars == <<anonymized, linked, objects>>
vars == <<status, elapsed, userVars, callVars, scanVars, jobVars, archived, emails, faults>>

Status == {"absent", "pending_grace", "processing", "completed", "cancelled"}
JobStep == {"free", "queued", "list", "delete", "complete", "notify"}

DeletionTypeOK ==
    /\ status \in [Rows -> Status]
    /\ elapsed \subseteq Rows
    /\ anonymized \subseteq Users
    /\ linked \subseteq Pdfs /\ objects \subseteq Pdfs
    /\ call \in [Calls -> {"idle", "lookup", "create", "cancel", "done"}]
    /\ found \in [Calls -> Rows \union {NoRow}]
    /\ scan \in [Scans -> {"idle", "enqueue", "mark"}]
    /\ batch \in [Scans -> SUBSET Rows]
    /\ current \in [Scans -> Rows \union {NoRow}]
    /\ job \in [Jobs -> JobStep]
    /\ jobRow \in [Jobs -> Rows \union {NoRow}]
    /\ urls \in [Jobs -> SUBSET Pdfs]
    /\ tries \in [Jobs -> 0 .. MaxRetry]
    /\ archived \subseteq Rows
    /\ emails \in [Rows -> Nat]
    /\ faults \in 0 .. MaxFaults

Init ==
    /\ status = [r \in Rows |-> "absent"] /\ elapsed = {}
    /\ anonymized = {} /\ linked = Pdfs /\ objects = Pdfs
    /\ call = [c \in Calls |-> "idle"] /\ found = [c \in Calls |-> NoRow]
    /\ scan = [s \in Scans |-> "idle"] /\ batch = [s \in Scans |-> {}]
    /\ current = [s \in Scans |-> NoRow]
    /\ job = [j \in Jobs |-> "free"] /\ jobRow = [j \in Jobs |-> NoRow]
    /\ urls = [j \in Jobs |-> {}] /\ tries = [j \in Jobs |-> 0]
    /\ archived = {}
    /\ emails = [r \in Rows |-> 0]
    /\ faults = 0

Active(r) == status[r] \in {"pending_grace", "processing"}
ActiveOf(u) == {r \in Rows : RowUser[r] = u /\ Active(r)}
PdfsOf(u) == {p \in Pdfs : PdfUser[p] = u}
SetStatus(r, s) == status' = [status EXCEPT ![r] = s]
Fault == faults < MaxFaults /\ faults' = faults + 1

-----------------------------------------------------------------------------
\* RequestDeletion and CancelDeletion

CallGoto(c, step) == call' = [call EXCEPT ![c] = step]

RequestDeletion(c) ==
    /\ call[c] = "idle"
    /\ CallGoto(c, IF ActiveOf(CallUser[c]) = {} THEN "lookup" ELSE "done")
    /\ UNCHANGED <<status, elapsed, userVars, found, scanVars, jobVars, archived, emails, faults>>

LookupUser(c) ==
    /\ call[c] = "lookup"
    /\ CallGoto(c, IF CallUser[c] \in anonymized THEN "done" ELSE "create")
    /\ UNCHANGED <<status, elapsed, userVars, found, scanVars, jobVars, archived, emails, faults>>

\* Mutant: no unique index, only the check made earlier.
CreateUnchecked(c) ==
    /\ call[c] = "create"
    /\ CallGoto(c, "done")
    /\ \E r \in Rows : RowUser[r] = CallUser[c] /\ status[r] = "absent" /\ SetStatus(r, "pending_grace")
    /\ UNCHANGED <<elapsed, userVars, found, scanVars, jobVars, archived, emails, faults>>

\* uniq_active_deletion_per_user refuses a second active row of the user.
CreateRow(c) ==
    /\ call[c] = "create"
    /\ CallGoto(c, "done")
    /\ \/ ActiveOf(CallUser[c]) # {} /\ UNCHANGED status
       \/ /\ ActiveOf(CallUser[c]) = {}
          /\ \E r \in Rows :
                RowUser[r] = CallUser[c] /\ status[r] = "absent" /\ SetStatus(r, "pending_grace")
    /\ UNCHANGED <<elapsed, userVars, found, scanVars, jobVars, archived, emails, faults>>

CancelDeletion(c) ==
    /\ call[c] = "idle"
    /\ \E r \in ActiveOf(CallUser[c]) :
          /\ status[r] = "pending_grace"
          /\ found' = [found EXCEPT ![c] = r]
    /\ CallGoto(c, "cancel")
    /\ UNCHANGED <<status, elapsed, userVars, scanVars, jobVars, archived, emails, faults>>

\* TransitionStatus pending_grace -> cancelled
CancelRow(c) ==
    /\ call[c] = "cancel"
    /\ CallGoto(c, "done")
    /\ IF status[found[c]] = "pending_grace"
       THEN SetStatus(found[c], "cancelled")
       ELSE UNCHANGED status
    /\ UNCHANGED <<elapsed, userVars, found, scanVars, jobVars, archived, emails, faults>>

\* requested_at + 14 days passes; only a pending row's age is ever looked at.
Elapse(r) ==
    /\ status[r] = "pending_grace"
    /\ r \notin elapsed
    /\ elapsed' = elapsed \union {r}
    /\ UNCHANGED <<status, userVars, callVars, scanVars, jobVars, archived, emails, faults>>

-----------------------------------------------------------------------------
\* ProcessExpired

\* The next row of the batch, or the end of the scan.
ScanNext(s, rest) ==
    /\ batch' = [batch EXCEPT ![s] = rest]
    /\ scan' = [scan EXCEPT ![s] = IF rest = {} THEN "idle" ELSE "enqueue"]

FindExpired(s) ==
    LET expired == {r \in elapsed : status[r] = "pending_grace"}
    IN  /\ scan[s] = "idle"
        /\ expired # {}
        /\ ScanNext(s, expired)
        /\ UNCHANGED <<status, elapsed, userVars, callVars, current, jobVars, archived, emails, faults>>

NewJob(r) ==
    \E j \in Jobs :
        /\ job[j] = "free"
        /\ job' = [job EXCEPT ![j] = "queued"]
        /\ jobRow' = [jobRow EXCEPT ![j] = r]
        /\ UNCHANGED <<urls, tries>>

EnqueueAnonymize(s) ==
    /\ scan[s] = "enqueue"
    /\ \E r \in batch[s] :
          /\ NewJob(r)
          /\ current' = [current EXCEPT ![s] = r]
          /\ batch' = [batch EXCEPT ![s] = @ \ {r}]
    /\ scan' = [scan EXCEPT ![s] = "mark"]
    /\ UNCHANGED <<status, elapsed, userVars, callVars, archived, emails, faults>>

\* Mutant: the row is marked although its job was not enqueued.
MarkAnyway(s) ==
    /\ scan[s] = "enqueue"
    /\ Fault
    /\ \E r \in batch[s] :
          /\ current' = [current EXCEPT ![s] = r]
          /\ batch' = [batch EXCEPT ![s] = @ \ {r}]
    /\ scan' = [scan EXCEPT ![s] = "mark"]
    /\ UNCHANGED <<status, elapsed, userVars, callVars, jobVars, archived, emails>>

\* The enqueue fails, or succeeds and its answer is lost: on to the next row.
EnqueueFault(s) ==
    /\ scan[s] = "enqueue"
    /\ Fault
    /\ \E r \in batch[s] :
          /\ ScanNext(s, batch[s] \ {r})
          /\ NewJob(r) \/ UNCHANGED jobVars
    /\ UNCHANGED <<status, elapsed, userVars, callVars, current, archived, emails>>

\* Mutant: UpdateStatus instead of the compare-and-swap.
MarkBlindly(s) ==
    /\ scan[s] = "mark"
    /\ SetStatus(current[s], "processing")
    /\ ScanNext(s, batch[s])
    /\ UNCHANGED <<elapsed, userVars, callVars, current, jobVars, archived, emails, faults>>

\* TransitionStatus pending_grace -> processing
MarkProcessing(s) ==
    /\ scan[s] = "mark"
    /\ IF status[current[s]] = "pending_grace"
       THEN SetStatus(current[s], "processing")
       ELSE UNCHANGED status
    /\ ScanNext(s, batch[s])
    /\ UNCHANGED <<elapsed, userVars, callVars, current, jobVars, archived, emails, faults>>

MarkFault(s) ==
    /\ scan[s] = "mark"
    /\ Fault
    /\ ScanNext(s, batch[s])
    /\ UNCHANGED <<status, elapsed, userVars, callVars, current, jobVars, archived, emails>>

\* The scan's worker dies; a later scan starts from the database.
ScanDies(s) ==
    /\ scan[s] # "idle"
    /\ Fault
    /\ ScanNext(s, {})
    /\ UNCHANGED <<status, elapsed, userVars, callVars, current, jobVars, archived, emails>>

-----------------------------------------------------------------------------
\* Anonymize

JobGoto(j, step) == job' = [job EXCEPT ![j] = step]
Free(j) ==
    /\ JobGoto(j, "free")
    /\ jobRow' = [jobRow EXCEPT ![j] = NoRow]
    /\ urls' = [urls EXCEPT ![j] = {}]
    /\ tries' = [tries EXCEPT ![j] = 0]

UserOf(j) == RowUser[jobRow[j]]

\* Mutant: a job of a row that is already marked is dropped too.
StartJobIfPending(j) ==
    /\ job[j] = "queued"
    /\ IF status[jobRow[j]] # "pending_grace"
       THEN Free(j)
       ELSE JobGoto(j, "list") /\ UNCHANGED <<jobRow, urls, tries>>
    /\ UNCHANGED <<status, elapsed, userVars, callVars, scanVars, archived, emails, faults>>

\* FindByID; a job of a cancelled or completed request is dropped.
StartJob(j) ==
    /\ job[j] = "queued"
    /\ IF status[jobRow[j]] \in {"cancelled", "completed"}
       THEN Free(j)
       ELSE JobGoto(j, "list") /\ UNCHANGED <<jobRow, urls, tries>>
    /\ UNCHANGED <<status, elapsed, userVars, callVars, scanVars, archived, emails, faults>>

\* FindPDFURLsByUser
ListPDFs(j) ==
    /\ job[j] = "list"
    /\ urls' = [urls EXCEPT ![j] = linked \intersect PdfsOf(UserOf(j))]
    /\ JobGoto(j, "delete")
    /\ UNCHANGED <<status, elapsed, userVars, callVars, scanVars, jobRow, tries,
                   archived, emails, faults>>

\* DeleteByURL; deleting an object that is gone succeeds.
DeletePDF(j) ==
    /\ job[j] = "delete"
    /\ \E p \in urls[j] :
          /\ objects' = objects \ {p}
          /\ urls' = [urls EXCEPT ![j] = @ \ {p}]
    /\ UNCHANGED <<status, elapsed, anonymized, linked, callVars, scanVars, job, jobRow,
                   tries, archived, emails, faults>>

\* Mutant: the scrub does not wait for the deletions.
ScrubFirst(j) ==
    /\ job[j] = "delete"
    /\ anonymized' = anonymized \union {UserOf(j)}
    /\ linked' = linked \ PdfsOf(UserOf(j))
    /\ JobGoto(j, "complete")
    /\ UNCHANGED <<status, elapsed, objects, callVars, scanVars, jobRow, urls, tries,
                   archived, emails, faults>>

\* The transaction over user, guest sessions, results, answers and audit logs.
Scrub(j) ==
    /\ job[j] = "delete"
    /\ urls[j] = {}
    /\ anonymized' = anonymized \union {UserOf(j)}
    /\ linked' = linked \ PdfsOf(UserOf(j))
    /\ JobGoto(j, "complete")
    /\ UNCHANGED <<status, elapsed, objects, callVars, scanVars, jobRow, urls, tries,
                   archived, emails, faults>>

\* UpdateStatus, whatever the status has become meanwhile.
Complete(j) ==
    /\ job[j] = "complete"
    /\ SetStatus(jobRow[j], "completed")
    /\ JobGoto(j, "notify")
    /\ UNCHANGED <<elapsed, userVars, callVars, scanVars, jobRow, urls, tries, archived,
                   emails, faults>>

\* EnqueueEmail; an error is logged and forgotten.
Notify(j) ==
    /\ job[j] = "notify"
    /\ Free(j)
    /\ \/ emails' = [emails EXCEPT ![jobRow[j]] = @ + 1] /\ UNCHANGED faults
       \/ Fault /\ UNCHANGED emails
    /\ UNCHANGED <<status, elapsed, userVars, callVars, scanVars, archived>>

\* An operation of the job fails or its worker dies: Asynq delivers the task
\* again until its retries are used up, then archives it.
Retry(j) ==
    /\ job[j] \notin {"free", "queued"}
    /\ Fault
    /\ \/ /\ tries[j] < MaxRetry
          /\ JobGoto(j, "queued")
          /\ tries' = [tries EXCEPT ![j] = @ + 1]
          /\ urls' = [urls EXCEPT ![j] = {}]
          /\ UNCHANGED <<jobRow, archived>>
       \/ /\ tries[j] = MaxRetry
          /\ archived' = archived \union {jobRow[j]}
          /\ Free(j)
    /\ UNCHANGED <<status, elapsed, userVars, callVars, scanVars, emails>>

-----------------------------------------------------------------------------
CallStep(c) ==
    RequestDeletion(c) \/ LookupUser(c) \/ CreateRow(c) \/ CancelDeletion(c) \/ CancelRow(c)
ScanStep(s) == FindExpired(s) \/ EnqueueAnonymize(s) \/ MarkProcessing(s)
ScanFails(s) == EnqueueFault(s) \/ MarkFault(s) \/ ScanDies(s)
JobRuns(j) ==
    StartJob(j) \/ ListPDFs(j) \/ DeletePDF(j) \/ Scrub(j) \/ Complete(j) \/ Notify(j)

Next ==
    \/ \E c \in Calls : CallStep(c)
    \/ \E r \in Rows : Elapse(r)
    \/ \E s \in Scans : ScanStep(s) \/ ScanFails(s)
    \/ \E j \in Jobs : JobRuns(j) \/ Retry(j)

\* The scheduler ticks every hour and the workers take every queued task.
Fairness ==
    /\ \A s \in Scans : WF_vars(ScanStep(s))
    /\ \A j \in Jobs : WF_vars(JobRuns(j))

SafeSpec == Init /\ [][Next]_vars
Spec == SafeSpec /\ Fairness

-----------------------------------------------------------------------------
\* Properties

\* Two calls that both saw no active request do not both create one: a second
\* row could never be cancelled by its user.
OneActiveRequest ==
    \A q, r \in Rows : Active(q) /\ Active(r) /\ RowUser[q] = RowUser[r] => q = r

\* A completed request means the account is scrubbed and none of the user's
\* reports is left in storage, whatever failed and was retried on the way.
CompletedMeansErased ==
    \A r \in Rows :
        status[r] = "completed" =>
            RowUser[r] \in anonymized /\ objects \intersect PdfsOf(RowUser[r]) = {}

\* The pdf_url of a stored report is never dropped while the object is there:
\* after that nothing would find the object to delete it.
NoOrphanedPDF == objects \subseteq linked

\* A slow scan that marks a row after its job has finished does not reopen it.
CompletedIsFinal ==
    [][\A r \in Rows : status[r] = "completed" => status'[r] = "completed"]_vars

\* A row in processing has a job that will finish it, unless a job of it ran
\* out of retries: the reason the scan enqueues before it marks.
ProcessingHasJob ==
    \A r \in Rows :
        status[r] = "processing" /\ r \notin archived => \E j \in Jobs : jobRow[j] = r

\* No job scrubs the account of a cancelled request.  The change log says that
\* a request whose anonymize job is in flight cannot be cancelled any more; a
\* job that is still queued finds the cancellation and is dropped.
CancelledIsNotCarriedOut ==
    [][\A j \in Jobs : Scrub(j) => status[jobRow[j]] # "cancelled"]_vars

\* The confirmation email is only ever enqueued for a request that is completed
\* and stays so, whatever a slow scan or a second job still does to its row.
ConfirmedMeansCompleted == \A r \in Rows : emails[r] > 0 => status[r] = "completed"

\* Every request left standing at the end of its grace period is carried out,
\* unless its user cancels it in time or its job runs out of retries.
ExpiredRequestsEnd ==
    \A r \in Rows :
        r \in elapsed /\ status[r] = "pending_grace"
            ~> status[r] \in {"completed", "cancelled"} \/ r \in archived
=============================================================================
