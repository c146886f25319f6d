-------------------------- MODULE ResultLifecycle --------------------------
(***************************************************************************)
(* The life of a TEST_RESULT and of what hangs on it: the essay answers,   *)
(* the prompt audit log and the report in object storage.                  *)
(*                                                                         *)
(* A guest or a member submits; the generate:pdf job renders and uploads;  *)
(* a registration claims the session of the cookie it carries and takes    *)
(* over its results; the owner changes the mascot; the daily purge deletes *)
(* guest results after 14 days; the anonymization of an account erases     *)
(* what the member left.  They share three tables and a bucket, nothing    *)
(* locks a result, and every query or storage call is a step of its own.   *)
(***************************************************************************)
EXTENDS Naturals, FiniteSets

CONSTANTS
    Guests,             \* guest sessions
    Users, CookieOf,    \* Register calls that get through; their session_id cookie
    Deleted,            \* the accounts whose deletion is carried out in the end
    Results,            \* submissions
    Edits, EditOf,      \* UpdateMascotStyle calls, and the result they are about
    MaxRetry,           \* Asynq's retry limit of generate:pdf
    MaxFaults,          \* bound: failed operations and worker deaths
    MaxStale,           \* bound: saves that overwrite a newer row
    Nobody, NoRow

Owners == Guests \union Users

ASSUME LifecycleAssumption ==
    /\ Guests \intersect Users = {} /\ Owners \intersect Results = {}
    /\ Nobody \notin Owners
    /\ CookieOf \in [Users -> Guests \union {Nobody}]
    /\ Deleted \subseteq Users
    /\ EditOf \in [Edits -> Results]
    /\ {MaxRetry, MaxFaults, MaxStale} \subseteq Nat

PdfStatus == {"pending", "processing", "completed", "failed"}

\* A row of test_results.  The prefix of the key in pdf_url, guest/<session>/
\* or member/<user>/, is all that matters of the URL: it names an owner.
Row == [user: Users \union {Nobody}, guest: Guests \union {Nobody},
        status: PdfStatus, url: Owners \union {Nobody}]

ASSUME NoRowAssumption == NoRow \notin Row

VARIABLES
    session,    \* session[g]: "never", "open" or "gone"
    claim,      \* claim[g]: claimed_by_user_id
    reg,        \* reg[u]: progress of the registration of u
    stage,      \* stage[r]: progress of the submission of r
    author,     \* author[r]: the session or account that sent it
    row,        \* row[r]: the row of r
    essays,     \* the results whose essay answers are stored
    audits,     \* the results with a prompt audit log
    objects,    \* <<owner, result>>: the reports in storage
    job,        \* job[r]: next step of the task of r
    key,        \* key[r]: the owner prefix of the row the task read
    tries,      \* tries[r]: retries of the task so far
    editAt,     \* editAt[e]: progress of the call e
    copy,       \* copy[e]: the row e read
    doomed,     \* the purge: snapshots of expired results yet to process
    hand,       \* ... the one whose report it has deleted
    leaving,    \* ... sessions it will delete
    anon,       \* anon[u]: progress of the anonymization of u
    files,      \* files[u]: reports it listed and has yet to delete
    aged,       \* sessions and results past their expires_at
    faults, stale,
    timely,     \* history: results claimed before they expired
    crossed,    \* history: results in the making while their owner was erased
    unrecorded  \* history: results whose task was lost without a trace

sessionVars == <<session, claim, reg>>
submitVars == <<stage, author>>
textVars == <<essays, audits>>
jobVars == <<job, key, tries>>
editVars == <<editAt, copy>>
purgeVars == <<doomed, hand, leaving>>
anonVars == <<anon, files>>
historyVars == <<timely, crossed, unrecorded>>
vars == <<sessionVars, submitVars, row, textVars, objects, jobVars, editVars,
          purgeVars, anonVars, aged, faults, stale, historyVars>>

Snapshot == [result: Results, url: Owners \union {Nobody}, guest: Guests]
Files == Owners \X Results

ResultTypeOK ==
    /\ session \in [Guests -> {"never", "open", "gone"}]
    /\ claim \in [Guests -> Users \union {Nobody}]
    /\ reg \in [Users -> {"new", "unclaimed", "plain", "registered"}]
    /\ stage \in [Results -> {"new", "submitting", "committed", "stored"}]
    /\ author \in [Results -> Owners \union {Nobody}]
    /\ row \in [Results -> Row \union {NoRow}]
    /\ essays \subseteq Results /\ audits \subseteq Results
    /\ objects \subseteq Files
    /\ job \in [Results -> {"none", "queued", "read", "marked", "uploaded"}]
    /\ key \in [Results -> Owners \union {Nobody}]
    /\ tries \in [Results -> 0 .. MaxRetry]
    /\ editAt \in [Edits -> {"new", "read", "done"}]
    /\ copy \in [Edits -> Row \union {NoRow}]
    /\ doomed \subseteq Snapshot /\ hand \subseteq Snapshot
    /\ leaving \subseteq Guests
    /\ anon \in [Users -> {"no", "listed", "again", "erased"}]
    /\ files \in [Users -> SUBSET Files]
    /\ aged \subseteq Guests \union Results
    /\ faults \in 0 .. MaxFaults /\ stale \in 0 .. MaxStale
    /\ timely \subseteq Results /\ crossed \subseteq Results
    /\ unrecorded \subseteq Results

Init ==
    /\ session = [g \in Guests |-> "never"] /\ claim = [g \in Guests |-> Nobody]
    /\ reg = [u \in Users |-> "new"]
    /\ stage = [r \in Results |-> "new"] /\ author = [r \in Results |-> Nobody]
    /\ row = [r \in Results |-> NoRow]
    /\ essays = {} /\ audits = {} /\ objects = {}
    /\ job = [r \in Results |-> "none"] /\ key = [r \in Results |-> Nobody]
    /\ tries = [r \in Results |-> 0]
    /\ editAt = [e \in Edits |-> "new"] /\ copy = [e \in Edits |-> NoRow]
    /\ doomed = {} /\ hand = {} /\ leaving = {}
    /\ anon = [u \in Users |-> "no"] /\ files = [u \in Users |-> {}]
    /\ aged = {} /\ faults = 0 /\ stale = 0
    /\ timely = {} /\ crossed = {} /\ unrecorded = {}

Stored(r) == row[r] # NoRow
Fault == faults < MaxFaults /\ faults' = faults + 1

\* expires_at is set for guest results and nothing clears it.
IsExpired(r) == author[r] \in Guests /\ r \in aged

\* findVisible
Visible(r) == Stored(r) /\ ~IsExpired(r)

OwnerOf(w) == IF w.user # Nobody THEN w.user ELSE w.guest
RowsOf(u) == {r \in Results : Stored(r) /\ row[r].user = u}

-----------------------------------------------------------------------------
\* Guest sessions and registrations

CreateGuestSession(g) ==
    /\ session[g] = "never"
    /\ session' = [session EXCEPT ![g] = "open"]
    /\ UNCHANGED <<claim, reg, submitVars, row, textVars, objects, jobVars, editVars,
                   purgeVars, anonVars, aged, faults, stale, historyVars>>

\* Register reads the cookie's session before it opens its transaction; the
\* session's expiry is not looked at.
ReadGuest(u) ==
    LET g == CookieOf[u]
    IN  /\ reg[u] = "new"
        /\ g # Nobody => session[g] # "never"
        /\ reg' = [reg EXCEPT ![u] =
               IF g # Nobody /\ session[g] = "open" /\ claim[g] = Nobody
               THEN "unclaimed" ELSE "plain"]
        /\ UNCHANGED <<session, claim, submitVars, row, textVars, objects, jobVars,
                       editVars, purgeVars, anonVars, aged, faults, stale, historyVars>>

\* Mutant: all the results the session ever submitted are taken over.
ReassignedAll(g, u) ==
    [r \in Results |->
        IF Stored(r) /\ author[r] = g
        THEN [row[r] EXCEPT !.user = u, !.guest = Nobody] ELSE row[r]]

\* ReassignGuestResults
Reassigned(g, u) ==
    [r \in Results |->
        IF Stored(r) /\ row[r].guest = g
        THEN [row[r] EXCEPT !.user = u, !.guest = Nobody] ELSE row[r]]

\* The transaction.  Guest.Update saves the whole session that was read: it
\* overwrites another claim and brings a purged session back.
RegisterTx(u) ==
    LET g == CookieOf[u]
    IN  /\ reg[u] \in {"unclaimed", "plain"}
        /\ reg' = [reg EXCEPT ![u] = "registered"]
        /\ \/ /\ reg[u] = "unclaimed"
              /\ session' = [session EXCEPT ![g] = "open"]
              /\ claim' = [claim EXCEPT ![g] = u]
              /\ row' = Reassigned(g, u)
              /\ timely' = timely \union
                     {r \in Results : Stored(r) /\ row[r].guest = g /\ ~IsExpired(r)}
           \/ /\ reg[u] = "plain"
              /\ UNCHANGED <<session, claim, row, timely>>
        /\ UNCHANGED <<submitVars, textVars, objects, jobVars, editVars, purgeVars,
                       anonVars, aged, faults, stale, crossed, unrecorded>>

-----------------------------------------------------------------------------
\* Submissions: the details are SubmitAssessment's.

\* The handler takes the identity from the access token or the cookie; whether
\* the session still exists is not checked.
BeginSubmit(r) ==
    /\ stage[r] = "new"
    /\ stage' = [stage EXCEPT ![r] = "submitting"]
    /\ \/ \E g \in Guests :
             /\ session[g] # "never" /\ g \notin aged
             /\ author' = [author EXCEPT ![r] = g]
             /\ UNCHANGED crossed
       \/ \E u \in Users :
             /\ reg[u] = "registered" /\ anon[u] # "erased"
             /\ author' = [author EXCEPT ![r] = u]
             /\ crossed' = IF anon[u] = "listed" THEN crossed \union {r} ELSE crossed
    /\ UNCHANGED <<sessionVars, row, textVars, objects, jobVars, editVars, purgeVars,
                   anonVars, aged, faults, stale, timely, unrecorded>>

NewRow(a) ==
    [user |-> IF a \in Users THEN a ELSE Nobody,
     guest |-> IF a \in Guests THEN a ELSE Nobody,
     status |-> "pending", url |-> Nobody]

CommitResult(r) ==
    /\ stage[r] = "submitting"
    /\ stage' = [stage EXCEPT ![r] = "committed"]
    /\ row' = [row EXCEPT ![r] = NewRow(author[r])]
    /\ essays' = essays \union {r}
    /\ audits' = audits \union {r}
    /\ UNCHANGED <<sessionVars, author, objects, jobVars, editVars, purgeVars, anonVars,
                   aged, faults, stale, historyVars>>

\* Mutant: the task is forgotten.
EnqueueNothing(r) ==
    /\ stage[r] = "committed"
    /\ stage' = [stage EXCEPT ![r] = "stored"]
    /\ UNCHANGED <<sessionVars, author, row, textVars, objects, jobVars, editVars, purgeVars,
                   anonVars, aged, faults, stale, historyVars>>

\* EnqueueGeneratePDF after the commit; an error is logged and forgotten.
Enqueue(r) ==
    /\ stage[r] = "committed"
    /\ stage' = [stage EXCEPT ![r] = "stored"]
    /\ \/ job' = [job EXCEPT ![r] = "queued"] /\ UNCHANGED <<faults, unrecorded>>
       \/ Fault /\ unrecorded' = unrecorded \union {r} /\ UNCHANGED job
    /\ UNCHANGED <<sessionVars, author, row, textVars, objects, key, tries, editVars, purgeVars,
                   anonVars, aged, stale, timely, crossed>>

-----------------------------------------------------------------------------
\* UpdateMascotStyle

\* findOwned: the caller is the owner of a visible row.
ReadForEdit(e) ==
    LET r == EditOf[e]
    IN  /\ editAt[e] = "new"
        /\ Visible(r)
        /\ row[r].user # Nobody => anon[row[r].user] # "erased"
        /\ editAt' = [editAt EXCEPT ![e] = "read"]
        /\ copy' = [copy EXCEPT ![e] = row[r]]
        /\ UNCHANGED <<sessionVars, submitVars, row, textVars, objects, jobVars, purgeVars,
                       anonVars, aged, faults, stale, historyVars>>

\* Update saves every column of the row that was read, or inserts it again.
SaveEdit(e) ==
    LET r == EditOf[e]
    IN  /\ editAt[e] = "read"
        /\ IF row[r] = copy[e] THEN UNCHANGED stale
           ELSE stale < MaxStale /\ stale' = stale + 1
        /\ editAt' = [editAt EXCEPT ![e] = "done"]
        /\ copy' = [copy EXCEPT ![e] = NoRow]
        /\ row' = [row EXCEPT ![r] = copy[e]]
        /\ UNCHANGED <<sessionVars, submitVars, textVars, objects, jobVars, purgeVars,
                       anonVars, aged, faults, historyVars>>

-----------------------------------------------------------------------------
\* The generate:pdf task

\* UpdatePDFStatus: an UPDATE by id, which does nothing when the row is gone.
UpdatePDFStatus(r, url, status) ==
    row' = IF Stored(r)
           THEN [row EXCEPT ![r].url = url, ![r].status = status] ELSE row

StartJob(r) ==
    /\ job[r] = "queued"
    /\ job' = [job EXCEPT ![r] = IF Stored(r) THEN "read" ELSE "none"]
    /\ key' = [key EXCEPT ![r] = IF Stored(r) THEN OwnerOf(row[r]) ELSE Nobody]
    /\ UNCHANGED <<sessionVars, submitVars, row, textVars, objects, tries, editVars,
                   purgeVars, anonVars, aged, faults, stale, historyVars>>

MarkProcessing(r) ==
    /\ job[r] = "read"
    /\ job' = [job EXCEPT ![r] = "marked"]
    /\ UpdatePDFStatus(r, Nobody, "processing")
    /\ UNCHANGED <<sessionVars, submitVars, textVars, objects, key, tries, editVars,
                   purgeVars, anonVars, aged, faults, stale, historyVars>>

\* objectKey is built from the row that was read at the start.
Upload(r) ==
    /\ job[r] = "marked"
    /\ job' = [job EXCEPT ![r] = "uploaded"]
    /\ objects' = objects \union {<<key[r], r>>}
    /\ UNCHANGED <<sessionVars, submitVars, row, textVars, key, tries, editVars,
                   purgeVars, anonVars, aged, faults, stale, historyVars>>

\* Mutant: the URL is computed from the row as it is now.
MarkCompletedOwner(r) ==
    /\ job[r] = "uploaded"
    /\ UpdatePDFStatus(r, IF Stored(r) THEN OwnerOf(row[r]) ELSE Nobody, "completed")
    /\ job' = [job EXCEPT ![r] = "none"]
    /\ key' = [key EXCEPT ![r] = Nobody]
    /\ UNCHANGED <<sessionVars, submitVars, textVars, objects, tries, editVars, purgeVars,
                   anonVars, aged, faults, stale, historyVars>>

\* The task ends, or its acknowledgement is lost and it is delivered again.
MarkCompleted(r) ==
    /\ job[r] = "uploaded"
    /\ UpdatePDFStatus(r, key[r], "completed")
    /\ \/ job' = [job EXCEPT ![r] = "none"] /\ UNCHANGED <<tries, faults>>
       \/ /\ Fault
          /\ tries[r] < MaxRetry
          /\ job' = [job EXCEPT ![r] = "queued"]
          /\ tries' = [tries EXCEPT ![r] = @ + 1]
    /\ key' = [key EXCEPT ![r] = Nobody]
    /\ UNCHANGED <<sessionVars, submitVars, textVars, objects, editVars, purgeVars,
                   anonVars, aged, stale, historyVars>>

\* An error or the worker's death: a retry, or, after the last attempt, the
\* ErrorHandler marks the row failed; a death or a failed update leave it as is.
JobFails(r) ==
    /\ job[r] \in {"queued", "read", "marked", "uploaded"}
    /\ Fault
    /\ \/ /\ tries[r] < MaxRetry
          /\ job' = [job EXCEPT ![r] = "queued"]
          /\ tries' = [tries EXCEPT ![r] = @ + 1]
          /\ UNCHANGED <<row, unrecorded>>
       \/ /\ tries[r] = MaxRetry
          /\ job' = [job EXCEPT ![r] = "none"]
          /\ \/ UpdatePDFStatus(r, Nobody, "failed") /\ UNCHANGED unrecorded
             \/ unrecorded' = unrecorded \union {r} /\ UNCHANGED row
          /\ UNCHANGED tries
    /\ key' = [key EXCEPT ![r] = Nobody]
    /\ UNCHANGED <<sessionVars, submitVars, textVars, objects, editVars, purgeVars,
                   anonVars, aged, stale, timely, crossed>>

-----------------------------------------------------------------------------
\* PurgeGuestTTLUseCase.Execute, daily.  A query that finds nothing changes
\* nothing: only runs with something to do are steps.

PurgeIdle == doomed = {} /\ hand = {} /\ leaving = {}

\* Mutant: only expires_at is looked at.
ExpiredResults == {r \in Results : Stored(r) /\ IsExpired(r)}

\* FindExpiredGuestResults: guest_session_id IS NOT NULL AND expires_at < now
ExpiredGuestResults == {r \in Results : Stored(r) /\ row[r].guest # Nobody /\ IsExpired(r)}

FindExpired ==
    /\ PurgeIdle
    /\ ExpiredGuestResults # {}
    /\ doomed' = {[result |-> r, url |-> row[r].url, guest |-> row[r].guest] :
                      r \in ExpiredGuestResults}
    /\ UNCHANGED <<sessionVars, submitVars, row, textVars, objects, jobVars, editVars,
                   hand, leaving, anonVars, aged, faults, stale, historyVars>>

\* Mutant: the report is left to the bucket.
PurgeSkipsPDF(x) ==
    /\ x \in doomed /\ hand = {}
    /\ doomed' = doomed \ {x} /\ hand' = {x}
    /\ UNCHANGED <<sessionVars, submitVars, row, textVars, objects, jobVars, editVars,
                   leaving, anonVars, aged, faults, stale, historyVars>>

\* Mutant: a result without a report is passed over.
PurgeNeedsPDF(x) ==
    /\ x \in doomed /\ hand = {}
    /\ doomed' = doomed \ {x}
    /\ hand' = IF x.url = Nobody THEN {} ELSE {x}
    /\ objects' = objects \ {<<x.url, x.result>>}
    /\ UNCHANGED <<sessionVars, submitVars, row, textVars, jobVars, editVars, leaving,
                   anonVars, aged, faults, stale, historyVars>>

PurgePDF(x) ==
    /\ x \in doomed /\ hand = {}
    /\ doomed' = doomed \ {x} /\ hand' = {x}
    /\ objects' = objects \ {<<x.url, x.result>>}
    /\ UNCHANGED <<sessionVars, submitVars, row, textVars, jobVars, editVars, leaving,
                   anonVars, aged, faults, stale, historyVars>>

\* Mutant: the audit log is left to its own TTL.
PurgeRowKeepsAudit(x) ==
    /\ x \in hand
    /\ hand' = {} /\ leaving' = leaving \union {x.guest}
    /\ row' = [row EXCEPT ![x.result] = NoRow]
    /\ essays' = essays \ {x.result}
    /\ UNCHANGED <<sessionVars, submitVars, audits, objects, jobVars, editVars, doomed,
                   anonVars, aged, faults, stale, historyVars>>

\* The transaction deletes by id, whoever owns the row by now.
PurgeRow(x) ==
    /\ x \in hand
    /\ hand' = {} /\ leaving' = leaving \union {x.guest}
    /\ row' = [row EXCEPT ![x.result] = NoRow]
    /\ essays' = essays \ {x.result} /\ audits' = audits \ {x.result}
    /\ UNCHANGED <<sessionVars, submitVars, objects, jobVars, editVars, doomed,
                   anonVars, aged, faults, stale, historyVars>>

\* A failed delete or transaction is skipped until the next run.
PurgeSkips(x) ==
    /\ Fault
    /\ \/ x \in doomed /\ hand = {} /\ doomed' = doomed \ {x} /\ UNCHANGED hand
       \/ x \in hand /\ hand' = {} /\ UNCHANGED doomed
    /\ UNCHANGED <<sessionVars, submitVars, row, textVars, objects, jobVars, editVars,
                   leaving, anonVars, aged, stale, historyVars>>

\* FindExpiredUnclaimed
FindOrphans ==
    /\ PurgeIdle
    /\ leaving' = {g \in Guests : /\ session[g] = "open" /\ g \in aged /\ claim[g] = Nobody
                                  /\ \A r \in Results : Stored(r) => row[r].guest # g}
    /\ leaving' # {}
    /\ UNCHANGED <<sessionVars, submitVars, row, textVars, objects, jobVars, editVars,
                   doomed, hand, anonVars, aged, faults, stale, historyVars>>

\* DeleteBySessionID, for the sessions of purged results and for the orphans
PurgeSession(g) ==
    /\ doomed = {} /\ hand = {} /\ g \in leaving
    /\ leaving' = leaving \ {g}
    /\ session' = [session EXCEPT ![g] = "gone"]
    /\ claim' = [claim EXCEPT ![g] = Nobody]
    /\ UNCHANGED <<reg, submitVars, row, textVars, objects, jobVars, editVars, doomed,
                   hand, anonVars, aged, faults, stale, historyVars>>

\* The worker dies; the task is delivered again or runs the next day.
PurgeDies ==
    /\ ~PurgeIdle
    /\ Fault
    /\ doomed' = {} /\ hand' = {} /\ leaving' = {}
    /\ UNCHANGED <<sessionVars, submitVars, row, textVars, objects, jobVars, editVars,
                   anonVars, aged, stale, historyVars>>

\* PurgeAuditTTLUseCase: the log of r is 30 days old, and r is stored and, if a
\* guest's, past its 14 days.
PurgeAudit(r) ==
    /\ r \in audits
    /\ stage[r] = "stored" /\ job[r] = "none"
    /\ author[r] \in Guests => r \in aged
    /\ audits' = audits \ {r}
    /\ UNCHANGED <<sessionVars, submitVars, row, essays, objects, jobVars, editVars,
                   purgeVars, anonVars, aged, faults, stale, historyVars>>

-----------------------------------------------------------------------------
\* The anonymization of an account: the queue and the retries are
\* DeletionLifecycle's.

Unfinished(r) == stage[r] \in {"submitting", "committed"} \/ job[r] # "none"

\* FindPDFURLsByUser
ListPDFs(u) ==
    /\ u \in Deleted /\ reg[u] = "registered" /\ anon[u] \in {"no", "again"}
    /\ anon' = [anon EXCEPT ![u] = "listed"]
    /\ files' = [files EXCEPT ![u] =
           {<<row[r].url, r>> : r \in {q \in RowsOf(u) : row[q].url # Nobody}}]
    /\ crossed' = crossed \union
           {r \in Results : Unfinished(r) /\ (author[r] = u \/ r \in RowsOf(u))}
    /\ UNCHANGED <<sessionVars, submitVars, row, textVars, objects, jobVars, editVars,
                   purgeVars, aged, faults, stale, timely, unrecorded>>

DeletePDF(u, f) ==
    /\ f \in files[u]
    /\ objects' = objects \ {f}
    /\ files' = [files EXCEPT ![u] = @ \ {f}]
    /\ UNCHANGED <<sessionVars, submitVars, row, textVars, jobVars, editVars, purgeVars,
                   anon, aged, faults, stale, historyVars>>

\* Mutant: the transaction does not wait for the deletions.
ScrubEarly(u) ==
    /\ anon[u] = "listed"
    /\ anon' = [anon EXCEPT ![u] = "erased"]
    /\ row' = [r \in Results |->
                  IF r \in RowsOf(u) THEN [row[r] EXCEPT !.url = Nobody] ELSE row[r]]
    /\ files' = [files EXCEPT ![u] = {}]
    /\ essays' = essays \ RowsOf(u)
    /\ audits' = audits \ RowsOf(u)
    /\ UNCHANGED <<sessionVars, submitVars, objects, jobVars, editVars, purgeVars,
                   aged, faults, stale, historyVars>>

\* The transaction; the queries go by user_id.
Scrub(u) ==
    /\ anon[u] = "listed" /\ files[u] = {}
    /\ anon' = [anon EXCEPT ![u] = "erased"]
    /\ row' = [r \in Results |->
                  IF r \in RowsOf(u) THEN [row[r] EXCEPT !.url = Nobody] ELSE row[r]]
    /\ essays' = essays \ RowsOf(u)
    /\ audits' = audits \ RowsOf(u)
    /\ UNCHANGED <<sessionVars, submitVars, objects, jobVars, editVars, purgeVars,
                   files, aged, faults, stale, historyVars>>

\* The job fails or its worker dies: the retry begins with the list again.
AnonymizeFails(u) ==
    /\ anon[u] = "listed"
    /\ Fault
    /\ anon' = [anon EXCEPT ![u] = "again"]
    /\ files' = [files EXCEPT ![u] = {}]
    /\ UNCHANGED <<sessionVars, submitVars, row, textVars, objects, jobVars, editVars,
                   purgeVars, aged, stale, historyVars>>

-----------------------------------------------------------------------------
\* Time: a session lives for 14 days and so does a result, from its later
\* submission; the submission and its task are over long before.
Age(g) ==
    /\ session[g] # "never" /\ g \notin aged
    /\ aged' = aged \union {g}
    /\ UNCHANGED <<sessionVars, submitVars, row, textVars, objects, jobVars, editVars,
                   purgeVars, anonVars, faults, stale, historyVars>>

AgeResult(r) ==
    /\ author[r] \in aged /\ r \notin aged
    /\ stage[r] = "stored" /\ job[r] = "none"
    /\ aged' = aged \union {r}
    /\ UNCHANGED <<sessionVars, submitVars, row, textVars, objects, jobVars, editVars,
                   purgeVars, anonVars, faults, stale, historyVars>>

-----------------------------------------------------------------------------
GuestStep == \E g \in Guests : CreateGuestSession(g) \/ Age(g)
RegisterStep == \E u \in Users : ReadGuest(u) \/ RegisterTx(u)
EditStep == \E e \in Edits : ReadForEdit(e) \/ SaveEdit(e)
JobRuns(r) == StartJob(r) \/ MarkProcessing(r) \/ Upload(r) \/ MarkCompleted(r)
PurgeRuns ==
    \/ FindExpired \/ FindOrphans
    \/ \E x \in doomed \union hand : PurgePDF(x) \/ PurgeRow(x)
    \/ \E g \in leaving : PurgeSession(g)
AnonymizeStep ==
    \E u \in Users : \/ ListPDFs(u) \/ Scrub(u) \/ AnonymizeFails(u)
                     \/ \E f \in files[u] : DeletePDF(u, f)

Next ==
    \/ GuestStep \/ RegisterStep \/ EditStep \/ PurgeRuns \/ PurgeDies \/ AnonymizeStep
    \/ \E r \in Results : \/ BeginSubmit(r) \/ CommitResult(r) \/ Enqueue(r)
                          \/ JobRuns(r) \/ JobFails(r)
                          \/ PurgeAudit(r) \/ AgeResult(r)
    \/ \E x \in doomed \union hand : PurgeSkips(x)

\* Handlers finish, Asynq delivers its tasks and the purge is scheduled daily.
Fairness ==
    /\ \A r \in Results : WF_vars(Enqueue(r)) /\ WF_vars(JobRuns(r))
    /\ WF_vars(PurgeRuns)

SafeSpec == Init /\ [][Next]_vars
Spec == SafeSpec /\ Fairness

-----------------------------------------------------------------------------
\* Properties

\* A result belongs to a member or to a guest session and never to both or to
\* none: objectKey dereferences guest_session_id when user_id is NULL, and
\* registrations, stale saves and the purge all rewrite the owner's columns.
OneOwner == \A r \in Results : Stored(r) => (row[r].user = Nobody) # (row[r].guest = Nobody)

\* A result claimed before it expired is never deleted, although it keeps the
\* expires_at of a guest's and the purge works on rows it read some time ago
\* (FindExpiredGuestResults, DeleteByID).
KeptOnceClaimed == stale = 0 => \A r \in timely : Stored(r)

\* A member's result never changes hands: of two registrations with one
\* cookie, each overwriting the other's claim, the first keeps the results.
OwnerIsFinal ==
    [][\A r \in Results :
          Stored(r) /\ row[r].user # Nobody /\ Stored(r)' /\ stale' = 0
          => row'[r].user = row[r].user]_vars

\* "R2 object deleted before DB row - no orphan files": without failures every
\* stored report is the one its row points to, or its task is about to say so;
\* a claim that moves the result to another owner does not lose the report.
Uploading(o, r) == job[r] = "uploaded" /\ key[r] = o

NoOrphanedObject ==
    faults = 0 /\ stale = 0 =>
        \A f \in objects :
            \/ Stored(f[2]) /\ row[f[2]].url = f[1]
            \/ Uploading(f[1], f[2])
            \/ f[2] \in crossed

\* An erased account has neither essays, nor prompt logs, nor reports, but for
\* a submission or a task that was running while it was erased.
ErasedMeansNoTraces ==
    stale = 0 /\ faults = 0 =>
        \A u \in Users : anon[u] = "erased" =>
            \A r \in RowsOf(u) \ crossed :
                /\ r \notin essays /\ r \notin audits
                /\ \A o \in Owners : <<o, r>> \notin objects

\* A purged result leaves nothing of the guest's words behind, even when the
\* purge failed halfway and ran again.
PurgedMeansForgotten ==
    \A r \in Results : stage[r] # "new" /\ ~Stored(r) => r \notin essays \union audits

\* The pdf_url of a visible result can be downloaded, whatever failed before,
\* unless its owner is being erased, or was while the task was running.
Downloadable ==
    stale = 0 =>
        \A r \in Results :
            Visible(r) /\ row[r].url # Nobody =>
                \/ <<row[r].url, r>> \in objects
                \/ row[r].user # Nobody /\ anon[row[r].user] \in {"listed", "again"}
                \/ r \in crossed

\* What the comment of IsExpired says: only guests' results expire.
OnlyGuestResultsExpire ==
    \A r \in Results : Stored(r) /\ row[r].user # Nobody => Visible(r)

\* Expired guest results are purged or claimed in the end, although a run
\* skips what fails and dies at any point.
ExpiredArePurged ==
    \A r \in Results : r \in ExpiredGuestResults ~> r \notin ExpiredGuestResults

\* A client that polls the status sees the end of it, unless the task was lost
\* by the enqueue, or by a death on its last attempt, or a stale save undid it.
Settled(r) == Stored(r) => row[r].status \in {"completed", "failed"}
PdfSettles ==
    \A r \in Results : Stored(r) ~> Settled(r) \/ r \in unrecorded \/ stale > 0
=============================================================================
