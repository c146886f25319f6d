---------------------- MODULE DeletionLifecycle_proofs ----------------------
(***************************************************************************)
(* Proofs about DeletionLifecycle, for any number of users, requests, API  *)
(* calls, overlapping scans, queued jobs, retries and faults.              *)
(*                                                                         *)
(* Wellformed adds to the types what a row variable holds at which step;   *)
(* ExpiredOnly says that what a scan or a job works on has expired;        *)
(* Erasing relates what a job has listed to what is still stored;          *)
(* JobForRow is ProcessingHasJob extended to a row about to be marked.     *)
(***************************************************************************)
EXTENDS DeletionLifecycle, TLAPS

Wellformed ==
    /\ DeletionTypeOK
    /\ \A c \in Calls : call[c] = "cancel" => found[c] \in Rows
    /\ \A s \in Scans : scan[s] = "mark" => current[s] \in Rows
    /\ \A j \in Jobs : IF job[j] = "free" THEN jobRow[j] = NoRow ELSE jobRow[j] \in Rows

ExpiredOnly ==
    /\ \A r \in elapsed : status[r] # "absent"
    /\ \A s \in Scans : batch[s] \subseteq elapsed
    /\ \A s \in Scans : scan[s] = "mark" => current[s] \in elapsed
    /\ \A j \in Jobs : jobRow[j] \in elapsed \union {NoRow}

Erased(r) == RowUser[r] \in anonymized /\ linked \intersect PdfsOf(RowUser[r]) = {}

Erasing ==
    /\ objects \subseteq linked
    /\ \A j \in Jobs : job[j] = "delete" => objects \intersect PdfsOf(UserOf(j)) \subseteq urls[j]
    /\ \A j \in Jobs : job[j] \in {"complete", "notify"} => Erased(jobRow[j])
    /\ \A r \in Rows : status[r] = "completed" => Erased(r)

HasJob(r) == \E j \in Jobs : jobRow[j] = r

JobForRow ==
    /\ \A j \in Jobs : job[j] = "notify" => status[jobRow[j]] = "completed"
    /\ \A r \in Rows : status[r] = "processing" => r \in archived \/ HasJob(r)
    /\ \A s \in Scans :
          scan[s] = "mark" /\ status[current[s]] = "pending_grace" =>
              current[s] \in archived \/ HasJob(current[s])

-----------------------------------------------------------------------------
\* A fresh database is well formed.
LEMMA WellformedInit == ASSUME Init PROVE Wellformed
  BY DeletionAssumption DEF Init, Wellformed, DeletionTypeOK, Status, JobStep

\* No step of a call, a scan or a job breaks a type or loses the row it works on.
LEMMA WellformedStep == ASSUME Wellformed, [Next]_vars PROVE Wellformed'
<1> USE DeletionAssumption
<1>1. ASSUME NEW c \in Calls, CallStep(c) PROVE Wellformed'
  <2>1. CASE RequestDeletion(c)
    BY <2>1 DEF RequestDeletion, CallGoto, Wellformed, DeletionTypeOK, userVars, scanVars, jobVars
  <2>2. CASE LookupUser(c)
    BY <2>2 DEF LookupUser, CallGoto, Wellformed, DeletionTypeOK, userVars, scanVars, jobVars
  <2>3. CASE CreateRow(c)
    BY <2>3 DEF CreateRow, CallGoto, SetStatus, Wellformed, DeletionTypeOK, Status, userVars,
                scanVars, jobVars
  <2>4. CASE CancelDeletion(c)
    BY <2>4 DEF CancelDeletion, CallGoto, ActiveOf, Wellformed, DeletionTypeOK, userVars,
                scanVars, jobVars
  <2>5. CASE CancelRow(c)
    BY <2>5 DEF CancelRow, CallGoto, SetStatus, Wellformed, DeletionTypeOK, Status, userVars,
                scanVars, jobVars
  <2> QED BY <1>1, <2>1, <2>2, <2>3, <2>4, <2>5 DEF CallStep
<1>2. ASSUME NEW r \in Rows, Elapse(r) PROVE Wellformed'
  BY <1>2 DEF Elapse, Wellformed, DeletionTypeOK, userVars, callVars, scanVars, jobVars
<1>3. ASSUME NEW s \in Scans, ScanStep(s) \/ ScanFails(s) PROVE Wellformed'
  <2>1. CASE FindExpired(s)
    BY <2>1 DEF FindExpired, ScanNext, Wellformed, DeletionTypeOK, userVars, callVars, jobVars
  <2>2. CASE EnqueueAnonymize(s)
    BY <2>2 DEF EnqueueAnonymize, NewJob, Wellformed, DeletionTypeOK, JobStep, userVars, callVars
  <2>3. CASE MarkProcessing(s)
    BY <2>3 DEF MarkProcessing, ScanNext, SetStatus, Wellformed, DeletionTypeOK, Status,
                userVars, callVars, jobVars
  <2>4. CASE EnqueueFault(s)
    BY <2>4 DEF EnqueueFault, Fault, ScanNext, NewJob, Wellformed, DeletionTypeOK, JobStep,
                userVars, callVars, jobVars
  <2>5. CASE MarkFault(s)
    BY <2>5 DEF MarkFault, Fault, ScanNext, Wellformed, DeletionTypeOK, userVars, callVars, jobVars
  <2>6. CASE ScanDies(s)
    BY <2>6 DEF ScanDies, Fault, ScanNext, Wellformed, DeletionTypeOK, userVars, callVars, jobVars
  <2> QED BY <1>3, <2>1, <2>2, <2>3, <2>4, <2>5, <2>6 DEF ScanStep, ScanFails
<1>4. ASSUME NEW j \in Jobs, JobRuns(j) \/ Retry(j) PROVE Wellformed'
  <2>1. CASE StartJob(j)
    BY <2>1 DEF StartJob, Free, JobGoto, Wellformed, DeletionTypeOK, JobStep, userVars, callVars,
                scanVars
  <2>2. CASE ListPDFs(j)
    BY <2>2 DEF ListPDFs, JobGoto, Wellformed, DeletionTypeOK, JobStep, userVars, callVars,
                scanVars
  <2>3. CASE DeletePDF(j)
    BY <2>3 DEF DeletePDF, Wellformed, DeletionTypeOK, callVars, scanVars
  <2>4. CASE Scrub(j)
    BY <2>4 DEF Scrub, JobGoto, UserOf, Wellformed, DeletionTypeOK, JobStep, callVars, scanVars
  <2>5. CASE Complete(j)
    BY <2>5 DEF Complete, SetStatus, JobGoto, Wellformed, DeletionTypeOK, JobStep, Status,
                userVars, callVars, scanVars
  <2>6. CASE Notify(j)
    BY <2>6 DEF Notify, Free, Fault, JobGoto, Wellformed, DeletionTypeOK, JobStep, userVars,
                callVars, scanVars
  <2>7. CASE Retry(j)
    BY <2>7 DEF Retry, Free, Fault, JobGoto, Wellformed, DeletionTypeOK, JobStep, userVars,
                callVars, scanVars
  <2> QED BY <1>4, <2>1, <2>2, <2>3, <2>4, <2>5, <2>6, <2>7 DEF JobRuns
<1>5. CASE UNCHANGED vars
  BY <1>5 DEF Wellformed, DeletionTypeOK, vars, userVars, callVars, scanVars, jobVars
<1> QED BY <1>1, <1>2, <1>3, <1>4, <1>5 DEF Next

\* Every variable keeps its type: no job is retried more often than Asynq's
\* limit, and a row that a step refers to exists.
THEOREM DeletionTypeCorrect == SafeSpec => []DeletionTypeOK
<1>1. Init => Wellformed BY WellformedInit
<1>2. Wellformed /\ [Next]_vars => Wellformed' BY WellformedStep
<1>3. Wellformed => DeletionTypeOK BY DEF Wellformed
<1> QED BY <1>1, <1>2, <1>3, PTL DEF SafeSpec

\* Every reachable state is well formed.
LEMMA WellformedInvariant == SafeSpec => []Wellformed
<1>1. Init => Wellformed BY WellformedInit
<1>2. Wellformed /\ [Next]_vars => Wellformed' BY WellformedStep
<1> QED BY <1>1, <1>2, PTL DEF SafeSpec


\* The only steps that write a status.
LEMMA StatusSteps ==
  ASSUME [Next]_vars
  PROVE  \/ UNCHANGED status
         \/ \E c \in Calls : CreateRow(c) \/ CancelRow(c)
         \/ \E s \in Scans : MarkProcessing(s)
         \/ \E j \in Jobs : Complete(j)
  BY DEF Next, vars, CallStep, ScanStep, ScanFails, JobRuns, RequestDeletion, LookupUser,
         CancelDeletion, Elapse, FindExpired, EnqueueAnonymize, EnqueueFault, MarkFault,
         ScanDies, StartJob, ListPDFs, DeletePDF, Scrub, Notify, Retry

-----------------------------------------------------------------------------
\* Two requests of a user are never active together: the partial unique index
\* guards the creation, and no later step makes an ended request active.
THEOREM OneActiveRequestHolds == SafeSpec => []OneActiveRequest
<1>1. Init => OneActiveRequest
  BY DEF Init, OneActiveRequest, Active
<1>2. ASSUME Wellformed, OneActiveRequest, [Next]_vars PROVE OneActiveRequest'
  <2>1. status \in [Rows -> Status]
    BY <1>2 DEF Wellformed, DeletionTypeOK
  <2>2. ASSUME NEW c \in Calls, CreateRow(c) PROVE OneActiveRequest'
    BY <1>2, <2>1, <2>2 DEF CreateRow, SetStatus, ActiveOf, OneActiveRequest, Active, Status
  <2>3. ASSUME NEW c \in Calls, CancelRow(c) PROVE OneActiveRequest'
    BY <1>2, <2>1, <2>3 DEF CancelRow, SetStatus, OneActiveRequest, Active, Status
  <2>4. ASSUME NEW s \in Scans, MarkProcessing(s) PROVE OneActiveRequest'
    BY <1>2, <2>1, <2>4 DEF MarkProcessing, SetStatus, OneActiveRequest, Active, Status
  <2>5. ASSUME NEW j \in Jobs, Complete(j) PROVE OneActiveRequest'
    BY <1>2, <2>1, <2>5 DEF Complete, SetStatus, OneActiveRequest, Active, Status
  <2>6. CASE UNCHANGED status
    BY <1>2, <2>6 DEF OneActiveRequest, Active
  <2>7. UNCHANGED status
          \/ (\E c \in Calls : CreateRow(c) \/ CancelRow(c))
          \/ (\E s \in Scans : MarkProcessing(s))
          \/ (\E j \in Jobs : Complete(j))
    BY <1>2, StatusSteps
  <2> QED BY <2>2, <2>3, <2>4, <2>5, <2>6, <2>7
<1> QED BY <1>1, <1>2, WellformedInvariant, PTL DEF SafeSpec

\* A completed request stays completed: the two compare-and-swaps start from
\* pending_grace, and the only unconditional update writes completed.
THEOREM CompletedIsFinalHolds == SafeSpec => CompletedIsFinal
<1>1. ASSUME Wellformed, [Next]_vars
      PROVE [\A r \in Rows : status[r] = "completed" => status'[r] = "completed"]_vars
  <2>1. status \in [Rows -> Status]
    BY <1>1 DEF Wellformed, DeletionTypeOK
  <2> SUFFICES ASSUME NEW r \in Rows, status[r] = "completed" PROVE status'[r] = "completed"
    OBVIOUS
  <2>2. ASSUME NEW c \in Calls, CreateRow(c) \/ CancelRow(c) PROVE status'[r] = "completed"
    BY <2>1, <2>2 DEF CreateRow, CancelRow, SetStatus
  <2>3. ASSUME NEW s \in Scans, MarkProcessing(s) PROVE status'[r] = "completed"
    BY <2>1, <2>3 DEF MarkProcessing, SetStatus
  <2>4. ASSUME NEW j \in Jobs, Complete(j) PROVE status'[r] = "completed"
    BY <2>1, <2>4 DEF Complete, SetStatus
  <2> QED BY <1>1, <2>2, <2>3, <2>4, StatusSteps
<1> QED BY <1>1, WellformedInvariant, PTL DEF SafeSpec, CompletedIsFinal

-----------------------------------------------------------------------------
\* Scans and jobs only ever pick up rows that have expired.
LEMMA ExpiredOnlyStep ==
  ASSUME Wellformed, ExpiredOnly, [Next]_vars PROVE ExpiredOnly'
<1>1. /\ status \in [Rows -> Status]
      /\ elapsed \subseteq Rows
      /\ scan \in [Scans -> {"idle", "enqueue", "mark"}]
      /\ batch \in [Scans -> SUBSET Rows]
      /\ current \in [Scans -> Rows \union {NoRow}]
      /\ job \in [Jobs -> JobStep]
      /\ jobRow \in [Jobs -> Rows \union {NoRow}]
  BY DEF Wellformed, DeletionTypeOK
<1>2. ASSUME NEW c \in Calls, CreateRow(c) \/ CancelRow(c) PROVE ExpiredOnly'
  BY <1>1, <1>2 DEF CreateRow, CancelRow, SetStatus, ExpiredOnly, scanVars, jobVars
<1>3. ASSUME NEW r \in Rows, Elapse(r) PROVE ExpiredOnly'
  BY <1>1, <1>3 DEF Elapse, ExpiredOnly, scanVars, jobVars
<1>4. ASSUME NEW s \in Scans, ScanStep(s) \/ ScanFails(s) PROVE ExpiredOnly'
  <2>1. CASE FindExpired(s)
    BY <1>1, <2>1 DEF FindExpired, ScanNext, ExpiredOnly, jobVars
  <2>2. CASE EnqueueAnonymize(s)
    BY <1>1, <2>2 DEF EnqueueAnonymize, NewJob, ExpiredOnly
  <2>3. CASE MarkProcessing(s)
    BY <1>1, <2>3 DEF MarkProcessing, ScanNext, SetStatus, ExpiredOnly, jobVars
  <2>4. CASE EnqueueFault(s)
    BY <1>1, <2>4 DEF EnqueueFault, ScanNext, NewJob, ExpiredOnly, jobVars
  <2>5. CASE MarkFault(s) \/ ScanDies(s)
    BY <1>1, <2>5 DEF MarkFault, ScanDies, ScanNext, ExpiredOnly, jobVars
  <2> QED BY <1>4, <2>1, <2>2, <2>3, <2>4, <2>5 DEF ScanStep, ScanFails
<1>5. ASSUME NEW j \in Jobs, JobRuns(j) \/ Retry(j) PROVE ExpiredOnly'
  <2>1. CASE StartJob(j)
    BY <1>1, <2>1 DEF StartJob, Free, JobGoto, ExpiredOnly, scanVars
  <2>2. CASE ListPDFs(j) \/ DeletePDF(j) \/ Scrub(j)
    BY <1>1, <2>2 DEF ListPDFs, DeletePDF, Scrub, ExpiredOnly, scanVars
  <2>3. CASE Complete(j)
    BY <1>1, <2>3 DEF Complete, SetStatus, ExpiredOnly, scanVars
  <2>4. CASE Notify(j) \/ Retry(j)
    BY <1>1, <2>4 DEF Notify, Retry, Free, JobGoto, ExpiredOnly, scanVars
  <2> QED BY <1>5, <2>1, <2>2, <2>3, <2>4 DEF JobRuns
<1>6. ASSUME NEW c \in Calls, RequestDeletion(c) \/ LookupUser(c) \/ CancelDeletion(c)
      PROVE ExpiredOnly'
  BY <1>6 DEF RequestDeletion, LookupUser, CancelDeletion, ExpiredOnly, scanVars, jobVars
<1>7. CASE UNCHANGED vars
  BY <1>7 DEF ExpiredOnly, vars, scanVars, jobVars
<1> QED BY <1>2, <1>3, <1>4, <1>5, <1>6, <1>7 DEF Next, CallStep

\* Whatever a scan or a job works on has expired.
LEMMA ExpiredOnlyInvariant == SafeSpec => []ExpiredOnly
<1>1. Init => ExpiredOnly BY DEF Init, ExpiredOnly
<1>2. Wellformed /\ ExpiredOnly /\ [Next]_vars => ExpiredOnly' BY ExpiredOnlyStep
<1> QED BY <1>1, <1>2, WellformedInvariant, PTL DEF SafeSpec

-----------------------------------------------------------------------------
\* What a job listed covers what is stored, until the scrub and from then on.
LEMMA ErasingStep ==
  ASSUME Wellformed, Wellformed', Erasing, [Next]_vars PROVE Erasing'
<1> USE DEF Erased, PdfsOf, UserOf
<1>1. /\ status \in [Rows -> Status]
      /\ anonymized \subseteq Users
      /\ linked \subseteq Pdfs /\ objects \subseteq Pdfs
      /\ job \in [Jobs -> JobStep]
      /\ jobRow \in [Jobs -> Rows \union {NoRow}]
      /\ urls \in [Jobs -> SUBSET Pdfs]
      /\ \A j \in Jobs : job[j] # "free" => jobRow[j] \in Rows
  BY DEF Wellformed, DeletionTypeOK
<1>2. ASSUME NEW c \in Calls, CreateRow(c) \/ CancelRow(c) PROVE Erasing'
  BY <1>1, <1>2 DEF CreateRow, CancelRow, SetStatus, Erasing, userVars, jobVars
<1>3. ASSUME NEW s \in Scans, ScanStep(s) \/ ScanFails(s) PROVE Erasing'
  <2>1. CASE EnqueueAnonymize(s)
    BY <1>1, <2>1 DEF EnqueueAnonymize, NewJob, Erasing, userVars
  <2>2. CASE MarkProcessing(s)
    BY <1>1, <2>2 DEF MarkProcessing, SetStatus, Erasing, userVars, jobVars
  <2>3. CASE EnqueueFault(s)
    BY <1>1, <2>3 DEF EnqueueFault, NewJob, Erasing, userVars, jobVars
  <2>4. CASE FindExpired(s) \/ MarkFault(s) \/ ScanDies(s)
    BY <2>4 DEF FindExpired, MarkFault, ScanDies, Erasing, userVars, jobVars
  <2> QED BY <1>3, <2>1, <2>2, <2>3, <2>4 DEF ScanStep, ScanFails
<1>4. ASSUME NEW j \in Jobs, JobRuns(j) \/ Retry(j) PROVE Erasing'
  <2>1. CASE StartJob(j)
    BY <1>1, <2>1 DEF StartJob, Free, JobGoto, Erasing, userVars
  <2>2. CASE ListPDFs(j)
    BY <1>1, <2>2 DEF ListPDFs, JobGoto, Erasing, userVars
  <2>3. CASE DeletePDF(j)
    BY <1>1, <2>3 DEF DeletePDF, Erasing
  <2>4. CASE Scrub(j)
    BY <1>1, <2>4 DEF Scrub, JobGoto, Erasing
  <2>5. CASE Complete(j)
    BY <1>1, <2>5 DEF Complete, SetStatus, JobGoto, Erasing, userVars
  <2>6. CASE Notify(j) \/ Retry(j)
    BY <1>1, <2>6 DEF Notify, Retry, Free, JobGoto, Erasing, userVars
  <2> QED BY <1>4, <2>1, <2>2, <2>3, <2>4, <2>5, <2>6 DEF JobRuns
<1>5. ASSUME NEW c \in Calls, RequestDeletion(c) \/ LookupUser(c) \/ CancelDeletion(c)
      PROVE Erasing'
  BY <1>5 DEF RequestDeletion, LookupUser, CancelDeletion, Erasing, userVars, jobVars
<1>6. ASSUME NEW r \in Rows, Elapse(r) PROVE Erasing'
  BY <1>6 DEF Elapse, Erasing, userVars, jobVars
<1>7. CASE UNCHANGED vars
  BY <1>7 DEF Erasing, vars, userVars, jobVars
<1> QED BY <1>2, <1>3, <1>4, <1>5, <1>6, <1>7 DEF Next, CallStep

\* Erasing holds in every reachable state.
LEMMA ErasingInvariant == SafeSpec => []Erasing
<1>1. Init => Erasing BY DEF Init, Erasing
<1>2. Wellformed /\ Wellformed' /\ Erasing /\ [Next]_vars => Erasing' BY ErasingStep
<1> QED BY <1>1, <1>2, WellformedInvariant, PTL DEF SafeSpec

\* While a report is in storage a test result still points to it: the scrub,
\* which forgets the pointers, comes after every listed object is deleted.
THEOREM NoOrphanedPDFHolds == SafeSpec => []NoOrphanedPDF
<1>1. Erasing => NoOrphanedPDF BY DEF Erasing, NoOrphanedPDF
<1> QED BY <1>1, ErasingInvariant, PTL

\* A completed request leaves neither the account nor a report behind,
\* whatever failed, was retried or ran twice on the way.
THEOREM CompletedMeansErasedHolds == SafeSpec => []CompletedMeansErased
<1>1. Erasing => CompletedMeansErased BY DEF Erasing, Erased, CompletedMeansErased
<1> QED BY <1>1, ErasingInvariant, PTL

-----------------------------------------------------------------------------
\* Enqueueing comes before marking, and a job ends only with its row.
LEMMA JobForRowStep ==
  ASSUME Wellformed, ExpiredOnly, JobForRow, [Next]_vars PROVE JobForRow'
<1> USE DEF HasJob
<1>1. /\ status \in [Rows -> Status]
      /\ scan \in [Scans -> {"idle", "enqueue", "mark"}]
      /\ batch \in [Scans -> SUBSET Rows]
      /\ current \in [Scans -> Rows \union {NoRow}]
      /\ job \in [Jobs -> JobStep]
      /\ jobRow \in [Jobs -> Rows \union {NoRow}]
      /\ \A j \in Jobs : IF job[j] = "free" THEN jobRow[j] = NoRow ELSE jobRow[j] \in Rows
      /\ \A s \in Scans : scan[s] = "mark" => current[s] \in Rows
  BY DEF Wellformed, DeletionTypeOK
<1>2. ASSUME NEW c \in Calls, CreateRow(c) PROVE JobForRow'
  BY <1>1, <1>2 DEF CreateRow, SetStatus, JobForRow, ExpiredOnly, scanVars, jobVars
<1>3. ASSUME NEW c \in Calls, CancelRow(c) PROVE JobForRow'
  BY <1>1, <1>3 DEF CancelRow, SetStatus, JobForRow, scanVars, jobVars
<1>4. ASSUME NEW s \in Scans, ScanStep(s) \/ ScanFails(s) PROVE JobForRow'
  <2>1. CASE FindExpired(s)
    BY <1>1, <2>1 DEF FindExpired, ScanNext, JobForRow, jobVars
  <2>2. CASE EnqueueAnonymize(s)
    BY <1>1, <2>2, DeletionAssumption DEF EnqueueAnonymize, NewJob, JobForRow
  <2>3. CASE MarkProcessing(s)
    BY <1>1, <2>3 DEF MarkProcessing, ScanNext, SetStatus, JobForRow, jobVars
  <2>4. CASE EnqueueFault(s)
    BY <1>1, <2>4, DeletionAssumption DEF EnqueueFault, ScanNext, NewJob, JobForRow, jobVars
  <2>5. CASE MarkFault(s) \/ ScanDies(s)
    BY <1>1, <2>5 DEF MarkFault, ScanDies, ScanNext, JobForRow, jobVars
  <2> QED BY <1>4, <2>1, <2>2, <2>3, <2>4, <2>5 DEF ScanStep, ScanFails
<1>5. ASSUME NEW j \in Jobs, JobRuns(j) \/ Retry(j) PROVE JobForRow'
  <2>1. CASE StartJob(j)
    BY <1>1, <2>1 DEF StartJob, Free, JobGoto, JobForRow, scanVars
  <2>2. CASE ListPDFs(j) \/ DeletePDF(j) \/ Scrub(j)
    BY <1>1, <2>2 DEF ListPDFs, DeletePDF, Scrub, JobGoto, JobForRow, scanVars
  <2>3. CASE Complete(j)
    BY <1>1, <2>3 DEF Complete, SetStatus, JobGoto, JobForRow, scanVars
  <2>4. CASE Notify(j)
    BY <1>1, <2>4 DEF Notify, Free, JobGoto, JobForRow, scanVars
  <2>5. CASE Retry(j)
    BY <1>1, <2>5 DEF Retry, Free, JobGoto, JobForRow, scanVars
  <2> QED BY <1>5, <2>1, <2>2, <2>3, <2>4, <2>5 DEF JobRuns
<1>6. ASSUME NEW c \in Calls, RequestDeletion(c) \/ LookupUser(c) \/ CancelDeletion(c)
      PROVE JobForRow'
  BY <1>6 DEF RequestDeletion, LookupUser, CancelDeletion, JobForRow, scanVars, jobVars
<1>7. ASSUME NEW r \in Rows, Elapse(r) PROVE JobForRow'
  BY <1>7 DEF Elapse, JobForRow, scanVars, jobVars
<1>8. CASE UNCHANGED vars
  BY <1>8 DEF JobForRow, vars, scanVars, jobVars
<1> QED BY <1>2, <1>3, <1>4, <1>5, <1>6, <1>7, <1>8 DEF Next, CallStep

\* JobForRow holds in every reachable state.
LEMMA JobForRowInvariant == SafeSpec => []JobForRow
<1>1. Init => JobForRow BY DEF Init, JobForRow
<1>2. Wellformed /\ ExpiredOnly /\ JobForRow /\ [Next]_vars => JobForRow' BY JobForRowStep
<1> QED BY <1>1, <1>2, WellformedInvariant, ExpiredOnlyInvariant, PTL DEF SafeSpec

\* A row in processing always has a job to finish it, or one that ran out of
\* retries: the scan marks a row only after it enqueued the row's job.
THEOREM ProcessingHasJobHolds == SafeSpec => []ProcessingHasJob
<1>1. JobForRow => ProcessingHasJob BY DEF JobForRow, HasJob, ProcessingHasJob
<1> QED BY <1>1, JobForRowInvariant, PTL

\* A confirmation goes out only for a request that is and stays completed: the
\* job that sends it has completed the row, and no step reopens one.
THEOREM ConfirmedMeansCompletedHolds == SafeSpec => []ConfirmedMeansCompleted
<1>1. Init => ConfirmedMeansCompleted
  BY DEF Init, ConfirmedMeansCompleted
<1>2. ASSUME Wellformed, JobForRow, ConfirmedMeansCompleted, [Next]_vars,
             [\A r \in Rows : status[r] = "completed" => status'[r] = "completed"]_vars
      PROVE  ConfirmedMeansCompleted'
  <2>1. /\ emails \in [Rows -> Nat]
        /\ \A j \in Jobs : IF job[j] = "free" THEN jobRow[j] = NoRow ELSE jobRow[j] \in Rows
    BY <1>2 DEF Wellformed, DeletionTypeOK
  <2>2. ASSUME NEW j \in Jobs, Notify(j) PROVE ConfirmedMeansCompleted'
    BY <1>2, <2>1, <2>2 DEF Notify, JobForRow, ConfirmedMeansCompleted
  <2>3. CASE UNCHANGED emails
    BY <1>2, <2>3 DEF ConfirmedMeansCompleted, vars
  <2>4. UNCHANGED emails \/ \E j \in Jobs : Notify(j)
    BY <1>2 DEF Next, vars, CallStep, ScanStep, ScanFails, JobRuns, RequestDeletion, LookupUser,
             CreateRow, CancelDeletion, CancelRow, Elapse, FindExpired, EnqueueAnonymize,
             MarkProcessing, EnqueueFault, MarkFault, ScanDies, StartJob, ListPDFs, DeletePDF,
             Scrub, Complete, Retry
  <2> QED BY <2>2, <2>3, <2>4
<1> QED BY <1>1, <1>2, WellformedInvariant, JobForRowInvariant, CompletedIsFinalHolds, PTL
        DEF SafeSpec, CompletedIsFinal
=============================================================================
