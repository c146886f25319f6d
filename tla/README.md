# Verification of Your Persona Controller

TLA+ modules, TLC configurations and TLAPS proofs for the Go backend in `src/`:
an Echo API (`cmd/api`) and an Asynq worker (`cmd/worker`) over Postgres, Redis,
object storage (R2/MinIO), Gemini and SMTP.  Several API processes and several
workers run at once; what they share is in Postgres and Redis only.

Every definition carries the name of the code it models where TLA+ allows it.
`PROJECT.json` maps each of them to file and lines.

## 1. Inventory

| Component | State it keeps | Operations | Correct when |
|---|---|---|---|
| Distributed lock (`cache/redis/lock.go`) | Redis key with TTL; a `sync.Map` of tokens in each process, indexed by the *key* | AcquireLock, ReleaseLock | one holder per key; a release frees its own lock only; a key is not lost for good |
| Submit pipeline (`application/assessment/submit_assessment.go`) | TEST_RESULT, PROMPT_AUDIT_LOG, referral events, `idempotency_key:*` and `quota_lock:*` in Redis, a Gemini semaphore per process | Execute | monthly quota holds; a retry is not a second result; a 200 is backed by a committed row; every request is answered |
| Account deletion (`application/deletionrequest`) | `data_deletion_requests`, users, results, stored PDFs, anonymize tasks | RequestDeletion, CancelDeletion, ProcessExpired (scan), Anonymize (job) | completed means erased; a cancelled request is not carried out; every expired request is finished |
| Sessions and tokens (`application/auth/session.go`, `infrastructure/jwt`, `middleware/auth.go`, `token_store.go`, `UpdateProfile`) | `token_version`, failed-login count and lockout of a user, refresh denylist, reset jti in Redis | Login, VerifyEmailOTP, RefreshToken, Logout, LogoutAll, Reset/ChangePassword | a revoked token stays revoked; lockout after five failures; a reset link works once |
| One-time passwords (`application/auth/account.go`, `otp_rate_limit.go`) | verification tokens with attempts and used_at; cooldown and daily counter in Redis | create, resend, verify | bounded guesses; a code works once; bounded mails |
| Registration and guests (`register.go`, `create_guest_session.go`) | users, guest sessions and their claims, referral events | CreateGuestSession, Register with claim | all or nothing; one account for an address; a member counted once in the referral funnel |
| Results (`result_query.go`, `guestpurge`, `auditpurge`, `application/pdf`) | TEST_RESULT rows with owner, `expires_at`, `pdf_status`, `pdf_url`; essays, prompt logs, stored reports, generate:pdf tasks | submit, claim, mascot edit, render, upload, expire, purge, anonymize | one owner, who keeps the result; what is purged or erased is gone; status and object agree |
| Gemini daily budget (`cache/redis/gemini_budget.go`) | INCRBY counter per Jakarta day | Exceeded, Consume | overshoot bounded; each crossing logged once |
| Profile and referral codes (`profile.go`) | `referral_codes` (unique by user and by code) | GetReferralCode | one code for each user, and everyone who asks gets it |
| Per-IP rate limits (`ip_rate_limit.go`) | counter with TTL | Allow | windows end; no permanent block |
| Scoring (`scoring.go`) | none | ComputeScores | a score says what the answers say |
| Dashboard (`user_dashboard.go`, `insight_eval.go`) | none of its own | GetHistory, micro insights | paging misses nothing; dashboard and report agree |
| HTTP layer (`interfaces/http`) | none between requests | middleware, handlers, error handler | one answer, and its status is the truth |
| Mail, Turnstile/HIBP, renderer, i18n, seed, wiring | none of their own | - | - |

How they interact.  The API calls use cases; a use case calls repositories
(Postgres, mostly one statement at a time, transactions where stated), Redis
services and the Asynq dispatcher.  Asynq delivers at least once, with retry
limits (email 5, pdf 3, anonymize 5).  The worker runs one server for PDFs
(concurrency 2), one for everything else (8), an hourly deletion scan plus one
at boot, and daily purges.  GORM's `Save` writes every column of a row read
earlier.  There are no foreign keys; the unique indexes (e-mail, active deletion
request, referral code, share token, answer per question) are the only
database-level guards.

What is hard here: the interleaving of several processes with Redis locks that
expire; cached or counted values used after they became stale; Redis, database
and queue operations that fail one by one in the middle of a use case;
redelivered and overlapping jobs; full-row saves.  The list with lines is
`hazards` in `PROJECT.json`.  An entry names the properties that would fail if
the code handled it wrong; where a property sets a case apart, or none covers
it, a note beside the entry says so and why.

## 2. Modules

| Module | Role |
|---|---|
| `Mutex` | abstract lock: what the submit use case expects |
| `DistributedLock` | the Redis lock, refines `Mutex` |
| `QuotaLedger` | abstract monthly quota |
| `SubmitAssessment` | `Execute`, EXTENDS `DistributedLock`, refines `QuotaLedger` |
| `DeletionLifecycle` | requests, scans, jobs |
| `OneTimePassword` | the six-digit codes: send, validate, count, consume |
| `SessionRegistry` | what a client may rely on of the sessions of an account |
| `AccountSession` | `SessionUseCase` and `UpdateProfile` on one account, EXTENDS `OneTimePassword`, refines `SessionRegistry` |
| `ResultLifecycle` | a result between its owner, the PDF worker, the purges and the anonymization |
| `Registration` | concurrent calls of `Register`, claims, referral events |
| `RateLimits` | the limiters per address and per e-mail |
| `GeminiBudget` | the token counter over days and its log lines |
| `ReferralCodes` | the lazy creation of a referral code |
| `Scoring` | `ComputeScores` as operators over a growing answer list |
| `Dashboard` | the paged history and the insights |
| `HttpPipeline` | one request from the router to its status, at every endpoint |
| `Endpoints` | puts the last seven beside each other: they share no state, so a behaviour runs one of them |
| `*_proofs` | TLAPS proofs, one module for each component proved about: lock, submit, deletion, sessions, results, registration with referral codes, limits with the token budget, and the endpoints (requests, dashboard, scoring and the composition) |
| `MC*` | instances for TLC |

### Plan

Done: the core (lock, submission, deletion, sessions), every component with
state of its own, a theorem for every safety property the runs check, and the
refinements of `Mutex`, `QuotaLedger` and `SessionRegistry`.  Left:

1. The safety halves of the liveness properties as invariants of their own, like
   `OnlyLostExpireLocksOut` for `IpWindowsClose`: that a task that has not settled
   has a step left, and an expired request a scan that will find it.
2. An abstract specification of `DeletionLifecycle` (asked, cancelled or erased, once).

## 3. From the code to the modules

### DistributedLock

`redis[k]` is the Redis value, `tokens[p][k]` the `sync.Map` of process `p`.
`AcquireLock` is `SetNX` and then `Store`, since a crash, the TTL or another
request can come between the Redis call and the map write; `SetNXRefused` and
`SetNXFault` are its other two returns, the fault with Redis having executed
the command or not.  `ReleaseLock` is `LoadAndDelete` and then
`CompareAndDelete` or `ReleaseFault`.  `phase[r]` says how far a request is.
A UUID is unique, so a request is its own token.  `Expire` is the TTL: on a
finished request always possible, on a live one counted in `overruns`.

### SubmitAssessment

`pc[r]` walks through `Execute`: CheckIdempotency, Acquire, CheckQuota,
ValidateAnswers, CheckBudget, AcquireSlot, Generate, Consume, CheckReferral,
Commit, EnqueuePDF, SaveIdempotency, and the deferred Release on each path
after the lock was taken.  `answer[r]` is the client's answer, `reply[r]` the
result it names.  Errors the code logs and forgets (budget, consume, enqueue,
cache) go on; the others (`FailAt`) unwind through Release.  Payloads are
abstracted to whether they validate and whether they hold an essay worth
sending; one may be both, and is then refused or not, as the question bank has
it.  `ExpireLock` may take the lock of a *live* request at any step: the TTL is 45
seconds and nothing bounds the time between acquisition and release, the wait
for a semaphore least of all.  Each such expiry counts in `overruns`, and the
properties say what one overrun may cost.  `CodeKnown` are the referred members
whose code `Commit` still finds.  `CrashProcess` kills every request of a process
with its token map and semaphore; a request whose own SETNX or release failed in
Redis, or that died, is `stranded`.  `before[r]` is a history variable:
the requests that were answered when `r` arrived.

### DeletionLifecycle

A call of the API is `RequestDeletion` (look for an active row), `LookupUser`,
`CreateRow` (the partial unique index decides), or `CancelDeletion` and
`CancelRow` (compare-and-swap).  A scan is `FindExpired`, then for each row
`EnqueueAnonymize` and `MarkProcessing`, in this order, as in `ProcessExpired`.
A job is `StartJob`, `ListPDFs`, `DeletePDF` for each URL, `Scrub` (the
transaction), `Complete` (unconditional), `Notify`.  `Retry` is a failed step
or a dead worker: Asynq delivers again up to `MaxRetry` and then archives.
`elapsed` is the passing of 14 days for a row.

### OneTimePassword and AccountSession

`user` is the row of `users`, `codes` the rows of `verification_tokens`, `denied`
and `resets` the two kinds of Redis keys of the token store.  A use case is the
sequence of its database and Redis operations, one step each: a `Begin` (the
token that was presented, or `Login`'s read of the row), `Lookup` (`FindByID` or
`FindByEmail`, with the checks on the row), then codes (`CheckCode`, `SendCode`),
`Save`, `Issue`, `Deny`.  `read[c]` is the row as call `c` read it, and `Save`
writes *every* column of it, as GORM's `Save` does; `stale` counts the saves that
overwrote another call's password, version or erasure.  What GORM does when the
row is soft-deleted meanwhile (the `UPDATE` matches nothing, so it inserts over
the row) is its behaviour, not the repository's.

A pair of tokens is named by the call that issued it and carries the version
computed by that call.  `Accepted` is the test of the middleware and of a
refresh.  The history variables `basis` (the password a session goes back to,
through all refreshes) and `revoked` serve the properties only.

A call may stop anywhere, which is how errors that end a call are covered;
errors that the code logs and forgives (Redis on the denylist, the counters of
failed logins) are steps counted in `faults`.  Left out: the expiry of tokens
and codes (a denylist entry lives as long as its token, a `reset_jti` as long as
its token; expiry only makes a call stop), the rate limits, and the enqueueing
of emails.

### ResultLifecycle

`row[r]` is the row of a result reduced to its two owner columns, `pdf_status`
and the owner prefix in `pdf_url`; `objects` is the bucket.  `ReadGuest` and
`RegisterTx` are the two halves of a registration that claims a session,
`Reassigned` is `ReassignGuestResults`.  `StartJob`, `MarkProcessing`, `Upload`,
`MarkCompleted` are the steps of `GeneratePDFUseCase.Execute`; `JobFails` is an error or
a death with what Asynq and the worker's `ErrorHandler` make of it.  `FindExpired`
takes the purge's snapshot, `PurgePDF` and `PurgeRow` are its steps per result
and `PurgeSession` the one per session; `PurgeSkips` and `PurgeDies` its failures.
`ReadForEdit` and `SaveEdit` are `UpdateMascotStyle`, which saves the whole row it
read and so may undo or recreate anything; `stale` counts when it does.  `ListPDFs`,
`DeletePDF`, `Scrub` are the anonymization's, whose queue is `DeletionLifecycle`'s.
`aged` is the passing of 14 days: a result ages after its session and after its
task, whose retries are over in hours.

### Registration

`signup[s]` walks through `Register`: `Screen` (limiter, policy, breach check),
`LookupEmail`, `FindGuest`, and the transaction from `InsertUser` to `Commit`.
What the transaction writes becomes visible with `Commit`; the unique index
makes a second insert of an address wait (`InTransaction`).  A referral event is
recorded from what was read before; the count of the guest's results comes
*after* they were reassigned and therefore only sees one that was submitted in
between (`late`).  A member's later tests are `MemberTest`.

### RateLimits, GeminiBudget, ReferralCodes

Each Redis command or query is a step: `Incr` and `OpenWindow` of `Allow`;
`CheckCooldown`, `CheckDaily`, `CreateToken`, `SetCooldown` around
`OTPRateLimitService`; `IncrBy` and `Log` of `Consume`; `FindOwnCode`, `DrawCode`,
`CreateCode`, `FindWinner` of `GetReferralCode`.  TTLs are steps that may come at
any time; failures say whether the command was executed.

### Scoring, Dashboard, HttpPipeline

`Scoring` grows a list of answers and evaluates `ComputeScores` on it; the loops
that add up are `Tally`; percentages are kept exact as fractions and rounded as
the code does.  `Dashboard` is a client
that walks the pages of `GetHistory` (count, then list) while results are added,
and the insights computed from the newest results.  `HttpPipeline` has one action for each
stage: CSRF, locale, authentication required or optional, binding, captcha,
checks of the handler, the use case's outcome, the error handler.  `Router` says
which errors the handler of a route knows, `Raises` which ones its use case returns.

## 4. Runs

| Run | Question | Instance and bounds |
|---|---|---|
| `LockStolenRelease` (violation) | What if one lock outlives its TTL? | 4 acquisitions, 3 on one key in 2 processes, 1 overrun |
| `SubmitQuota` | Do lock and quota refine their abstract specifications at the edge of the quota and over a month boundary?  Is an answered request idempotent, the referral event unique, the lock released on every rejection and error, every accepted request answered? | a referred member with room for 1 result a month; a submission, its retry, a third one from another process that is refused or has no essay; 1 fault, 2 months, fairness |
| `SubmitShared` | Are answers durable, a foreign lock safe?  What do an overrun and a fault cost quota and budget? | member (quota 1) and guest (1 of 2 used), 2 processes, 1 permit, budget 1, 1 fault, 1 overrun |
| `SubmitDoubleSubmit` (violation) | Do two requests with one idempotency key ever both commit? | the quota instance with room for 3, no faults |
| `DeletionRaces` | Is a completed request really carried out, and every expired one finished, whatever overlaps, fails and is retried? | 1 user, 2 requests, 2 PDFs, 2 calls, 2 scans, 2 tasks, 1 retry, 2 faults, fairness |
| `DeletionCancelRace` (violation) | Is a cancelled request carried out? | 1 request, 2 calls, 1 scan, no faults |
| `SessionRaces` | Does a revoked session stay revoked and a session end with its password?  Is a reset token, a rotated token, a spent code refused? | 1 account, 3 calls of any kind, 2 passwords, 2 wrong codes or failed logins are too many, 1 error, 1 overwriting save |
| `SessionUnrevoked` (violation) | Is logout-all final? | the same, no errors |
| `ResultLifecycle` | Does a result keep its owner, its report, and nothing when it is purged or erased?  Does every task settle, every expired result go? | 1 result of a guest or of one of 2 members with the guest's cookie, 1 edit, 1 retry, 2 faults, 1 stale save, fairness |
| `OnlyGuestResultsExpire` (violation) | Is a claimed result its owner's for good? | the same, no faults, no stale save |
| `ReferralConversionMissed` (violation) | Is every referred member with a completed test a conversion? | 2 registrations with a known code, 1 with a guest session, no faults |
| `Endpoints` | The seven parts without shared state, each on its own | requests to every endpoint; 3 registrations, 2 of one address, 2 with one cookie, 1 fault; 4 requests of 2 addresses, limit 2; 2 senders, cap 2; 3 submissions over 2 days, budget 10, calls of 3, 7, 12; 3 askers of 2 users, 3 codes, 2 draws; 3 answers to 6 questions; 4 results in pages of 1 and 2 |

Deadlock checking is off everywhere: requests, calls and rows are finite sets,
so every instance ends; that nobody waits for ever is what `EventuallyFree`,
`EveryRequestAnswered`, `ExpiredRequestsEnd`, `ExpiredArePurged`, `PdfSettles` and
`IpWindowsClose` say.  Type invariants are not repeated in the runs: they are
theorems, and the first conjunct of every inductive invariant.

What the runs of `Endpoints` show.  `HonestAnswers`: a request gets one status, 2xx
exactly when its use case went through, 5xx only after an outage or an error
that no handler is told about, 4xx only for a flaw of the request or a named
error.  Its exceptions are the code's: an e-mail that `ResendEmailOTP` rejects
gives 500, because its handler maps rate limiting only
(`docs/swagger.yaml` documents 400 for it), and a member's submission is refused when
`OptionalAuth` cannot look the member up.  `SignupsAreWhole`: 201 names an account
with its mail, 409 an address that is taken; the loser of a race of two calls
gets 500; nobody is counted twice in the funnel.  Whether everybody is counted is
`ReferralConversionMissed`'s question.
`OtpSendsBounded`, `IpWindowsClose`: concurrent calls exceed the daily cap by less
than their number; a window ends unless its EXPIRE was lost.  `EachCrossingOnce`:
no line is logged twice, and one that was reached and is missing is the doing of the
one `Consume` that took the counter over it: it has not come to its log, stopped
before it, or went from below 80 per cent past the budget at once.
`OneReferralCode`, `PagesSkipNothing`, `InsightsAgree`, `ScoresAreMeans` say what their
comments say.

Why the bounds are enough.  The lock and the quota are races of two requests of
one session; the third makes a thief of the lock, a retry, or the competitor
for the permit.  Two processes are needed since a token map and a semaphore
belong to one.  One overrun produces every order of an expired request and its
successor.  One fault reaches every error path of the pipeline, two in the
deletion and result runs combine an error with a death or two lost
acknowledgements.  In the deletion run two tasks are two concurrent jobs of one
request, two rows a request after a cancelled one, two calls a request and its
cancellation or two concurrent requests.  In the session runs three
calls are a reader, a writer between its read and its save, and a third that uses
what they left; the limits of wrong codes and failed logins are two, so that the
calls can reach them.  In the result runs the results do not touch each other
except through one session, so one result with every actor around it meets every
race; two members share its cookie.  In `Endpoints` each part has one actor more than
its race needs, or a third that does not take part in it.  The theorems hold
without these bounds.

### Fairness

The lock: a request that was granted the lock goes on to store and to release
it, and Redis honours TTLs.  The pipeline: every goroutine runs (`Proceed`),
the Gemini call ends because of its 15 second timeout, keys expire.  Arrivals,
faults, crashes and the calendar are not fair.  Deletion: the scheduler ticks
every hour and workers take every queued task (`ScanStep`, `JobRuns`); calls,
faults and retries are not fair.  Results: a handler that committed goes on to
enqueue, workers take every task, the purge is scheduled daily.  Limits: a
request that counted to one goes on with its EXPIRE, Redis honours TTLs.  A
client's call may stop anywhere; the session runs check safety only and assume no
fairness.

### Findings

* `LockStolenRelease`: the token map is indexed by the lock key, so request A,
  whose lock expired, takes the token of the later request B of the same
  process and deletes B's lock.  `CHANGELOG.md:418` says the compare-and-delete
  prevents this.  `SubmitShared` and `ForeignLockKept` show that it is confined
  to one process.
* `SubmitDoubleSubmit`: the idempotency cache is read before the lock and not
  again under it; a request and its concurrent retry both commit.
  `submit_assessment.go:72-73` says a retry returns the original result.
  `RetryIsIdempotent` shows what does hold: a retry after the answer.
* `DeletionCancelRace`: the job is enqueued before the row is marked, and looks at
  the status once (`anonymize.go:113-115`).  In the trace it has passed that check
  when the cancellation succeeds, and the account of the cancelled request is
  scrubbed; `CHANGELOG.md:539` says such a request can no longer be cancelled.  A
  job that is still queued at the cancellation is dropped, as it should.  The order
  is not arbitrary: `ProcessingHasJob` fails for the other one.
* `SessionUnrevoked`: `UpdateProfile` saves the `token_version` it read, so a
  logout-all in between is undone; `docs/swagger.yaml:951-953` says every session
  is revoked.  `RevocationHolds` shows that such a save is the only way.
* `OnlyGuestResultsExpire`: a claim keeps the guest's `expires_at`, so the member's
  result is not found after 14 days; `test_result_entity.go:51` and `README.md:121`
  say that guest results expire.  `KeptOnceClaimed` shows that the purge does not
  delete it.
* `ReferralConversionMissed`: `Register` reassigns the guest's results before
  `recordReferralConversion` counts them (`register.go:276`), so a guest who tested and
  then registers with a code is a signup without a conversion for good;
  `docs/swagger.yaml:639-640` says the stats tell how many people signed up and
  completed a test.

Met while modelling and not run as findings: the wait for the semaphore has no
limit (`gemini/client.go:84`), so a lock that outlives its TTL lets a session exceed
its quota by one result; `gemini_budget.go:54-57` and `CHANGELOG.md:148` say that each
crossing of the token budget is logged exactly once per day, but a `Consume` whose
EXPIRE fails logs none, and one that goes from below 80 per cent to the budget logs
only the exhaustion; the lockout comes after five failed logins where
`docs/swagger.yaml:850` says ten; the confirmation of a deletion is lost if the
worker dies after `Complete`; the verification mail is queued before the commit
of its account.

## 5. Proofs

The proofs hold for every value of the constants that meets the named
assumptions (`LockAssumption`, `SubmitAssumption`, `PriorWithinQuota`,
`SessionsAssumption`, `DeletionAssumption`, `CodeAssumption`, `SessionAssumption`,
`LifecycleAssumption`, `NoRowAssumption`, `RegistrationAssumption`,
`LimiterAssumption`, `BudgetAssumption`, `ReferralAssumption`, `BankAssumption`,
`DashboardAssumption`); theorems that count add that the counted sets are finite.
TLC evaluates every assumption in the runs.  Every invariant and action property
of a passing run is the statement of a theorem, and TLC checked each inductive
invariant on the instance of its run before it was proved.

* **Lock.** Types are inductive.  `TokenHome` (a token is found in Redis, in the
  map of its own process or carried by a request of that process) gives
  `ForeignLockKept`, with any number of overruns.  `Ownership` (until an overrun
  a request inside its critical section has its token in Redis, and in the map
  once stored) gives `MutualExclusion`, `NoAbandonedLock` and, with
  `MaxOverruns = 0`, the refinement of `Mutex` and `ReleasesOwnLock`, so an overrun is
  the only cause of what `LockStolenRelease` finds.  Mutual exclusion alone is not
  inductive: nothing in it says whose value the key holds.  With overruns it
  degrades by one request each (`InsideBounded`).  The argument counts `Strays`, the
  requests inside whose token is not in Redis: an expiry makes one, and a late
  release that deletes the lock of another request makes that one a stray but
  ends being one itself.
* **Submit.** `SubmitUsesTheLock`: each step is a step of the lock or leaves it
  alone, so the lock's theorems apply.  `Control` ties `pc[r]` to the lock
  phase; so from the quota check to the commit a session has one request, and one
  more for each overrun (`WorkingBounded`).  Every bound below counts a set that is
  only entered from there and adds what it costs once it is spent:
  the results of a month and the requests past the quota check that will be stamped
  with it (`Holders`) for `QuotaRespected`, the events and the eligible requests
  about to commit (`Earners`) for `OneReferralEvent`, what is spent and the requests
  in the AI phase (`Spenders`) for `OvershootBounded`.  None of the three properties
  is inductive alone: a count that was read is only as good as the number of
  requests that may still act on it.  `NoSessionLockedOut` is `NoAbandonedLock` read
  through `Control`: whoever is past its release has let the lock go.  `Permits` (a
  semaphore counts its callers) gives the type of `slots`, `Committed` gives
  `AnswersAreDurable`, then `RetryIsIdempotent` and, with `MaxOverruns = 0`, the
  refinement of `QuotaLedger`.
* **Deletion.** `Wellformed` (types, and a row where a step needs one),
  `ExpiredOnly` (scans and jobs only hold expired rows, so no new one),
  `Erasing` (what is stored and not yet on a job's list cannot exist while the
  job deletes; after the scrub nothing is linked) for `NoOrphanedPDF` and
  `CompletedMeansErased`, `JobForRow` (a row about to be marked has a job) for
  `ProcessingHasJob`.  `OneActiveRequest`, `CompletedIsFinal` and
  `ConfirmedMeansCompleted` follow from the list of status changes.
* **Sessions.** `Path` (the steps an operation can be at, a pair is issued once)
  with `SingleUse` (a jti in Redis was granted and is consumed by nobody, a
  consumed one is no longer in Redis) gives `ResetTokenSingleUse`.  `Versions`:
  until a save overwrites a concurrent change, nothing that a call has read, is
  about to issue or has issued is ahead of the row's `token_version`, equal
  versions mean equal passwords, and every revoked pair is behind; from it
  `RevocationHolds` and `SessionsFollowPassword`.  Neither is inductive alone: a
  login or refresh under way holds a version that is not in any pair yet.
  They also give the refinement of `SessionRegistry` (`ImplementsRegistry`): a step
  leaves the version of the row, and with it every session, as it is, or puts it past
  all of them.  TLC agrees on the instance of `SessionRaces`, whose bounds it fits.
  `Counted` (a code counts at least the calls that guessed it wrong) gives
  `SpentCodeRejected`, `Denied` gives `RotatedTokenRejected`.
* **Results.** `ResultIInv`: rows appear with a commit and have one owner, and so do
  the copies edits hold; the purge only holds snapshots of results that had
  expired, and time does not go back; what was claimed in time has no guest
  session any more and is in none of those snapshots.  From it `KeptOnceClaimed`,
  `OwnerIsFinal`, `PurgedMeansForgotten` and `OneOwner`, the last two with any number
  of stale saves.  `KeptOnceClaimed` alone is not inductive: it says nothing of the
  purge that looked before the claim.  Most of the 27 actions are `Quiet`, which one
  lemma handles.  `TraceIInv` adds the traces: what a task has uploaded or is about
  to, the lists the purge and the anonymization took, and the row's `pdf_url` agree,
  and without faults a task runs once.  It gives `NoOrphanedObject`,
  `ErasedMeansNoTraces` and `Downloadable`; the last one needs no bound on faults.
* **Registration.** An address belongs to an account or an open transaction and to
  nobody else's (`AddressesAreUnique`), an account is there only when its call is
  over, a claim was read with its session; with these `SignupsAreWhole` is
  inductive.
* **Limits.** `WindowOwed` (a running counter has a TTL, a request about to set it, or
  a lost EXPIRE) is the safety half of `IpWindowsClose`.  `OtpSendsBounded` from two
  counts: every code is counted, uncounted, or between `CreateToken` and
  `SetCooldown`; and a call only comes to be under way while the counter is below
  the cap.
* **Referral codes.** A code is never taken away, so an answer stays true; a request
  about to insert holds a code and has a draw left.
* **Token budget.** INCRBY answers the end of the interval a `Consume` added.  The
  intervals of a day tile the counter (`Tiled`): exactly one contains a line that was
  reached, so at most one `Consume` logs it, and when it is missing that one is the
  reason (`EachCrossingOnce`).
* **Requests.** First the tables: for every route, each error its use case returns is
  known to the handler or one of the two exceptions (`ErrorsAreClassified`).  Then
  `PipelineIInv`: a request under way has written nothing, one that a handler takes
  for a guest's carried no good token or met an outage, and what is left to the
  error handler unanswered is a panic.
* **Dashboard.** The id of a result is its rank, so a page shows ids, and each insert
  pushes them one place down.  `UnseenAreBelow` (what the client wants and has not
  seen is below the pages it has seen) and `PagesAreCounted` (a list no older than
  its count leaves nothing below the last page) make `PagesSkipNothing` inductive.
  `InsightsAgree` holds of every state: the templates of a delta and of a threshold
  are disjoint, and both sides fall back to the same locale.
* **Scores.** `Tally` is a recursive function, so its equation is proved first: a
  solution exists, two agree, one more answer adds its share.  The library's
  induction rules take an operator as a parameter; here each induction is the least
  counterexample of `LeastNatural`, from the well-foundedness of `<`.
  `SumsWithinScales` is the invariant (no sum of a dimension leaves its scale, GRIT
  has one to five points an item), the rounded fraction of a sum lies between those
  of its parts (`MeanIsBetween`), and `ScoresAreMeans` follows for each trait, for any
  bank and number of answers.
* **Endpoints.** Each part's specification holds of the composition, and with it
  its theorem (`EndpointsAreSafe`).

Only model-checked: the six liveness properties (`EventuallyFree`,
`EveryRequestAnswered`, `ExpiredRequestsEnd`, `ExpiredArePurged`, `PdfSettles`,
`IpWindowsClose`), because the prover has no rule for fairness and ENABLED here.  The
properties of the runs that expect a violation are false, and what is proved
beside them says how far the code does hold.  No module declares a RECURSIVE
operator.

## 6. Not modelled

* The text heuristics of answer validation and of the wellbeing check (word
  lists, entropy); the payload that fails them is an outcome.
* In `SubmitAssessment`: scores, texts and the content of a result; the per-IP
  limiter is a free choice of Arrive; a budget is counted in metered calls; a
  commit whose acknowledgement is lost appears only as a crash right after it.
* In `DeletionLifecycle`: how often the confirmation is sent (two overlapping
  scans can enqueue two jobs, which both confirm); the rows scrubbed by the
  transaction are one step; a job's payload is the row, from which the code reads
  the user.
* In `ResultLifecycle`: sharing (a column nothing else depends on), the rendered
  content, the order of two results of one session.
* In `HttpPipeline`: headers, cookies, CORS, the text of the envelope, the locale that
  is chosen.  Passwords over 72 bytes, which bcrypt refuses, are one of the errors
  that wrap none of the application's.
* `Mail`, `PDF renderer, i18n, content catalogue` and `Start-up and tooling`: layout,
  wording, static content, configuration and transport, with no state of their
  own between two calls; third-party services appear as the outcomes their
  callers distinguish.
