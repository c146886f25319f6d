-------------------------- MODULE SubmitAssessment --------------------------
(***************************************************************************)
(* POST /v1/assessments/submit: SubmitAssessmentUseCase.Execute of         *)
(* internal/application/assessment/submit_assessment.go, run by several    *)
(* API processes at once over Redis (lock, idempotency cache, Gemini       *)
(* budget), Postgres (results, audit logs, referral events) and the PDF    *)
(* queue.  The lock is DistributedLock: a key is "quota_lock:" + session,  *)
(* so Keys are the sessions.                                               *)
(*                                                                         *)
(* One request is one call of Execute; a client's retry is another request *)
(* with the same session, idempotency key and payload.                     *)
(***************************************************************************)
EXTENDS DistributedLock, FiniteSets

CONSTANTS
    Members,        \* the sessions that are member accounts; the rest are guests
    Referred,       \* the members who registered with a referral code
    CodeKnown,      \* ... that FindCodeByCode still finds
    Prior,          \* Prior[s]: results session s already has in the first month
    IdemKeys, IdemKeyOf,    \* Idempotency-Key of a request
    Payloads, PayloadOf,    \* answer set of a request, up to hashAnswers
    BadPayloads,    \* answer sets with an overlong essay or an unknown question;
    PlainPayloads,  \* ... without an essay worth sending to Gemini; one in both
                    \* is refused or not with the question bank of the moment
    MemberQuota, GuestQuota,
    Slots,          \* permits of a process's Gemini semaphore
    Budget,         \* daily Gemini budget, in calls that report their usage
    MaxMonth        \* bound: calendar months

ASSUME SubmitAssumption ==
    /\ Members \subseteq Keys /\ Referred \subseteq Members
    /\ CodeKnown \subseteq Referred
    /\ Prior \in [Keys -> Nat]
    /\ IdemKeyOf \in [Requests -> IdemKeys]
    /\ PayloadOf \in [Requests -> Payloads]
    /\ {MemberQuota, GuestQuota, Slots, Budget, MaxMonth} \subseteq Nat \ {0}

Quota(s) == IF s \in Members THEN MemberQuota ELSE GuestQuota

ASSUME PriorWithinQuota == \A s \in Keys : Prior[s] <= Quota(s)

\* As many sessions as there are, they are finitely many.
ASSUME SessionsAssumption == IsFiniteSet(Keys)

VARIABLES
    pc,        \* pc[r]: the next step of r's Execute
    answer,    \* answer[r]: what the client got, or will get after the release
    reply,     \* reply[r]: the result named by a 200 answer
    outcome,   \* outcome[r]: of the AI phase
    eligible,  \* eligible[r]: the submission earns a test_completed event
    stamp,     \* stamp[r]: the month of the result's created_at
    results,   \* the requests whose transaction committed a TEST_RESULT
    audits,    \* ... with a PROMPT_AUDIT_LOG row
    events,    \* ... with a test_completed referral event
    queued,    \* the results with a generate:pdf task
    cache,     \* cache[k]: the request whose response is cached under k
    slots,     \* slots[p]: permits of p's semaphore in use
    spent,     \* the day's Gemini consumption
    month,     \* the current Asia/Jakarta month
    before     \* history: before[r] = those r retries, answered before it arrived

submitVars == <<pc, answer, reply, outcome, eligible, stamp, results, audits,
                events, queued, cache, slots, spent, month, before>>
vars == <<lockVars, submitVars>>

Steps == {"new", "check", "acquire", "quota", "validate", "budget", "ai_wait",
          "ai_call", "consume", "referral", "commit", "enqueue", "save",
          "release", "done", "dead"}
Answers == {"none", "ok", "cached", "rejected", "key_reused", "locked",
            "quota_exceeded", "error"}
\* "static": Gemini not called; "flagged": called, but failed or unusable;
\* "metered"/"unmetered": completed, usage reported or not.
Outcomes == {"none", "static", "flagged", "metered", "unmetered", "flagged_metered"}

Session(r) == KeyOf[r]
SameSubmission(q, r) == IdemKeyOf[q] = IdemKeyOf[r] /\ PayloadOf[q] = PayloadOf[r]
Called(r) == outcome[r] \notin {"none", "static"}
Metered(r) == outcome[r] \in {"metered", "flagged_metered"}

SubmitTypeOK ==
    /\ LockTypeOK
    /\ pc \in [Requests -> Steps]
    /\ answer \in [Requests -> Answers]
    /\ reply \in [Requests -> Token]
    /\ outcome \in [Requests -> Outcomes]
    /\ eligible \in [Requests -> BOOLEAN]
    /\ stamp \in [Requests -> 0 .. MaxMonth]
    /\ {results, audits, events, queued} \subseteq SUBSET Requests
    /\ cache \in [IdemKeys -> Token]
    /\ slots \in [Procs -> 0 .. Slots]
    /\ spent \in Nat
    /\ month \in 1 .. MaxMonth
    /\ before \in [Requests -> SUBSET Requests]

Init ==
    /\ LockInit
    /\ pc = [r \in Requests |-> "new"]
    /\ answer = [r \in Requests |-> "none"]
    /\ reply = [r \in Requests |-> NoToken]
    /\ outcome = [r \in Requests |-> "none"]
    /\ eligible = [r \in Requests |-> FALSE]
    /\ stamp = [r \in Requests |-> 0]
    /\ results = {} /\ audits = {} /\ events = {} /\ queued = {}
    /\ cache = [k \in IdemKeys |-> NoToken]
    /\ slots = [p \in Procs |-> 0]
    /\ spent = 0
    /\ month = 1
    /\ before = [r \in Requests |-> {}]

-----------------------------------------------------------------------------
\* Queries of the repositories

\* CountMonthlyUsage, CountMonthlyUsageByGuestSession: created_at >= the start
\* of the current month; every committed result has one of the two statuses.
ResultsOf(s) == {q \in results : Session(q) = s}

\* Mutant: fallback_static results are not counted.
CompletedUsage(s, m) ==
    Cardinality({q \in ResultsOf(s) : stamp[q] >= m /\ outcome[q] = "metered"})
        + IF m = 1 THEN Prior[s] ELSE 0

MonthlyUsage(s, m) ==
    Cardinality({q \in ResultsOf(s) : stamp[q] >= m}) + IF m = 1 THEN Prior[s] ELSE 0

\* CountCompletedByUser: all time
NoneCompleted(s) == ResultsOf(s) = {} /\ Prior[s] = 0

-----------------------------------------------------------------------------
\* The steps of Execute

Goto(r, step) == pc' = [pc EXCEPT ![r] = step]

\* Return without having taken the lock.
Return(r, a) == Goto(r, "done") /\ answer' = [answer EXCEPT ![r] = a]

\* Return with the deferred ReleaseLock still to run.
Unwind(r, a) == Goto(r, "release") /\ answer' = [answer EXCEPT ![r] = a]

\* Validation and the per-IP limit; the limiter fails open on a Redis error, so
\* either verdict is possible whatever happens to Redis.
Arrive(r) ==
    /\ pc[r] = "new"
    /\ \/ Goto(r, "check") /\ UNCHANGED answer
       \/ Return(r, "rejected")
    /\ before' = [before EXCEPT ![r] = 
                      {q \in Requests : pc[q] = "done" /\ SameSubmission(q, r)}]
    /\ UNCHANGED <<lockVars, reply, outcome, eligible, stamp, results, audits,
                   events, queued, cache, slots, spent, month>>

\* Mutant: the payload hash is not compared.
CheckKeyOnly(r) ==
    LET hit == cache[IdemKeyOf[r]]
    IN  /\ pc[r] = "check"
        /\ IF hit = NoToken
           THEN Goto(r, "acquire") /\ UNCHANGED <<answer, reply>>
           ELSE Return(r, "cached") /\ reply' = [reply EXCEPT ![r] = hit]
        /\ UNCHANGED <<lockVars, outcome, eligible, stamp, results, audits,
                       events, queued, cache, slots, spent, month, before>>

\* IdempotencyService.Check
CheckIdempotency(r) ==
    LET hit == cache[IdemKeyOf[r]]
    IN  /\ pc[r] = "check"
        /\ \/ /\ hit = NoToken
              /\ Goto(r, "acquire") /\ UNCHANGED <<answer, reply, lockVars>>
           \/ /\ hit # NoToken /\ PayloadOf[hit] # PayloadOf[r]
              /\ Return(r, "key_reused") /\ UNCHANGED <<reply, lockVars>>
           \/ /\ hit # NoToken /\ PayloadOf[hit] = PayloadOf[r]
              /\ Return(r, "cached")
              /\ reply' = [reply EXCEPT ![r] = hit]
              /\ UNCHANGED lockVars
           \/ /\ OtherFault
              /\ Goto(r, "acquire") /\ UNCHANGED <<answer, reply>>
        /\ UNCHANGED <<outcome, eligible, stamp, results, audits, events,
                       queued, cache, slots, spent, month, before>>

\* AcquireLock and its three returns
Acquire(r) ==
    /\ pc[r] = "acquire"
    /\ \/ SetNX(r) /\ UNCHANGED <<pc, answer>>
       \/ Store(r) /\ Goto(r, "quota") /\ UNCHANGED answer
       \/ SetNXRefused(r) /\ Return(r, "locked")
       \/ SetNXFault(r) /\ Return(r, "error")
    /\ UNCHANGED <<reply, outcome, eligible, stamp, results, audits, events,
                   queued, cache, slots, spent, month, before>>

\* Mutant: an error returns past the deferred ReleaseLock.
FailKeepsLock(r, step) ==
    /\ pc[r] = step
    /\ Return(r, "error")
    /\ OtherFault
    /\ UNCHANGED <<reply, outcome, eligible, stamp, results, audits, events,
                   queued, cache, slots, spent, month, before>>

\* A database error between the acquisition and the commit.
FailAt(r, step) ==
    /\ pc[r] = step
    /\ Unwind(r, "error")
    /\ OtherFault
    /\ UNCHANGED <<reply, outcome, eligible, stamp, results, audits, events,
                   queued, cache, slots, spent, month, before>>

\* Mutant: one submission too many.
CheckQuotaOffByOne(r) ==
    /\ pc[r] = "quota"
    /\ IF MonthlyUsage(Session(r), month) <= Quota(Session(r))
       THEN Goto(r, "validate") /\ UNCHANGED answer
       ELSE Unwind(r, "quota_exceeded")
    /\ UNCHANGED <<lockVars, reply, outcome, eligible, stamp, results, audits,
                   events, queued, cache, slots, spent, month, before>>

\* CountMonthlyUsage under the lock, against the quota of members or guests.
CheckQuota(r) ==
    /\ pc[r] = "quota"
    /\ IF MonthlyUsage(Session(r), month) < Quota(Session(r))
       THEN Goto(r, "validate") /\ UNCHANGED answer
       ELSE Unwind(r, "quota_exceeded")
    /\ UNCHANGED <<lockVars, reply, outcome, eligible, stamp, results, audits,
                   events, queued, cache, slots, spent, month, before>>

\* loadQuestions, extractAndValidateEssays, filterGarbageEssays
ValidateAnswers(r) ==
    /\ pc[r] = "validate"
    /\ \/ /\ PayloadOf[r] \in BadPayloads
          /\ Unwind(r, "rejected") /\ UNCHANGED outcome
       \/ /\ PayloadOf[r] \in PlainPayloads
          /\ Goto(r, "referral") /\ UNCHANGED answer
          /\ outcome' = [outcome EXCEPT ![r] = "static"]
       \/ /\ PayloadOf[r] \notin BadPayloads \union PlainPayloads
          /\ Goto(r, "budget") /\ UNCHANGED <<answer, outcome>>
    /\ UNCHANGED <<lockVars, reply, eligible, stamp, results, audits, events,
                   queued, cache, slots, spent, month, before>>

\* GeminiBudgetService.Exceeded; a Redis error lets the call through.
CheckBudget(r) ==
    /\ pc[r] = "budget"
    /\ \/ /\ spent >= Budget
          /\ Goto(r, "referral")
          /\ outcome' = [outcome EXCEPT ![r] = "static"]
          /\ UNCHANGED lockVars
       \/ spent < Budget /\ Goto(r, "ai_wait") /\ UNCHANGED <<outcome, lockVars>>
       \/ /\ OtherFault
          /\ Goto(r, "ai_wait") /\ UNCHANGED outcome
    /\ UNCHANGED <<answer, reply, eligible, stamp, results, audits, events,
                   queued, cache, slots, spent, month, before>>

\* GenerateSummary: wait for a permit, on a context nothing cancels ...
AcquireSlot(r) ==
    /\ pc[r] = "ai_wait"
    /\ slots[ProcOf[r]] < Slots
    /\ slots' = [slots EXCEPT ![ProcOf[r]] = @ + 1]
    /\ Goto(r, "ai_call")
    /\ UNCHANGED <<lockVars, answer, reply, outcome, eligible, stamp, results,
                   audits, events, queued, cache, spent, month, before>>

\* Mutant: an error keeps the permit.
GenerateErrorKeepsSlot(r) ==
    /\ pc[r] = "ai_call"
    /\ \E o \in {"flagged", "metered"} :
          /\ outcome' = [outcome EXCEPT ![r] = o]
          /\ Goto(r, IF o = "metered" THEN "consume" ELSE "referral")
          /\ slots' = IF o = "metered" THEN [slots EXCEPT ![ProcOf[r]] = @ - 1] ELSE slots
    /\ UNCHANGED <<lockVars, answer, reply, eligible, stamp, results, audits,
                   events, queued, cache, spent, month, before>>

\* ... then call Gemini: an error or a 15s timeout, an answer ValidateOutput
\* refuses, or a summary.  The permit is returned on every path.
Generate(r) ==
    /\ pc[r] = "ai_call"
    /\ \E o \in {"flagged", "flagged_metered", "metered", "unmetered"} :
          /\ outcome' = [outcome EXCEPT ![r] = o]
          /\ Goto(r, IF o \in {"metered", "flagged_metered"} THEN "consume" ELSE "referral")
    /\ slots' = [slots EXCEPT ![ProcOf[r]] = @ - 1]
    /\ UNCHANGED <<lockVars, answer, reply, eligible, stamp, results, audits,
                   events, queued, cache, spent, month, before>>

\* GeminiBudgetService.Consume; an error is logged and forgotten.
Consume(r) ==
    /\ pc[r] = "consume"
    /\ Goto(r, "referral")
    /\ \/ spent' = spent + 1 /\ UNCHANGED lockVars
       \/ OtherFault /\ UNCHANGED spent
    /\ UNCHANGED <<answer, reply, outcome, eligible, stamp, results, audits,
                   events, queued, cache, slots, month, before>>

\* Mutant: earlier results are not looked at.
CheckReferralEveryTime(r) ==
    /\ pc[r] = "referral"
    /\ Goto(r, "commit")
    /\ stamp' = [stamp EXCEPT ![r] = month]
    /\ eligible' = [eligible EXCEPT ![r] = Session(r) \in Referred]
    /\ UNCHANGED <<lockVars, answer, reply, outcome, results, audits, events,
                   queued, cache, slots, spent, month, before>>

\* checkReferralEligibility (a database error means "not eligible"), then the
\* result is built with created_at = now.
CheckReferral(r) ==
    LET s == Session(r)
    IN  /\ pc[r] = "referral"
        /\ Goto(r, "commit")
        /\ stamp' = [stamp EXCEPT ![r] = month]
        /\ \/ /\ eligible' = [eligible EXCEPT ![r] = s \in Referred /\ NoneCompleted(s)]
              /\ UNCHANGED lockVars
           \/ OtherFault /\ UNCHANGED eligible
        /\ UNCHANGED <<answer, reply, outcome, results, audits, events, queued,
                       cache, slots, spent, month, before>>

\* The transaction: result, answers, audit log of a call, and the referral
\* event, unless the code is not found.
Commit(r) ==
    /\ pc[r] = "commit"
    /\ Goto(r, "enqueue")
    /\ results' = results \union {r}
    /\ audits' = IF Called(r) THEN audits \union {r} ELSE audits
    /\ events' = IF eligible[r] /\ Session(r) \in CodeKnown
                 THEN events \union {r} ELSE events
    /\ UNCHANGED <<lockVars, answer, reply, outcome, eligible, stamp, queued,
                   cache, slots, spent, month, before>>

\* EnqueueGeneratePDF; an error is logged and forgotten.
EnqueuePDF(r) ==
    /\ pc[r] = "enqueue"
    /\ Goto(r, "save")
    /\ \/ queued' = queued \union {r} /\ UNCHANGED lockVars
       \/ OtherFault /\ UNCHANGED queued
    /\ UNCHANGED <<answer, reply, outcome, eligible, stamp, results, audits,
                   events, cache, slots, spent, month, before>>

\* Mutant: the response is not cached.
SaveSkipped(r) ==
    /\ pc[r] = "save"
    /\ Unwind(r, "ok")
    /\ reply' = [reply EXCEPT ![r] = r]
    /\ UNCHANGED <<lockVars, cache, outcome, eligible, stamp, results, audits,
                   events, queued, slots, spent, month, before>>

\* IdempotencyService.Save overwrites; an error is logged and forgotten.
SaveIdempotency(r) ==
    /\ pc[r] = "save"
    /\ Unwind(r, "ok")
    /\ reply' = [reply EXCEPT ![r] = r]
    /\ \/ cache' = [cache EXCEPT ![IdemKeyOf[r]] = r] /\ UNCHANGED lockVars
       \/ OtherFault /\ UNCHANGED cache
    /\ UNCHANGED <<outcome, eligible, stamp, results, audits, events, queued,
                   slots, spent, month, before>>

\* The deferred ReleaseLock; its error is logged and forgotten.
Release(r) ==
    /\ pc[r] = "release"
    /\ ReleaseStep(r)
    /\ IF phase'[r] = "out" THEN Goto(r, "done") ELSE UNCHANGED pc
    /\ UNCHANGED <<answer, reply, outcome, eligible, stamp, results, audits,
                   events, queued, cache, slots, spent, month, before>>

-----------------------------------------------------------------------------
\* The environment

\* The TTL is 45s, and nothing bounds the time from the acquisition to the
\* release: the wait for a permit has no limit, a database call may be slow.
ExpireLock(k) == Expire(k) /\ UNCHANGED submitVars

\* The cached response reaches its 24h TTL: counted with the faults.
ExpireCache(k) ==
    /\ cache[k] # NoToken
    /\ cache' = [cache EXCEPT ![k] = NoToken]
    /\ OtherFault
    /\ UNCHANGED <<pc, answer, reply, outcome, eligible, stamp, results, audits,
                   events, queued, slots, spent, month, before>>

NextMonth ==
    /\ month < MaxMonth
    /\ month' = month + 1
    /\ UNCHANGED <<lockVars, pc, answer, reply, outcome, eligible, stamp,
                   results, audits, events, queued, cache, slots, spent, before>>

\* Process p dies with every request it serves; its semaphore starts afresh.
InFlight(r) == pc[r] \notin {"new", "done", "dead"}

CrashProcess(p) ==
    /\ \E r \in Requests : ProcOf[r] = p /\ InFlight(r)
    /\ Crash(p)
    /\ pc' = [r \in Requests |-> IF ProcOf[r] = p /\ InFlight(r) THEN "dead" ELSE pc[r]]
    /\ slots' = [slots EXCEPT ![p] = 0]
    /\ UNCHANGED <<answer, reply, outcome, eligible, stamp, results, audits,
                   events, queued, cache, spent, month, before>>

-----------------------------------------------------------------------------
\* What the server itself does for a request it has accepted
Proceed(r) ==
    \/ CheckIdempotency(r) \/ Acquire(r) \/ CheckQuota(r) \/ ValidateAnswers(r)
    \/ CheckBudget(r) \/ AcquireSlot(r) \/ Generate(r) \/ Consume(r)
    \/ CheckReferral(r) \/ Commit(r) \/ EnqueuePDF(r) \/ SaveIdempotency(r)
    \/ Release(r)
    \/ \E step \in {"quota", "validate", "commit"} : FailAt(r, step)

Next ==
    \/ \E r \in Requests : Arrive(r) \/ Proceed(r)
    \/ \E k \in Keys : ExpireLock(k)
    \/ \E k \in IdemKeys : ExpireCache(k)
    \/ \E p \in Procs : CrashProcess(p)
    \/ NextMonth

\* Every goroutine runs, Gemini answers or times out, Redis honours the TTL.
Fairness ==
    /\ \A r \in Requests : WF_vars(Proceed(r))
    /\ \A k \in Keys : WF_vars(ExpireLock(k))

SafeSpec == Init /\ [][Next]_vars
Spec == SafeSpec /\ Fairness

-----------------------------------------------------------------------------
\* Properties

\* What each session has used of its quota in each month.
Used ==
    [s \in Keys |-> [m \in 1 .. MaxMonth |->
        Cardinality({q \in ResultsOf(s) : stamp[q] = m})
            + IF m = 1 THEN Prior[s] ELSE 0]]

\* No session has more results in a month than its quota, although usage is
\* counted long before the result is inserted, on several processes, and a
\* month may end in between (CountMonthlyUsage under the quota lock).  A lock
\* that expires under its holder costs at most one result beyond the quota.
QuotaRespected ==
    \A s \in Keys, m \in 1 .. MaxMonth : Used[s][m] <= Quota(s) + overruns

\* As long as no lock overran, a session is locked by a request that is still
\* being served, or by one whose own SETNX or release Redis failed, or that
\* died: every rejection and every error between the acquisition and the commit
\* releases the lock instead of leaving it to the TTL (the deferred ReleaseLock).
NoSessionLockedOut ==
    overruns = 0 =>
        \A s \in Keys :
            redis[s] # NoToken => InFlight(redis[s]) \/ redis[s] \in stranded

\* A referred member earns the referrer one test_completed event, although
\* checkReferralEligibility counts the results before the transaction; a lock
\* that expires under its holder costs at most one event more.
OneReferralEvent ==
    \A s \in Keys : Cardinality({q \in events : Session(q) = s}) <= 1 + overruns

\* A 200 answer, fresh or from the cache, names a committed result made from
\* the answers of this very request.
AnswersAreDurable ==
    \A r \in Requests :
        reply[r] # NoToken =>
            /\ reply[r] \in results
            /\ PayloadOf[reply[r]] = PayloadOf[r]

\* A retry sent after the original was answered adds no second result, as long
\* as Redis and the database did not fail and the cache entry has not expired.
RetryIsIdempotent ==
    faults = 0 =>
        \A q, r \in Requests :
            SameSubmission(q, r) /\ q \in results /\ q \in before[r]
            => r \notin results

\* What the interface comment says without that condition: two requests with
\* one idempotency key and payload never both produce a result.
NeverDoubleSubmits ==
    faults = 0 =>
        \A q, r \in results :
            SameSubmission(q, r) => q = r

\* Requests that passed the budget check before it ran out may overshoot it,
\* but by less than one call per session: the quota lock bounds the AI phase to
\* one request of each session.  A lock that expires under its holder and a
\* budget check that Redis fails let at most one more call through each.
OvershootBounded == spent < Budget + Cardinality(Keys) + overruns + faults

\* Every accepted request is answered, unless its process dies: no permit, lock
\* or error path leaves a client waiting for ever.
EveryRequestAnswered ==
    \A r \in Requests : pc[r] = "check" ~> pc[r] \in {"done", "dead"}

-----------------------------------------------------------------------------
\* The abstract ledger this module implements when no lock overruns.
Ledger == INSTANCE QuotaLedger
    WITH Sessions <- Keys, Months <- 1 .. MaxMonth, used <- Used

ImplementsLedger == Ledger!Spec
=============================================================================
