----------------------- MODULE SubmitAssessment_proofs -----------------------
(***************************************************************************)
(* Proofs about SubmitAssessment, for any number of sessions, requests,    *)
(* processes, permits, months, faults and overruns.                        *)
(*                                                                         *)
(* Every step of a submission is a step of the lock or leaves it alone, so *)
(* the lock's theorems carry over.  Control ties a request's program       *)
(* counter to its phase in the lock; with the lock's bound it says how     *)
(* many requests of one session are between the quota check and the end of *)
(* the transaction, which is what the other invariants need.               *)
(***************************************************************************)
EXTENDS SubmitAssessment, DistributedLock_proofs

\* Every step of a submission is a step of the lock or leaves it alone.
LEMMA StepsOfTheLock == [Next]_vars => [LockNext]_lockVars
<1> SUFFICES ASSUME [Next]_vars
             PROVE  [LockNext]_lockVars
  OBVIOUS
<1>1. ASSUME NEW r \in Requests, Arrive(r)
      PROVE  [LockNext]_lockVars
  BY <1>1 DEF Arrive
<1>2. ASSUME NEW r \in Requests, CheckIdempotency(r)
      PROVE  [LockNext]_lockVars
  BY <1>2 DEF CheckIdempotency, LockNext
<1>3. ASSUME NEW r \in Requests, Acquire(r)
      PROVE  [LockNext]_lockVars
  BY <1>3 DEF Acquire, LockNext, AcquireStep
<1>4. ASSUME NEW r \in Requests,
             CheckQuota(r) \/ ValidateAnswers(r) \/ AcquireSlot(r) \/ Generate(r) \/ Commit(r)
      PROVE  [LockNext]_lockVars
  BY <1>4 DEF CheckQuota, ValidateAnswers, AcquireSlot, Generate, Commit
<1>5. ASSUME NEW r \in Requests,
             \/ CheckBudget(r) \/ Consume(r) \/ CheckReferral(r) \/ EnqueuePDF(r)
             \/ SaveIdempotency(r)
             \/ \E step \in {"quota", "validate", "commit"} : FailAt(r, step)
      PROVE  [LockNext]_lockVars
  BY <1>5 DEF CheckBudget, Consume, CheckReferral, EnqueuePDF, SaveIdempotency, FailAt, LockNext
<1>6. ASSUME NEW r \in Requests, Release(r)
      PROVE  [LockNext]_lockVars
  BY <1>6 DEF Release, LockNext
<1>7. ASSUME NEW k \in Keys, ExpireLock(k)
      PROVE  [LockNext]_lockVars
  BY <1>7 DEF ExpireLock, LockNext
<1>8. ASSUME NEW k \in IdemKeys, ExpireCache(k)
      PROVE  [LockNext]_lockVars
  BY <1>8 DEF ExpireCache, LockNext
<1>9. ASSUME NEW p \in Procs, CrashProcess(p)
      PROVE  [LockNext]_lockVars
  BY <1>9 DEF CrashProcess, LockNext
<1>10. CASE NextMonth \/ UNCHANGED vars
  BY <1>10 DEF NextMonth, vars
<1>11. QED
  BY <1>1, <1>2, <1>3, <1>4, <1>5, <1>6, <1>7, <1>8, <1>9, <1>10 DEF Next, Proceed

\* The submit handler uses the lock as the lock's specification allows.
THEOREM SubmitUsesTheLock == SafeSpec => LockSafety
<1>1. Init => LockInit
  BY DEF Init
<1>2. QED
  BY <1>1, StepsOfTheLock, PTL DEF SafeSpec, LockSafety

-----------------------------------------------------------------------------
(***************************************************************************)
(* Program counter and lock phase.                                         *)
(***************************************************************************)
Working == {"quota", "validate", "budget", "ai_wait", "ai_call", "consume",
            "referral", "commit", "enqueue", "save"}

ControlOf(r) ==
    /\ pc[r] \in {"new", "check"} => phase[r] = "idle"
    /\ pc[r] = "acquire" => phase[r] \in {"idle", "claimed"}
    /\ pc[r] \in Working => phase[r] = "holding"
    /\ pc[r] = "release" => phase[r] \in {"holding", "releasing"}
    /\ pc[r] \in {"done", "dead"} => phase[r] \in {"idle", "out"}

Control ==
    /\ pc \in [Requests -> Steps]
    /\ \A r \in Requests : ControlOf(r)

\* Program counters and lock phases move together.
LEMMA ControlStep ==
    ASSUME LockTypeOK, Control, [Next]_vars
    PROVE  Control'
<1> USE DEF LockTypeOK, Steps, Working, Control, ControlOf, Goto, Return, Unwind
<1>1. ASSUME NEW r \in Requests, Arrive(r)
      PROVE  Control'
  BY <1>1 DEF Arrive, lockVars
<1>2. ASSUME NEW r \in Requests, CheckIdempotency(r)
      PROVE  Control'
  BY <1>2 DEF CheckIdempotency, lockVars, OtherFault
<1>3. ASSUME NEW r \in Requests, Acquire(r)
      PROVE  Control'
  <2>1. CASE SetNX(r) /\ UNCHANGED pc
    BY <1>3, <2>1 DEF Acquire, SetNX, Phase
  <2>2. CASE Store(r) /\ Goto(r, "quota")
    BY <1>3, <2>2 DEF Acquire, Store, Phase
  <2>3. CASE SetNXRefused(r) /\ Return(r, "locked")
    BY <1>3, <2>3 DEF Acquire, SetNXRefused, Phase
  <2>4. CASE SetNXFault(r) /\ Return(r, "error")
    BY <1>3, <2>4 DEF Acquire, SetNXFault, Phase
  <2>5. QED
    BY <1>3, <2>1, <2>2, <2>3, <2>4 DEF Acquire
<1>4. ASSUME NEW r \in Requests, CheckQuota(r) \/ ValidateAnswers(r)
      PROVE  Control'
  BY <1>4 DEF CheckQuota, ValidateAnswers, lockVars
<1>5. ASSUME NEW r \in Requests, AcquireSlot(r) \/ Generate(r) \/ Commit(r)
      PROVE  Control'
  BY <1>5 DEF AcquireSlot, Generate, Commit, lockVars
<1>6. ASSUME NEW r \in Requests, CheckBudget(r) \/ Consume(r)
      PROVE  Control'
  BY <1>6 DEF CheckBudget, Consume, OtherFault, lockVars
<1>7. ASSUME NEW r \in Requests, CheckReferral(r) \/ EnqueuePDF(r)
      PROVE  Control'
  BY <1>7 DEF CheckReferral, EnqueuePDF, OtherFault, lockVars
<1>8. ASSUME NEW r \in Requests, SaveIdempotency(r)
      PROVE  Control'
  BY <1>8 DEF SaveIdempotency, OtherFault, lockVars
<1>9. ASSUME NEW r \in Requests, NEW step \in {"quota", "validate", "commit"},
             FailAt(r, step)
      PROVE  Control'
  BY <1>9 DEF FailAt, OtherFault
<1>10. ASSUME NEW r \in Requests, Release(r)
       PROVE  Control'
  <2>1. CASE LoadAndDelete(r)
    BY <1>10, <2>1 DEF Release, LoadAndDelete, Phase
  <2>2. CASE CompareAndDelete(r)
    BY <1>10, <2>2 DEF Release, CompareAndDelete, Phase
  <2>3. CASE ReleaseFault(r)
    BY <1>10, <2>3 DEF Release, ReleaseFault, Phase
  <2>4. QED
    BY <1>10, <2>1, <2>2, <2>3 DEF Release, ReleaseStep
<1>11. ASSUME NEW k \in Keys, ExpireLock(k)
       PROVE  Control'
  BY <1>11 DEF ExpireLock, Expire, submitVars
<1>12. ASSUME NEW k \in IdemKeys, ExpireCache(k)
       PROVE  Control'
  BY <1>12 DEF ExpireCache, OtherFault
<1>13. ASSUME NEW p \in Procs, CrashProcess(p)
       PROVE  Control'
  BY <1>13 DEF CrashProcess, Crash, Dies, Live, InFlight
<1>14. CASE NextMonth \/ UNCHANGED vars
  BY <1>14 DEF NextMonth, vars, lockVars, submitVars
<1>15. QED
  BY <1>1, <1>2, <1>3, <1>4, <1>5, <1>6, <1>7, <1>8, <1>9, <1>10, <1>11,
     <1>12, <1>13, <1>14 DEF Next, Proceed

\* Control holds in every reachable state.
LEMMA ControlInvariant == SafeSpec => [](LockTypeOK /\ Control)
<1>1. Init => Control
  BY DEF Init, LockInit, Control, ControlOf, Steps, Working
<1>2. SafeSpec => []LockTypeOK
  BY SubmitUsesTheLock, LockTypeCorrect, PTL
<1>3. QED
  BY <1>1, <1>2, ControlStep, PTL DEF SafeSpec

\* Unless a lock overran, a locked session has a request in flight or one that
\* Redis failed or that died: no rejection and no database error of the handler
\* leaves the lock to its TTL.
THEOREM NoSessionLockedOutHolds == SafeSpec => []NoSessionLockedOut
<1>1. LockTypeOK /\ Control /\ NoAbandonedLock => NoSessionLockedOut
  BY LockAssumption
     DEF LockTypeOK, Token, Control, ControlOf, Working, Steps, NoAbandonedLock,
         NoSessionLockedOut, Live, InFlight
<1>2. QED
  BY <1>1, ControlInvariant, SubmitUsesTheLock, NoAbandonedLockHolds, PTL

-----------------------------------------------------------------------------
(***************************************************************************)
(* Types.  That slots[p] stays between 0 and Slots needs the accounting of *)
(* the semaphore: it counts the requests of p that are calling Gemini.     *)
(***************************************************************************)
Calling(p) == {r \in Requests : ProcOf[r] = p /\ pc[r] = "ai_call"}

Permits ==
    \A p \in Procs : IsFiniteSet(Calling(p)) /\ slots[p] = Cardinality(Calling(p))

\* No permit is in use at the start.
LEMMA PermitsInit == Init => Permits
<1> SUFFICES ASSUME Init, NEW p \in Procs
             PROVE  IsFiniteSet(Calling(p)) /\ slots[p] = Cardinality(Calling(p))
  BY DEF Permits
<1>1. Calling(p) = {}
  BY DEF Calling, Init
<1>2. QED
  BY <1>1, FS_EmptySet DEF Init

\* A permit is taken and returned with the call it was taken for.
LEMMA PermitsStep ==
    ASSUME SubmitTypeOK, Permits, [Next]_vars
    PROVE  Permits'
<1> USE LockAssumption
    DEF SubmitTypeOK, Steps, Permits, Goto, Return, Unwind
<1>1. ASSUME NEW r \in Requests, AcquireSlot(r)
      PROVE  Permits'
  <2>1. r \notin Calling(ProcOf[r])
    BY <1>1 DEF AcquireSlot, Calling
  <2>2. Calling(ProcOf[r])' = Calling(ProcOf[r]) \union {r}
    BY <1>1 DEF AcquireSlot, Calling
  <2>3. \A p \in Procs : p # ProcOf[r] => Calling(p)' = Calling(p)
    BY <1>1 DEF AcquireSlot, Calling
  <2>4. /\ IsFiniteSet(Calling(ProcOf[r])')
        /\ Cardinality(Calling(ProcOf[r])') = Cardinality(Calling(ProcOf[r])) + 1
    BY <2>1, <2>2, FS_AddElement
  <2>5. QED
    BY <1>1, <2>3, <2>4 DEF AcquireSlot
<1>2. ASSUME NEW r \in Requests, Generate(r)
      PROVE  Permits'
  <2>1. r \in Calling(ProcOf[r])
    BY <1>2 DEF Generate, Calling
  <2>2. Calling(ProcOf[r])' = Calling(ProcOf[r]) \ {r}
    BY <1>2 DEF Generate, Calling
  <2>3. \A p \in Procs : p # ProcOf[r] => Calling(p)' = Calling(p)
    BY <1>2 DEF Generate, Calling
  <2>4. /\ IsFiniteSet(Calling(ProcOf[r])')
        /\ Cardinality(Calling(ProcOf[r])') = Cardinality(Calling(ProcOf[r])) - 1
    BY <2>1, <2>2, FS_RemoveElement
  <2>5. QED
    BY <1>2, <2>3, <2>4 DEF Generate
<1>3. ASSUME NEW p \in Procs, CrashProcess(p)
      PROVE  Permits'
  <2>1. Calling(p)' = {}
    BY <1>3 DEF CrashProcess, Calling, InFlight
  <2>2. \A q \in Procs : q # p => Calling(q)' = Calling(q)
    BY <1>3 DEF CrashProcess, Calling, InFlight
  <2>3. IsFiniteSet(Calling(p)') /\ Cardinality(Calling(p)') = 0
    BY <2>1, FS_EmptySet
  <2>4. slots' = [slots EXCEPT ![p] = 0]
    BY <1>3 DEF CrashProcess
  <2>5. QED
    BY <2>2, <2>3, <2>4
<1>4. ASSUME UNCHANGED slots,
             \A r \in Requests : (pc[r] = "ai_call") = (pc'[r] = "ai_call")
      PROVE  Permits'
  <2>1. \A p \in Procs : Calling(p)' = Calling(p)
    BY <1>4 DEF Calling
  <2>2. QED
    BY <1>4, <2>1
<1>5. ASSUME NEW r \in Requests, Arrive(r) \/ CheckIdempotency(r) \/ Acquire(r)
      PROVE  Permits'
  BY <1>4, <1>5 DEF Arrive, CheckIdempotency, Acquire
<1>6. ASSUME NEW r \in Requests,
             \/ CheckQuota(r) \/ ValidateAnswers(r) \/ CheckBudget(r) \/ Consume(r)
             \/ CheckReferral(r)
      PROVE  Permits'
  BY <1>4, <1>6 DEF CheckQuota, ValidateAnswers, CheckBudget, Consume, CheckReferral
<1>7. ASSUME NEW r \in Requests,
             \/ Commit(r) \/ EnqueuePDF(r) \/ SaveIdempotency(r) \/ Release(r)
             \/ \E step \in {"quota", "validate", "commit"} : FailAt(r, step)
      PROVE  Permits'
  BY <1>4, <1>7 DEF Commit, EnqueuePDF, SaveIdempotency, Release, FailAt
<1>8. CASE \/ \E k \in Keys : ExpireLock(k)
           \/ \E k \in IdemKeys : ExpireCache(k)
           \/ NextMonth \/ UNCHANGED vars
  <2>1. UNCHANGED <<pc, slots>>
    BY <1>8 DEF ExpireLock, ExpireCache, NextMonth, vars, submitVars
  <2>2. QED
    BY <1>4, <2>1
<1>9. QED
  BY <1>1, <1>2, <1>3, <1>5, <1>6, <1>7, <1>8 DEF Next, Proceed

\* No step leaves the types, given the account of the permits.
LEMMA TypesStep ==
    ASSUME SubmitTypeOK, Permits, [Next]_vars, LockTypeOK'
    PROVE  SubmitTypeOK'
<1> USE LockAssumption, SubmitAssumption
    DEF SubmitTypeOK, Steps, Answers, Outcomes, Goto, Return, Unwind
<1>1. ASSUME NEW r \in Requests, Arrive(r)
      PROVE  SubmitTypeOK'
  BY <1>1 DEF Arrive
<1>2. ASSUME NEW r \in Requests, CheckIdempotency(r)
      PROVE  SubmitTypeOK'
  BY <1>2 DEF CheckIdempotency, Token
<1>3. ASSUME NEW r \in Requests, Acquire(r)
      PROVE  SubmitTypeOK'
  BY <1>3 DEF Acquire
<1>4. ASSUME NEW r \in Requests, CheckQuota(r)
      PROVE  SubmitTypeOK'
  BY <1>4 DEF CheckQuota
<1>5. ASSUME NEW r \in Requests, ValidateAnswers(r)
      PROVE  SubmitTypeOK'
  BY <1>5 DEF ValidateAnswers
<1>6. ASSUME NEW r \in Requests, CheckBudget(r)
      PROVE  SubmitTypeOK'
  BY <1>6 DEF CheckBudget
<1>7. ASSUME NEW r \in Requests, AcquireSlot(r)
      PROVE  SubmitTypeOK'
  BY <1>7 DEF AcquireSlot
<1>8. ASSUME NEW r \in Requests, Generate(r)
      PROVE  SubmitTypeOK'
  <2>1. r \in Calling(ProcOf[r])
    BY <1>8 DEF Generate, Calling
  <2>2. slots[ProcOf[r]] # 0
    BY <2>1, FS_EmptySet DEF Permits
  <2>3. QED
    BY <1>8, <2>2 DEF Generate
<1>9. ASSUME NEW r \in Requests, Consume(r)
      PROVE  SubmitTypeOK'
  BY <1>9 DEF Consume
<1>10. ASSUME NEW r \in Requests, CheckReferral(r)
       PROVE  SubmitTypeOK'
  <2>1. CASE UNCHANGED eligible
    BY <1>10, <2>1 DEF CheckReferral
  <2>2. ASSUME NEW b \in BOOLEAN, eligible' = [eligible EXCEPT ![r] = b]
        PROVE  SubmitTypeOK'
    BY <1>10, <2>2 DEF CheckReferral
  <2>3. (Session(r) \in Referred /\ NoneCompleted(Session(r))) \in BOOLEAN
    OBVIOUS
  <2>4. QED
    BY <1>10, <2>1, <2>2, <2>3, Zenon DEF CheckReferral
<1>11. ASSUME NEW r \in Requests, Commit(r) \/ EnqueuePDF(r)
       PROVE  SubmitTypeOK'
  BY <1>11 DEF Commit, EnqueuePDF
<1>12. ASSUME NEW r \in Requests, SaveIdempotency(r)
       PROVE  SubmitTypeOK'
  BY <1>12 DEF SaveIdempotency, Token
<1>13. ASSUME NEW r \in Requests,
              Release(r) \/ \E step \in {"quota", "validate", "commit"} : FailAt(r, step)
       PROVE  SubmitTypeOK'
  BY <1>13 DEF Release, FailAt
<1>14. ASSUME NEW k \in Keys, ExpireLock(k)
       PROVE  SubmitTypeOK'
  BY <1>14 DEF ExpireLock, submitVars
<1>15. ASSUME NEW k \in IdemKeys, ExpireCache(k)
       PROVE  SubmitTypeOK'
  BY <1>15 DEF ExpireCache, Token
<1>16. ASSUME NEW p \in Procs, CrashProcess(p)
       PROVE  SubmitTypeOK'
  BY <1>16 DEF CrashProcess
<1>17. CASE NextMonth \/ UNCHANGED vars
  BY <1>17 DEF NextMonth, vars, submitVars
<1>18. QED
  BY <1>1, <1>2, <1>3, <1>4, <1>5, <1>6, <1>7, <1>8, <1>9, <1>10, <1>11, <1>12,
     <1>13, <1>14, <1>15, <1>16, <1>17 DEF Next, Proceed

\* Types and permits are right in every reachable state.
LEMMA TypesInvariant == SafeSpec => [](SubmitTypeOK /\ Permits)
<1>1. Init => SubmitTypeOK
  <2> SUFFICES ASSUME Init
               PROVE  SubmitTypeOK
    OBVIOUS
  <2> USE SubmitAssumption DEF Init
  <2>1. LockTypeOK
    BY LockAssumption DEF LockInit, LockTypeOK, Token, Phase
  <2>2. QED
    BY <2>1 DEF SubmitTypeOK, Steps, Answers, Outcomes, Token
<1>2. SafeSpec => []LockTypeOK
  BY SubmitUsesTheLock, LockTypeCorrect, PTL
<1>3. QED
  BY <1>1, <1>2, PermitsInit, PermitsStep, TypesStep, PTL DEF SafeSpec

\* Type correctness; in it, that the Gemini semaphore never hands out more
\* permits than it has nor takes back one it did not hand out.
THEOREM SubmitTypeCorrect == SafeSpec => []SubmitTypeOK
<1>1. QED
  BY TypesInvariant, PTL

-----------------------------------------------------------------------------
(***************************************************************************)
(* What the transaction leaves behind: results and stamps are final, and   *)
(* whatever the cache or a 200 answer names has been committed.            *)
(***************************************************************************)
AfterCommit == {"enqueue", "save", "release", "done", "dead"}

Committed ==
    /\ IsFiniteSet(results)
    /\ \A r \in results : pc[r] \in AfterCommit /\ stamp[r] \in 1 .. month
    /\ \A r \in Requests :
          /\ pc[r] \in {"enqueue", "save"} => r \in results
          /\ pc[r] = "commit" => stamp[r] \in 1 .. month
    /\ \A k \in IdemKeys : cache[k] # NoToken => cache[k] \in results
    /\ AnswersAreDurable

\* Answers, events and cached responses come only from committed results.
LEMMA CommittedStep ==
    ASSUME SubmitTypeOK, Committed, [Next]_vars
    PROVE  Committed'
<1> USE LockAssumption, SubmitAssumption
    DEF SubmitTypeOK, Steps, AfterCommit, Committed, AnswersAreDurable, Token,
        Goto, Return, Unwind
<1>1. ASSUME NEW r \in Requests, Arrive(r)
      PROVE  Committed'
  BY <1>1 DEF Arrive
<1>2. ASSUME NEW r \in Requests, CheckIdempotency(r)
      PROVE  Committed'
  BY <1>2 DEF CheckIdempotency
<1>3. ASSUME NEW r \in Requests, Acquire(r)
      PROVE  Committed'
  BY <1>3 DEF Acquire
<1>4. ASSUME NEW r \in Requests, CheckQuota(r) \/ ValidateAnswers(r)
      PROVE  Committed'
  BY <1>4 DEF CheckQuota, ValidateAnswers
<1>5. ASSUME NEW r \in Requests, CheckBudget(r) \/ AcquireSlot(r)
      PROVE  Committed'
  BY <1>5 DEF CheckBudget, AcquireSlot
<1>6. ASSUME NEW r \in Requests, Generate(r) \/ Consume(r)
      PROVE  Committed'
  BY <1>6 DEF Generate, Consume
<1>7. ASSUME NEW r \in Requests, CheckReferral(r)
      PROVE  Committed'
  <2>1. r \notin results /\ month \in 1 .. month
    BY <1>7 DEF CheckReferral
  <2>2. QED
    BY <1>7, <2>1 DEF CheckReferral
<1>8. ASSUME NEW r \in Requests, Commit(r)
      PROVE  Committed'
  <2>1. IsFiniteSet(results')
    BY <1>8, FS_AddElement DEF Commit
  <2>2. results' = results \union {r} /\ pc' = [pc EXCEPT ![r] = "enqueue"]
        /\ UNCHANGED <<stamp, month, cache, reply>>
    BY <1>8 DEF Commit
  <2>3. QED
    BY <1>8, <2>1, <2>2 DEF Commit
<1>9. ASSUME NEW r \in Requests, EnqueuePDF(r)
      PROVE  Committed'
  BY <1>9 DEF EnqueuePDF
<1>10. ASSUME NEW r \in Requests, SaveIdempotency(r)
       PROVE  Committed'
  BY <1>10 DEF SaveIdempotency
<1>11. ASSUME NEW r \in Requests, Release(r)
       PROVE  Committed'
  BY <1>11 DEF Release
<1>12. ASSUME NEW r \in Requests, NEW step \in {"quota", "validate", "commit"},
              FailAt(r, step)
       PROVE  Committed'
  BY <1>12 DEF FailAt
<1>13. ASSUME NEW k \in Keys, ExpireLock(k)
       PROVE  Committed'
  BY <1>13 DEF ExpireLock, submitVars
<1>14. ASSUME NEW k \in IdemKeys, ExpireCache(k)
       PROVE  Committed'
  BY <1>14 DEF ExpireCache
<1>15. ASSUME NEW p \in Procs, CrashProcess(p)
       PROVE  Committed'
  BY <1>15 DEF CrashProcess, InFlight
<1>16. CASE NextMonth \/ UNCHANGED vars
  BY <1>16 DEF NextMonth, vars, submitVars
<1>17. QED
  BY <1>1, <1>2, <1>3, <1>4, <1>5, <1>6, <1>7, <1>8, <1>9, <1>10, <1>11, <1>12,
     <1>13, <1>14, <1>15, <1>16 DEF Next, Proceed

\* Committed holds in every reachable state.
LEMMA CommittedInvariant == SafeSpec => []Committed
<1>1. Init => Committed
  BY FS_EmptySet DEF Init, Committed, AnswersAreDurable
<1>2. QED
  BY <1>1, CommittedStep, SubmitTypeCorrect, PTL DEF SafeSpec

\* Every 200 answer names a committed result made from the request's answers,
\* whatever fails and however many locks overrun.
THEOREM AnswersAreDurableHolds == SafeSpec => []AnswersAreDurable
<1>1. Committed => AnswersAreDurable
  BY DEF Committed
<1>2. QED
  BY <1>1, CommittedInvariant, PTL

-----------------------------------------------------------------------------
(***************************************************************************)
(* Retries.  Without a fault the response of an answered submission stays  *)
(* in the cache, so a later request with its key stops at the check.       *)
(***************************************************************************)
RetriesStop ==
    /\ \A q, r \in Requests : q \in before[r] => pc[q] = "done"
    /\ faults = 0 =>
         /\ \A r \in results : pc[r] \in {"release", "done"} => cache[IdemKeyOf[r]] # NoToken
         /\ \A q, r \in Requests :
              SameSubmission(q, r) /\ q \in before[r] /\ q \in results =>
                  r \notin results /\ pc[r] \in {"new", "check", "done"}

\* A request with an answered twin is stopped by the idempotency check.
LEMMA RetriesStopStep ==
    ASSUME SubmitTypeOK, Committed, RetriesStop, [Next]_vars
    PROVE  RetriesStop'
<1> USE SubmitAssumption
    DEF Steps, AfterCommit, RetriesStop, SameSubmission, Goto, Return, Unwind
<1>a. /\ pc \in [Requests -> Steps]
      /\ cache \in [IdemKeys -> Token]
      /\ before \in [Requests -> SUBSET Requests]
      /\ results \subseteq Requests
      /\ faults \in Nat
  BY DEF SubmitTypeOK, LockTypeOK
<1>b. /\ \A r \in results : pc[r] \in AfterCommit
      /\ \A r \in Requests : pc[r] \in {"enqueue", "save"} => r \in results
  BY DEF Committed
<1>0. faults' = 0 => faults = 0
  BY FaultsGrow, StepsOfTheLock DEF SubmitTypeOK
<1>1. ASSUME NEW r \in Requests, Arrive(r)
      PROVE  RetriesStop'
  <2>1. /\ \A q \in before'[r] : q \in Requests /\ pc[q] = "done"
        /\ r \notin results
        /\ \A q \in Requests : q # r => before'[q] = before[q] /\ pc'[q] = pc[q]
        /\ pc[r] = "new" /\ pc'[r] \in {"check", "done"}
        /\ UNCHANGED <<faults, results, cache>>
    BY <1>a, <1>b, <1>1 DEF Arrive, lockVars
  <2>2. \A q, s \in Requests : q \in before'[s] => pc'[q] = "done"
    BY <2>1
  <2>3. QED
    BY <1>a, <1>b, <1>0, <2>1, <2>2
<1>2. ASSUME NEW r \in Requests, CheckIdempotency(r)
      PROVE  RetriesStop'
  BY <1>a, <1>b, <1>2 DEF CheckIdempotency, lockVars, OtherFault, Fault
<1>3. ASSUME NEW r \in Requests, Acquire(r)
      PROVE  RetriesStop'
  BY <1>a, <1>b, <1>0, <1>3 DEF Acquire
<1>4. ASSUME NEW r \in Requests, CheckQuota(r) \/ ValidateAnswers(r)
      PROVE  RetriesStop'
  BY <1>a, <1>b, <1>4 DEF CheckQuota, ValidateAnswers, lockVars
<1>5. ASSUME NEW r \in Requests, CheckBudget(r) \/ AcquireSlot(r)
      PROVE  RetriesStop'
  BY <1>a, <1>b, <1>0, <1>5 DEF CheckBudget, AcquireSlot
<1>6. ASSUME NEW r \in Requests, Generate(r) \/ Consume(r)
      PROVE  RetriesStop'
  BY <1>a, <1>b, <1>0, <1>6 DEF Generate, Consume
<1>7. ASSUME NEW r \in Requests, CheckReferral(r) \/ EnqueuePDF(r)
      PROVE  RetriesStop'
  BY <1>a, <1>b, <1>0, <1>7 DEF CheckReferral, EnqueuePDF
<1>8. ASSUME NEW r \in Requests, Commit(r)
      PROVE  RetriesStop'
  BY <1>a, <1>b, <1>8 DEF Commit, lockVars
<1>9. ASSUME NEW r \in Requests, SaveIdempotency(r)
      PROVE  RetriesStop'
  <2>1. pc[r] = "save" /\ pc' = [pc EXCEPT ![r] = "release"] /\ UNCHANGED <<results, before>>
    BY <1>9 DEF SaveIdempotency
  <2>2. CASE cache' = [cache EXCEPT ![IdemKeyOf[r]] = r] /\ UNCHANGED lockVars
    <3>1. \A q \in Requests : cache[IdemKeyOf[q]] # NoToken => cache'[IdemKeyOf[q]] # NoToken
      BY <1>a, <2>2, LockAssumption
    <3>2. cache'[IdemKeyOf[r]] # NoToken /\ UNCHANGED faults
      BY <1>a, <2>2, LockAssumption DEF lockVars
    <3>3. QED
      BY <1>a, <1>b, <2>1, <3>1, <3>2
  <2>3. CASE OtherFault
    BY <1>a, <1>b, <2>1, <2>3 DEF OtherFault, Fault
  <2>4. QED
    BY <1>9, <2>2, <2>3 DEF SaveIdempotency
<1>10. ASSUME NEW r \in Requests, Release(r)
       PROVE  RetriesStop'
  BY <1>a, <1>b, <1>0, <1>10 DEF Release
<1>11. ASSUME NEW r \in Requests, NEW step \in {"quota", "validate", "commit"},
              FailAt(r, step)
       PROVE  RetriesStop'
  BY <1>a, <1>b, <1>11 DEF FailAt, OtherFault, Fault
<1>12. ASSUME NEW k \in Keys, ExpireLock(k)
       PROVE  RetriesStop'
  BY <1>a, <1>b, <1>0, <1>12 DEF ExpireLock, submitVars
<1>13. ASSUME NEW k \in IdemKeys, ExpireCache(k)
       PROVE  RetriesStop'
  BY <1>a, <1>b, <1>13 DEF ExpireCache, OtherFault, Fault
<1>14. ASSUME NEW p \in Procs, CrashProcess(p)
       PROVE  RetriesStop'
  BY <1>a, <1>b, <1>14 DEF CrashProcess, InFlight, Crash, Fault
<1>15. CASE NextMonth \/ UNCHANGED vars
  BY <1>a, <1>b, <1>15 DEF NextMonth, vars, lockVars, submitVars
<1>16. QED
  BY <1>1, <1>2, <1>3, <1>4, <1>5, <1>6, <1>7, <1>8, <1>9, <1>10, <1>11, <1>12,
     <1>13, <1>14, <1>15 DEF Next, Proceed

\* A retry sent after the answer adds no second result unless Redis, the
\* database or a process failed; overruns of the lock do not matter.
THEOREM RetryIsIdempotentHolds == SafeSpec => []RetryIsIdempotent
<1>1. Init => RetriesStop
  BY DEF Init, RetriesStop
<1>2. RetriesStop /\ SubmitTypeOK => RetryIsIdempotent
  BY DEF RetriesStop, SubmitTypeOK, SameSubmission, RetryIsIdempotent
<1>3. QED
  BY <1>1, <1>2, RetriesStopStep, CommittedInvariant, SubmitTypeCorrect, PTL DEF SafeSpec

-----------------------------------------------------------------------------
(***************************************************************************)
(* The critical section.  From the quota check to the end of the           *)
(* transaction a request is inside the lock, so each session has at most   *)
(* one request there, and one more for each lock that overran.             *)
(***************************************************************************)
WorkingOf(s) == {r \in Requests : Session(r) = s /\ pc[r] \in Working}
AllWorking == {r \in Requests : pc[r] \in Working}

WorkingBounded ==
    /\ \A s \in Keys : IsFiniteSet(WorkingOf(s)) /\ Cardinality(WorkingOf(s)) <= overruns + 1
    /\ IsFiniteSet(AllWorking) /\ Cardinality(AllWorking) <= Cardinality(Keys) + overruns

\* The working requests are among those inside the lock.
LEMMA WorkingInvariant == SafeSpec => []WorkingBounded
<1>1. LockTypeOK /\ Control /\ StraysBounded /\ InsideBounded => WorkingBounded
  <2> SUFFICES ASSUME LockTypeOK, Control, StraysBounded, InsideBounded
               PROVE  WorkingBounded
    OBVIOUS
  <2>0. overruns \in Nat /\ Cardinality(Keys) \in Nat
    BY SessionsAssumption, FS_CardinalityType DEF LockTypeOK
  <2>1. \A r \in Requests : pc[r] \in Working => Inside(r)
    BY DEF Control, ControlOf, Inside
  <2>2. ASSUME NEW s \in Keys
        PROVE  IsFiniteSet(WorkingOf(s)) /\ Cardinality(WorkingOf(s)) <= overruns + 1
    <3>1. WorkingOf(s) \subseteq InsideOn(s)
      BY <2>1 DEF WorkingOf, InsideOn, Session
    <3>2. overruns + 1 \in Nat
      BY <2>0
    <3>3. QED
      BY <3>1, <3>2, SubsetBound DEF InsideBounded
  <2>3. IsFiniteSet(AllWorking) /\ Cardinality(AllWorking) <= Cardinality(Keys) + overruns
    <3>1. AllWorking \subseteq {r \in Requests : Inside(r)}
      BY <2>1 DEF AllWorking
    <3>2. Cardinality(Keys) + overruns \in Nat
      BY <2>0
    <3>3. QED
      BY <3>1, <3>2, AllInsideBounded, SessionsAssumption, SubsetBound
  <2>4. QED
    BY <2>2, <2>3 DEF WorkingBounded
<1>2. QED
  BY <1>1, ControlInvariant, SubmitUsesTheLock, StraysInvariant, InsideBoundedHolds, PTL

\* One more than a natural number.
LEMMA OneMore ==
    ASSUME NEW n \in Nat
    PROVE  n + 1 \in Nat /\ 1 + n \in Nat /\ 1 + n = n + 1
OBVIOUS

\* The two counters of the lock, as the steps of a submission move them.
LEMMA CountersGrow ==
    ASSUME SubmitTypeOK, [Next]_vars
    PROVE  /\ overruns \in Nat /\ faults \in Nat
           /\ overruns' = overruns \/ overruns' = overruns + 1
           /\ faults' = faults \/ faults' = faults + 1
           /\ overruns' \in Nat /\ faults' \in Nat
<1>1. overruns \in Nat /\ faults \in Nat
  BY LockAssumption DEF SubmitTypeOK, LockTypeOK
<1>2. overruns' \in {overruns, overruns + 1} /\ faults' \in {faults, faults + 1}
  BY OverrunsGrow, FaultsGrow, StepsOfTheLock DEF SubmitTypeOK
<1>3. QED
  BY <1>1, <1>2

-----------------------------------------------------------------------------
(***************************************************************************)
(* The budget.  Whoever enters the AI phase while the budget lasts is      *)
(* counted among the working requests; afterwards only a budget check that *)
(* Redis failed lets one more in, and a call is added to what was spent in *)
(* the step that leaves the phase.                                         *)
(***************************************************************************)
InAIPhase == {"ai_wait", "ai_call", "consume"}
Spenders == {r \in Requests : pc[r] \in InAIPhase}

SpendersBounded ==
    /\ IsFiniteSet(Spenders)
    /\ spent + Cardinality(Spenders) < Budget + Cardinality(Keys) + overruns + faults

\* The budget check is the only way into the AI phase.
LEMMA SpendersStep ==
    ASSUME SubmitTypeOK, SpendersBounded, [Next]_vars, WorkingBounded', SubmitTypeOK'
    PROVE  SpendersBounded'
<1> USE DEF InAIPhase, Goto, Return, Unwind
<1> DEFINE S == Spenders
           T == Spenders'
           room == Budget + Cardinality(Keys)
           room2 == room + overruns + faults
<1>a. pc \in [Requests -> Steps] /\ spent \in Nat
  BY DEF SubmitTypeOK
<1>b. /\ overruns \in Nat /\ faults \in Nat
      /\ overruns' = overruns \/ overruns' = overruns + 1
      /\ faults' = faults \/ faults' = faults + 1
  BY CountersGrow
<1>c. Cardinality(Keys) \in Nat /\ Budget \in Nat \ {0}
  BY SessionsAssumption, SubmitAssumption, FS_CardinalityType
<1>d. IsFiniteSet(S) /\ Cardinality(S) \in Nat /\ spent + Cardinality(S) < room2
  BY FS_CardinalityType DEF SpendersBounded
<1> HIDE DEF room
<1>e. room \in Nat
  BY <1>c DEF room
<1>f. SUFFICES IsFiniteSet(T) /\ spent' + Cardinality(T) < room + overruns' + faults'
  BY DEF SpendersBounded, room
<1>1. ASSUME spent' = spent, T \subseteq S
      PROVE  IsFiniteSet(T) /\ spent' + Cardinality(T) < room + overruns' + faults'
  <2>1. IsFiniteSet(T) /\ Cardinality(T) \in Nat /\ Cardinality(T) <= Cardinality(S)
    BY <1>d, <1>1, FS_Subset, FS_CardinalityType
  <2>2. QED
    BY <1>a, <1>b, <1>d, <1>e, <1>1, <2>1
<1>2. ASSUME NEW r \in Requests, CheckBudget(r)
      PROVE  IsFiniteSet(T) /\ spent' + Cardinality(T) < room + overruns' + faults'
  <2>1. CASE pc' = [pc EXCEPT ![r] = "referral"]
    BY <1>1, <1>a, <1>2, <2>1 DEF CheckBudget, Spenders
  <2>2. CASE spent < Budget
    <3>1. T \subseteq AllWorking'
      BY DEF Spenders, AllWorking, Working
    <3>2. Cardinality(Keys) + overruns' \in Nat
      BY <1>b, <1>c
    <3>3. IsFiniteSet(T) /\ Cardinality(T) <= Cardinality(Keys) + overruns'
      BY <3>1, <3>2, SubsetBound DEF WorkingBounded
    <3>4. Cardinality(T) \in Nat
      BY <3>3, FS_CardinalityType
    <3>5. spent' = spent
      BY <1>2 DEF CheckBudget
    <3>6. QED
      BY <1>a, <1>b, <1>c, <2>2, <3>3, <3>4, <3>5 DEF room
  <2>3. CASE OtherFault /\ pc' = [pc EXCEPT ![r] = "ai_wait"]
    <3>1. spent' = spent /\ faults' = faults + 1
      BY <1>2, <2>3 DEF CheckBudget, OtherFault, Fault
    <3>2. T \subseteq S \union {r}
      BY <1>a, <2>3 DEF Spenders
    <3>3. Cardinality(S) <= Cardinality(S)
      BY <1>d
    <3>4. IsFiniteSet(T) /\ Cardinality(T) <= Cardinality(S) + 1
      BY <1>d, <3>2, <3>3, ElementBound
    <3>5. Cardinality(T) \in Nat
      BY <3>4, FS_CardinalityType
    <3>6. QED
      BY <1>a, <1>b, <1>d, <1>e, <3>1, <3>4, <3>5
  <2>4. QED
    BY <1>2, <2>1, <2>2, <2>3 DEF CheckBudget
<1>3. ASSUME NEW r \in Requests, Consume(r)
      PROVE  IsFiniteSet(T) /\ spent' + Cardinality(T) < room + overruns' + faults'
  <2>1. pc[r] = "consume" /\ pc' = [pc EXCEPT ![r] = "referral"] /\ spent' \in {spent, spent + 1}
    BY <1>3 DEF Consume
  <2>2. r \in S /\ T \subseteq S \ {r}
    BY <1>a, <2>1 DEF Spenders
  <2>3. IsFiniteSet(S \ {r}) /\ Cardinality(S \ {r}) = Cardinality(S) - 1
    BY <1>d, <2>2, FS_RemoveElement
  <2>4. Cardinality(S \ {r}) \in Nat /\ Cardinality(S \ {r}) <= Cardinality(S \ {r})
    BY <2>3, FS_CardinalityType
  <2>5. IsFiniteSet(T) /\ Cardinality(T) <= Cardinality(S \ {r})
    BY <2>2, <2>3, <2>4, SubsetBound
  <2>6. Cardinality(T) \in Nat
    BY <2>5, FS_CardinalityType
  <2>7. QED
    BY <1>a, <1>b, <1>d, <1>e, <2>1, <2>3, <2>5, <2>6
<1>4. ASSUME NEW r \in Requests, Arrive(r) \/ CheckIdempotency(r) \/ Acquire(r) \/ CheckQuota(r)
      PROVE  spent' = spent /\ T \subseteq S
  BY <1>a, <1>4 DEF Arrive, CheckIdempotency, Acquire, CheckQuota, Spenders
<1>5. ASSUME NEW r \in Requests, ValidateAnswers(r) \/ AcquireSlot(r) \/ Generate(r)
      PROVE  spent' = spent /\ T \subseteq S
  BY <1>a, <1>5 DEF ValidateAnswers, AcquireSlot, Generate, Spenders
<1>6. ASSUME NEW r \in Requests,
             CheckReferral(r) \/ Commit(r) \/ EnqueuePDF(r) \/ SaveIdempotency(r)
      PROVE  spent' = spent /\ T \subseteq S
  BY <1>a, <1>6 DEF CheckReferral, Commit, EnqueuePDF, SaveIdempotency, Spenders
<1>7. ASSUME NEW r \in Requests,
             Release(r) \/ \E step \in {"quota", "validate", "commit"} : FailAt(r, step)
      PROVE  spent' = spent /\ T \subseteq S
  BY <1>a, <1>7 DEF Release, FailAt, Spenders
<1>8. ASSUME NEW p \in Procs, CrashProcess(p)
      PROVE  spent' = spent /\ T \subseteq S
  BY <1>a, <1>8 DEF CrashProcess, Spenders
<1>9. CASE \/ \E k \in Keys : ExpireLock(k)
           \/ \E k \in IdemKeys : ExpireCache(k)
           \/ NextMonth \/ UNCHANGED vars
  <2>1. spent' = spent /\ T \subseteq S
    BY <1>9 DEF ExpireLock, ExpireCache, NextMonth, vars, submitVars, Spenders
  <2>2. QED
    BY <1>1, <2>1
<1>10. QED
  BY <1>1, <1>2, <1>3, <1>4, <1>5, <1>6, <1>7, <1>8, <1>9 DEF Next, Proceed

\* Nobody spends at the start, and what is budgeted is something.
LEMMA SpendersInit == Init => SpendersBounded
<1> SUFFICES ASSUME Init PROVE SpendersBounded
  OBVIOUS
<1>1. Spenders = {}
  BY DEF Init, Spenders, InAIPhase
<1>2. IsFiniteSet(Spenders) /\ Cardinality(Spenders) = 0
  BY <1>1, FS_EmptySet
<1>3. Cardinality(Keys) \in Nat /\ Budget \in Nat \ {0}
  BY SessionsAssumption, SubmitAssumption, FS_CardinalityType
<1>4. QED
  BY <1>2, <1>3 DEF Init, LockInit, SpendersBounded

\* The budget is overshot by less than one call of each session, one of each
\* overrun and one of each fault, however many requests pass the check before
\* it runs out.
THEOREM OvershootBoundedHolds == SafeSpec => []OvershootBounded
<1>1. SubmitTypeOK /\ SpendersBounded => OvershootBounded
  <2> SUFFICES ASSUME SubmitTypeOK, SpendersBounded
               PROVE  OvershootBounded
    OBVIOUS
  <2>1. /\ Cardinality(Spenders) \in Nat /\ Cardinality(Keys) \in Nat
        /\ spent \in Nat /\ overruns \in Nat /\ faults \in Nat /\ Budget \in Nat
    BY SessionsAssumption, SubmitAssumption, FS_CardinalityType
       DEF SubmitTypeOK, LockTypeOK, SpendersBounded
  <2>2. QED
    BY <2>1 DEF SpendersBounded, OvershootBounded
<1>2. QED
  BY <1>1, SpendersInit, SpendersStep, WorkingInvariant, SubmitTypeCorrect, PTL
     DEF SafeSpec

-----------------------------------------------------------------------------
(***************************************************************************)
(* Referral events.  A session's earners are the requests that got an      *)
(* event and those that will if they commit.  A request becomes one when   *)
(* the session has no result, hence no event: all its earners then are     *)
(* between the eligibility check and the commit.                           *)
(***************************************************************************)
Unchecked == {"new", "check", "acquire", "quota", "validate", "budget", "ai_wait",
              "ai_call", "consume", "referral"}

Earners(s) ==
    {r \in Requests : Session(r) = s /\ (r \in events \/ (pc[r] = "commit" /\ eligible[r]))}

EarnersBounded ==
    /\ events \subseteq results
    /\ \A r \in Requests : pc[r] \in Unchecked => ~eligible[r]
    /\ \A s \in Keys : IsFiniteSet(Earners(s)) /\ Cardinality(Earners(s)) <= 1 + overruns

\* The eligibility check finds no result as long as there is no event.
LEMMA EarnersStep ==
    ASSUME SubmitTypeOK, EarnersBounded, [Next]_vars, WorkingBounded'
    PROVE  EarnersBounded'
<1> USE DEF Goto, Return, Unwind, Unchecked
<1>a. pc \in [Requests -> Steps] /\ eligible \in [Requests -> BOOLEAN] /\ events \subseteq results
      /\ results \subseteq Requests
      /\ \A r \in Requests : pc[r] \in Unchecked => ~eligible[r]
  BY DEF SubmitTypeOK, EarnersBounded
<1>b. /\ overruns \in Nat /\ overruns' \in Nat
      /\ overruns' = overruns \/ overruns' = overruns + 1
  BY CountersGrow
<1>1. ASSUME events' \subseteq results',
             \A r \in Requests : pc'[r] \in Unchecked => ~eligible'[r],
             \A s \in Keys : \/ Earners(s)' \subseteq Earners(s)
                             \/ Earners(s)' \subseteq WorkingOf(s)'
      PROVE  EarnersBounded'
  <2> SUFFICES ASSUME NEW s \in Keys
               PROVE  IsFiniteSet(Earners(s)') /\ Cardinality(Earners(s)') <= 1 + overruns'
    BY <1>1 DEF EarnersBounded
  <2>1. 1 + overruns \in Nat /\ overruns' + 1 \in Nat /\ 1 + overruns' = overruns' + 1
    BY <1>b, OneMore
  <2>2. CASE Earners(s)' \subseteq Earners(s)
    <3>1. IsFiniteSet(Earners(s)') /\ Cardinality(Earners(s)') <= 1 + overruns
      BY <2>1, <2>2, SubsetBound DEF EarnersBounded
    <3>2. Cardinality(Earners(s)') \in Nat
      BY <3>1, FS_CardinalityType
    <3>3. QED
      BY <1>b, <3>1, <3>2
  <2>3. CASE Earners(s)' \subseteq WorkingOf(s)'
    <3>1. IsFiniteSet(WorkingOf(s)') /\ Cardinality(WorkingOf(s)') <= overruns' + 1
      BY DEF WorkingBounded
    <3>2. QED
      BY <2>1, <2>3, <3>1, SubsetBound
  <2>4. QED
    BY <1>1, <2>2, <2>3
<1>2. ASSUME UNCHANGED <<results, events, eligible>>,
             \A r \in Requests : /\ pc'[r] = "commit" => pc[r] = "commit"
                                 /\ pc'[r] \in Unchecked => pc[r] \in Unchecked
      PROVE  EarnersBounded'
  <2>1. \A s \in Keys : Earners(s)' \subseteq Earners(s)
    BY <1>2 DEF Earners
  <2>2. QED
    BY <1>1, <1>2, <1>a, <2>1
<1>3. ASSUME NEW r \in Requests, Arrive(r) \/ CheckIdempotency(r) \/ Acquire(r)
      PROVE  EarnersBounded'
  BY <1>2, <1>3, <1>a DEF Arrive, CheckIdempotency, Acquire
<1>4. ASSUME NEW r \in Requests, CheckQuota(r) \/ ValidateAnswers(r) \/ CheckBudget(r)
      PROVE  EarnersBounded'
  BY <1>2, <1>4, <1>a DEF CheckQuota, ValidateAnswers, CheckBudget
<1>5. ASSUME NEW r \in Requests, AcquireSlot(r) \/ Generate(r) \/ Consume(r)
      PROVE  EarnersBounded'
  BY <1>2, <1>5, <1>a DEF AcquireSlot, Generate, Consume
<1>6. ASSUME NEW r \in Requests,
             \/ EnqueuePDF(r) \/ SaveIdempotency(r) \/ Release(r)
             \/ \E step \in {"quota", "validate", "commit"} : FailAt(r, step)
      PROVE  EarnersBounded'
  BY <1>2, <1>6, <1>a DEF EnqueuePDF, SaveIdempotency, Release, FailAt
<1>7. ASSUME NEW p \in Procs, CrashProcess(p)
      PROVE  EarnersBounded'
  BY <1>2, <1>7, <1>a DEF CrashProcess
<1>8. CASE \/ \E k \in Keys : ExpireLock(k)
           \/ \E k \in IdemKeys : ExpireCache(k)
           \/ NextMonth \/ UNCHANGED vars
  <2>1. UNCHANGED <<pc, results, events, eligible>>
    BY <1>8 DEF ExpireLock, ExpireCache, NextMonth, vars, submitVars
  <2>2. QED
    BY <1>2, <2>1
<1>9. ASSUME NEW r \in Requests, CheckReferral(r)
      PROVE  EarnersBounded'
  <2>1. pc[r] = "referral" /\ pc' = [pc EXCEPT ![r] = "commit"] /\ UNCHANGED <<results, events>>
    BY <1>9 DEF CheckReferral
  <2>2. \A q \in Requests : q # r => eligible'[q] = eligible[q]
    BY <1>a, <1>9 DEF CheckReferral
  <2>7. \A q \in Requests : pc'[q] \in Unchecked => q # r /\ pc[q] \in Unchecked
    BY <1>a, <2>1
  <2>8. events' \subseteq results' /\ \A q \in Requests : pc'[q] \in Unchecked => ~eligible'[q]
    <3> HIDE DEF Unchecked
    <3>1. QED
      BY <1>a, <2>1, <2>2, <2>7
  <2>3. CASE UNCHANGED eligible /\ ~eligible[r]
    <3>1. \A s \in Keys : Earners(s)' \subseteq Earners(s)
      BY <1>a, <2>1, <2>3 DEF Earners
    <3>2. QED
      BY <1>1, <2>8, <3>1
  <2>4. CASE ~eligible'[r]
    <3>1. \A s \in Keys : Earners(s)' \subseteq Earners(s)
      BY <1>a, <2>1, <2>2, <2>4 DEF Earners
    <3>2. QED
      BY <1>1, <2>8, <3>1
  <2>5. CASE ResultsOf(Session(r)) = {}
    <3>1. ASSUME NEW s \in Keys, s # Session(r)
          PROVE  Earners(s)' \subseteq Earners(s)
      BY <1>a, <2>1, <2>2, <3>1 DEF Earners
    <3>2. Earners(Session(r))' \subseteq WorkingOf(Session(r))'
      BY <1>a, <2>1, <2>5 DEF Earners, WorkingOf, Working, ResultsOf
    <3>3. QED
      BY <1>1, <2>8, <3>1, <3>2
  <2>6. QED
    BY <1>9, <1>a, <2>3, <2>4, <2>5 DEF CheckReferral, NoneCompleted
<1>10. ASSUME NEW r \in Requests, Commit(r)
       PROVE  EarnersBounded'
  <2>1. /\ pc[r] = "commit" /\ pc' = [pc EXCEPT ![r] = "enqueue"]
        /\ results' = results \union {r} /\ UNCHANGED eligible
        /\ events' \subseteq (IF eligible[r] THEN events \union {r} ELSE events)
    BY <1>10 DEF Commit
  <2>2. \A s \in Keys : Earners(s)' \subseteq Earners(s)
    BY <1>a, <2>1 DEF Earners
  <2>3. QED
    BY <1>1, <1>a, <2>1, <2>2
<1>11. QED
  BY <1>3, <1>4, <1>5, <1>6, <1>7, <1>8, <1>9, <1>10 DEF Next, Proceed

\* A referred member earns at most one test_completed event, and one more for
\* each lock that outlived its TTL.
THEOREM OneReferralEventHolds == SafeSpec => []OneReferralEvent
<1>1. Init => EarnersBounded
  <2> SUFFICES ASSUME Init, NEW s \in Keys
               PROVE  IsFiniteSet(Earners(s)) /\ Cardinality(Earners(s)) <= 1 + overruns
    BY DEF EarnersBounded, Init
  <2>1. Earners(s) = {}
    BY DEF Init, Earners
  <2>2. IsFiniteSet(Earners(s)) /\ Cardinality(Earners(s)) = 0
    BY <2>1, FS_EmptySet
  <2>3. QED
    BY <2>2 DEF Init, LockInit
<1>2. SubmitTypeOK /\ EarnersBounded => OneReferralEvent
  <2> SUFFICES ASSUME SubmitTypeOK, EarnersBounded, NEW s \in Keys
               PROVE  Cardinality({q \in events : Session(q) = s}) <= 1 + overruns
    BY DEF OneReferralEvent
  <2>1. {q \in events : Session(q) = s} \subseteq Earners(s)
    BY DEF Earners, SubmitTypeOK
  <2>2. 1 + overruns \in Nat
    BY DEF SubmitTypeOK, LockTypeOK
  <2>3. QED
    BY <2>1, <2>2, SubsetBound DEF EarnersBounded
<1>3. QED
  BY <1>1, <1>2, EarnersStep, WorkingInvariant, SubmitTypeCorrect, PTL DEF SafeSpec

-----------------------------------------------------------------------------
(***************************************************************************)
(* The quota.  A session holds a unit of a month with each result stamped  *)
(* in it and with each request on its way to one: a request without a      *)
(* stamp holds a unit of the current month.  Who passes the check finds    *)
(* the results below the quota; the requests on their way are working.     *)
(***************************************************************************)
Charged(s, m) == {q \in ResultsOf(s) : stamp[q] = m}

BeforeStamp == {"validate", "budget", "ai_wait", "ai_call", "consume", "referral"}

OnTheWay(s, m) ==
    {r \in Requests : /\ Session(r) = s
                      /\ \/ pc[r] \in BeforeStamp /\ m = month
                         \/ pc[r] = "commit" /\ stamp[r] = m}

Holders(s, m) == Charged(s, m) \union OnTheWay(s, m)

PriorIn(s, m) == IF m = 1 THEN Prior[s] ELSE 0

QuotaInv ==
    \A s \in Keys, m \in 1 .. MaxMonth :
        /\ IsFiniteSet(Holders(s, m))
        /\ Cardinality(Holders(s, m)) + PriorIn(s, m) <= Quota(s) + overruns

\* Used, spelled out for one session and month.
LEMMA UsedMeaning ==
    ASSUME NEW s \in Keys, NEW m \in 1 .. MaxMonth
    PROVE  Used[s][m] = Cardinality(Charged(s, m)) + (IF m = 1 THEN Prior[s] ELSE 0)
BY DEF Used, Charged

\* Every session may submit at least once a month.
LEMMA QuotaPositive ==
    ASSUME NEW s \in Keys
    PROVE  Quota(s) \in Nat \ {0}
BY SubmitAssumption DEF Quota

\* Usage depends on the committed results and their stamps alone.
LEMMA UsedUnchanged ==
    ASSUME UNCHANGED results, \A q \in results : stamp'[q] = stamp[q]
    PROVE  Used' = Used
<1>1. \A s \in Keys, m \in 1 .. MaxMonth : Charged(s, m)' = Charged(s, m)
  BY DEF Charged, ResultsOf
<1>2. QED
  BY <1>1 DEF Used, Charged

\* Of a session's results finitely many are stamped in a month.
LEMMA ChargedFinite ==
    ASSUME Committed, NEW s \in Keys, NEW m \in 1 .. MaxMonth
    PROVE  IsFiniteSet(Charged(s, m)) /\ Cardinality(Charged(s, m)) \in Nat
<1>1. Charged(s, m) \subseteq results
  BY DEF Charged, ResultsOf
<1>2. QED
  BY <1>1, FS_Subset, FS_CardinalityType DEF Committed

\* Usage is a natural number: the results of a session are finitely many.
LEMMA UsedType ==
    ASSUME Committed
    PROVE  /\ Used \in [Keys -> [1 .. MaxMonth -> Nat]]
           /\ \A s \in Keys, m \in 1 .. MaxMonth : Used[s][m] \in Nat
<1>1. ASSUME NEW s \in Keys, NEW m \in 1 .. MaxMonth
      PROVE  Cardinality(Charged(s, m)) \in Nat
  <2>1. Charged(s, m) \subseteq results
    BY DEF Charged, ResultsOf
  <2>2. QED
    BY <2>1, FS_Subset, FS_CardinalityType DEF Committed
<1>2. \A s \in Keys, m \in 1 .. MaxMonth : Used[s][m] \in Nat
  BY <1>1, UsedMeaning, SubmitAssumption
<1>3. QED
  BY <1>1, <1>2, SubmitAssumption DEF Used, Charged

\* A commit charges one unit to the session, in the month of the stamp.
LEMMA UsedByCommit ==
    ASSUME SubmitTypeOK, Committed, NEW r \in Requests, Commit(r)
    PROVE  /\ stamp[r] \in 1 .. month
           /\ Used' = [Used EXCEPT ![Session(r)][stamp[r]] = @ + 1]
<1> USE LockAssumption, SubmitAssumption DEF SubmitTypeOK, Steps
<1>1. /\ pc[r] = "commit"
      /\ stamp' = stamp /\ results' = results \union {r}
      /\ r \notin results /\ stamp[r] \in 1 .. month
      /\ Session(r) \in Keys /\ stamp[r] \in 1 .. MaxMonth
  BY DEF Commit, Committed, AfterCommit, Session
<1>2. Charged(Session(r), stamp[r])' = Charged(Session(r), stamp[r]) \union {r}
      /\ r \notin Charged(Session(r), stamp[r])
  BY <1>1 DEF Charged, ResultsOf
<1>3. IsFiniteSet(Charged(Session(r), stamp[r]))
  <2>1. Charged(Session(r), stamp[r]) \subseteq results
    BY DEF Charged, ResultsOf
  <2>2. QED
    BY <2>1, FS_Subset DEF Committed
<1>4. Cardinality(Charged(Session(r), stamp[r])')
        = Cardinality(Charged(Session(r), stamp[r])) + 1
  <2>1. Cardinality(Charged(Session(r), stamp[r]) \union {r})
          = Cardinality(Charged(Session(r), stamp[r])) + 1
    BY <1>2, <1>3, FS_AddElement
  <2>2. QED
    BY <1>2, <2>1
<1>5. ASSUME NEW s \in Keys, NEW m \in 1 .. MaxMonth, s # Session(r) \/ m # stamp[r]
      PROVE  Charged(s, m)' = Charged(s, m)
  BY <1>1, <1>5 DEF Charged, ResultsOf
<1>6. Cardinality(Charged(Session(r), stamp[r])) \in Nat
  BY <1>3, FS_CardinalityType
<1>7. Used'[Session(r)][stamp[r]] = Used[Session(r)][stamp[r]] + 1
  BY <1>1, <1>4, <1>6 DEF Used, Charged
<1>8. ASSUME NEW s \in Keys, NEW m \in 1 .. MaxMonth, s # Session(r) \/ m # stamp[r]
      PROVE  Used'[s][m] = Used[s][m]
  BY <1>5, <1>8 DEF Used, Charged
<1>9. Used' = [Used EXCEPT ![Session(r)][stamp[r]] = @ + 1]
  <2> DEFINE s0 == Session(r)
             m0 == stamp[r]
             row == [Used[s0] EXCEPT ![m0] = @ + 1]
  <2>1. /\ DOMAIN Used = Keys /\ DOMAIN Used' = Keys
        /\ Used = [s \in DOMAIN Used |-> Used[s]]
        /\ Used' = [s \in DOMAIN Used' |-> Used'[s]]
    BY DEF Used
  <2>2. \A s \in Keys :
          /\ DOMAIN Used[s] = 1 .. MaxMonth /\ DOMAIN Used'[s] = 1 .. MaxMonth
          /\ Used[s] = [m \in DOMAIN Used[s] |-> Used[s][m]]
          /\ Used'[s] = [m \in DOMAIN Used'[s] |-> Used'[s][m]]
    BY DEF Used
  <2>3. Used'[s0] = row
    BY <1>1, <1>7, <1>8, <2>2
  <2>4. ASSUME NEW s \in Keys, s # s0
        PROVE  Used'[s] = Used[s]
    <3>1. \A m \in 1 .. MaxMonth : Charged(s, m)' = Charged(s, m)
      BY <1>5, <2>4
    <3>2. QED
      BY <3>1, <2>4 DEF Used, Charged
  <2>5. Used' = [Used EXCEPT ![s0] = row]
    <3> HIDE DEF row, s0
    <3>1. QED
      BY <2>1, <2>3, <2>4
  <2>6. QED
    BY <2>5
<1>10. QED
  BY <1>1, <1>9

\* CountMonthlyUsage counts from the start of the current month; nothing is
\* stamped later, so it counts what the ledger says of this month.
LEMMA UsageIsUsed ==
    ASSUME SubmitTypeOK, Committed, NEW s \in Keys
    PROVE  MonthlyUsage(s, month) = Used[s][month]
<1>1. {q \in ResultsOf(s) : stamp[q] >= month} = Charged(s, month)
  <2>1. \A q \in results : stamp[q] >= month <=> stamp[q] = month
    BY DEF Committed, SubmitTypeOK
  <2>2. QED
    BY <2>1 DEF Charged, ResultsOf
<1>2. month \in 1 .. MaxMonth
  BY DEF SubmitTypeOK
<1>3. QED
  BY <1>1, <1>2, UsedMeaning DEF MonthlyUsage

\* One more than the overruns is within a quota of at least one and the overruns.
LEMMA OneWithin ==
    ASSUME NEW n \in Nat, NEW o \in Nat, NEW q \in Nat \ {0}, n <= o + 1
    PROVE  n + 0 <= q + o
OBVIOUS

\* The step invariant from what a step adds to the holders of one session.
LEMMA QuotaInvStep ==
    ASSUME SubmitTypeOK, Committed, QuotaInv, [Next]_vars, WorkingBounded'
    PROVE  QuotaInv'
<1> USE LockAssumption DEF SubmitTypeOK, LockTypeOK, Steps, Goto, Return, Unwind
<1> DEFINE Bounded(s, m) ==
      /\ IsFiniteSet(Holders(s, m)')
      /\ Cardinality(Holders(s, m)') + PriorIn(s, m) <= Quota(s) + overruns'
<1>b. /\ overruns \in Nat /\ overruns' \in Nat
      /\ overruns' = overruns \/ overruns' = overruns + 1
  BY CountersGrow
<1>c. \A r \in Requests : Session(r) \in Keys
  BY DEF Session
<1>d. ASSUME NEW s \in Keys, NEW m \in 1 .. MaxMonth
      PROVE  PriorIn(s, m) \in Nat /\ Quota(s) \in Nat \ {0}
  BY QuotaPositive, SubmitAssumption DEF PriorIn
<1>1. ASSUME NEW s \in Keys, NEW m \in 1 .. MaxMonth, Holders(s, m)' \subseteq Holders(s, m)
      PROVE  Bounded(s, m)
  <2>1. IsFiniteSet(Holders(s, m)) /\ Cardinality(Holders(s, m)) \in Nat
    BY FS_CardinalityType DEF QuotaInv
  <2>2. /\ IsFiniteSet(Holders(s, m)') /\ Cardinality(Holders(s, m)') \in Nat
        /\ Cardinality(Holders(s, m)') <= Cardinality(Holders(s, m))
    BY <1>1, <2>1, FS_Subset, FS_CardinalityType
  <2>3. Cardinality(Holders(s, m)) + PriorIn(s, m) <= Quota(s) + overruns
    BY DEF QuotaInv
  <2>4. QED
    BY <1>b, <1>d, <2>1, <2>2, <2>3
\* Steps that neither stamp, commit nor let a request through.
<1>2. ASSUME UNCHANGED <<results, stamp, month>>,
             \A r \in Requests :
                 \/ pc'[r] = pc[r]
                 \/ pc'[r] \notin BeforeStamp \union {"commit"}
                 \/ pc[r] \in BeforeStamp /\ pc'[r] \in BeforeStamp
      PROVE  QuotaInv'
  <2>1. ASSUME NEW s \in Keys, NEW m \in 1 .. MaxMonth
        PROVE  Holders(s, m)' \subseteq Holders(s, m)
    BY <1>2 DEF Holders, Charged, OnTheWay, ResultsOf, BeforeStamp
  <2>2. QED
    BY <1>1, <2>1 DEF QuotaInv, PriorIn, Quota
<1>3. ASSUME NEW r \in Requests, Arrive(r) \/ CheckIdempotency(r) \/ Acquire(r)
      PROVE  QuotaInv'
  BY <1>2, <1>3 DEF Arrive, CheckIdempotency, Acquire, BeforeStamp
<1>4. ASSUME NEW r \in Requests,
             ValidateAnswers(r) \/ CheckBudget(r) \/ AcquireSlot(r) \/ Generate(r) \/ Consume(r)
      PROVE  QuotaInv'
  BY <1>2, <1>4
     DEF ValidateAnswers, CheckBudget, AcquireSlot, Generate, Consume, BeforeStamp
<1>5. ASSUME NEW r \in Requests,
             \/ EnqueuePDF(r) \/ SaveIdempotency(r) \/ Release(r)
             \/ \E step \in {"quota", "validate", "commit"} : FailAt(r, step)
      PROVE  QuotaInv'
  BY <1>2, <1>5 DEF EnqueuePDF, SaveIdempotency, Release, FailAt, BeforeStamp
<1>6. ASSUME NEW p \in Procs, CrashProcess(p)
      PROVE  QuotaInv'
  BY <1>2, <1>6 DEF CrashProcess, BeforeStamp
<1>7. CASE \/ \E k \in Keys : ExpireLock(k)
           \/ \E k \in IdemKeys : ExpireCache(k)
           \/ UNCHANGED vars
  <2>1. UNCHANGED <<pc, results, stamp, month>>
    BY <1>7 DEF ExpireLock, ExpireCache, vars, submitVars
  <2>2. QED
    BY <1>2, <2>1
<1>8. ASSUME NEW r \in Requests, CheckQuota(r)
      PROVE  QuotaInv'
  <2>1. pc[r] = "quota" /\ UNCHANGED <<results, stamp, month>>
    BY <1>8 DEF CheckQuota
  <2>2. CASE pc' = [pc EXCEPT ![r] = "release"]
    BY <1>2, <2>1, <2>2 DEF BeforeStamp
  <2>3. CASE /\ pc' = [pc EXCEPT ![r] = "validate"]
             /\ MonthlyUsage(Session(r), month) < Quota(Session(r))
    <3>1. ASSUME NEW s \in Keys, NEW m \in 1 .. MaxMonth, s # Session(r) \/ m # month
          PROVE  Holders(s, m)' \subseteq Holders(s, m)
      BY <2>1, <2>3, <3>1 DEF Holders, Charged, OnTheWay, ResultsOf, BeforeStamp
    <3>2. Bounded(Session(r), month)
      <4> DEFINE s == Session(r)
                 C == Charged(s, month)
                 H == Holders(s, month)'
      <4>1. s \in Keys /\ month \in 1 .. MaxMonth
        BY <1>c
      <4>2. IsFiniteSet(C) /\ Cardinality(C) \in Nat
        BY <4>1, ChargedFinite
      <4>3. Cardinality(C) + PriorIn(s, month) < Quota(s)
        <5>1. MonthlyUsage(s, month) = Used[s][month]
          BY <4>1, UsageIsUsed
        <5>2. Used[s][month] = Cardinality(C) + PriorIn(s, month)
          BY <4>1, UsedMeaning DEF PriorIn
        <5>3. QED
          BY <2>3, <5>1, <5>2
      <4>4. H \subseteq C \union WorkingOf(s)'
        BY <2>1 DEF Holders, Charged, OnTheWay, ResultsOf, BeforeStamp, WorkingOf, Working, Session
      <4>5. IsFiniteSet(WorkingOf(s)') /\ Cardinality(WorkingOf(s)') <= overruns' + 1
        BY <4>1 DEF WorkingBounded
      <4>6. Cardinality(C) <= Cardinality(C) /\ overruns' + 1 \in Nat
        <5>1. Cardinality(C) <= Cardinality(C)
          BY <4>2
        <5>2. overruns' + 1 \in Nat
          BY <1>b, OneMore
        <5>3. QED
          BY <5>1, <5>2
      <4> HIDE DEF s, C, H
      <4>7. IsFiniteSet(H) /\ Cardinality(H) <= Cardinality(C) + (overruns' + 1)
        BY <4>2, <4>4, <4>5, <4>6, UnionBound
      <4>8. Cardinality(H) \in Nat
        BY <4>7, FS_CardinalityType
      <4>9. PriorIn(s, month) \in Nat /\ Quota(s) \in Nat
        BY <1>d, <4>1
      <4>10. Cardinality(H) + PriorIn(s, month) <= Quota(s) + overruns'
        BY <1>b, <4>2, <4>3, <4>7, <4>8, <4>9
      <4>11. QED
        BY <4>7, <4>10 DEF s, H
    <3>3. QED
      BY <1>1, <2>1, <3>1, <3>2 DEF QuotaInv, PriorIn, Quota
  <2>4. QED
    BY <1>8, <2>2, <2>3 DEF CheckQuota
<1>9. ASSUME NEW r \in Requests, CheckReferral(r)
      PROVE  QuotaInv'
  <2>1. pc[r] = "referral" /\ pc' = [pc EXCEPT ![r] = "commit"]
        /\ stamp' = [stamp EXCEPT ![r] = month] /\ UNCHANGED <<results, month>>
    BY <1>9 DEF CheckReferral
  <2>2. r \notin results
    BY <2>1 DEF Committed, AfterCommit
  <2>3. ASSUME NEW s \in Keys, NEW m \in 1 .. MaxMonth
        PROVE  Holders(s, m)' \subseteq Holders(s, m)
    BY <2>1, <2>2 DEF Holders, Charged, OnTheWay, ResultsOf, BeforeStamp
  <2>4. QED
    BY <1>1, <2>1, <2>3 DEF QuotaInv, PriorIn, Quota
<1>10. ASSUME NEW r \in Requests, Commit(r)
       PROVE  QuotaInv'
  <2>1. /\ pc[r] = "commit" /\ pc' = [pc EXCEPT ![r] = "enqueue"]
        /\ results' = results \union {r} /\ UNCHANGED <<stamp, month>>
    BY <1>10 DEF Commit
  <2>2. ASSUME NEW s \in Keys, NEW m \in 1 .. MaxMonth
        PROVE  Holders(s, m)' \subseteq Holders(s, m)
    BY <2>1 DEF Holders, Charged, OnTheWay, ResultsOf, BeforeStamp
  <2>3. QED
    BY <1>1, <2>1, <2>2 DEF QuotaInv, PriorIn, Quota
<1>11. CASE NextMonth
  <2>1. month' = month + 1 /\ month + 1 \in 1 .. MaxMonth /\ UNCHANGED <<pc, results, stamp>>
    BY <1>11, SubmitAssumption DEF NextMonth
  <2>2. ASSUME NEW s \in Keys, NEW m \in 1 .. MaxMonth, m # month + 1
        PROVE  Holders(s, m)' \subseteq Holders(s, m)
    BY <2>1, <2>2 DEF Holders, Charged, OnTheWay, ResultsOf
  <2>3. ASSUME NEW s \in Keys, NEW m \in 1 .. MaxMonth, m = month + 1
        PROVE  Bounded(s, m)
    <3>1. \A q \in results : stamp[q] # m
      BY <2>3 DEF Committed
    <3>2. Holders(s, m)' \subseteq WorkingOf(s)'
      BY <2>1, <2>3, <3>1
         DEF Holders, Charged, OnTheWay, ResultsOf, BeforeStamp, WorkingOf, Working
    <3>3. IsFiniteSet(WorkingOf(s)') /\ Cardinality(WorkingOf(s)') <= overruns' + 1
      BY DEF WorkingBounded
    <3>4. overruns' + 1 \in Nat
      BY <1>b, OneMore
    <3>5. IsFiniteSet(Holders(s, m)') /\ Cardinality(Holders(s, m)') <= overruns' + 1
      BY <3>2, <3>3, <3>4, SubsetBound
    <3>6. Cardinality(Holders(s, m)') \in Nat
      BY <3>5, FS_CardinalityType
    <3>7. PriorIn(s, m) = 0
      BY <2>3 DEF PriorIn
    <3>8. Quota(s) \in Nat \ {0}
      BY QuotaPositive
    <3>9. Cardinality(Holders(s, m)') + 0 <= Quota(s) + overruns'
      BY <1>b, <3>5, <3>6, <3>8, OneWithin
    <3>10. QED
      BY <3>5, <3>7, <3>9
  <2>4. QED
    BY <1>1, <2>1, <2>2, <2>3 DEF QuotaInv, PriorIn, Quota
<1>12. QED
  BY <1>3, <1>4, <1>5, <1>6, <1>7, <1>8, <1>9, <1>10, <1>11 DEF Next, Proceed

\* At the start a session has used what it had before.
LEMMA UsedInit ==
    ASSUME Init
    PROVE  /\ Used = [s \in Keys |-> [m \in 1 .. MaxMonth |-> IF m = 1 THEN Prior[s] ELSE 0]]
           /\ \A s \in Keys, m \in 1 .. MaxMonth : Used[s][m] = IF m = 1 THEN Prior[s] ELSE 0
<1>1. ASSUME NEW s \in Keys, NEW m \in 1 .. MaxMonth
      PROVE  Cardinality(Charged(s, m)) = 0
  <2>1. Charged(s, m) = {}
    BY DEF Init, Charged, ResultsOf
  <2>2. QED
    BY <2>1, FS_EmptySet
<1>2. ASSUME NEW s \in Keys, NEW m \in 1 .. MaxMonth
      PROVE  Cardinality(Charged(s, m)) + (IF m = 1 THEN Prior[s] ELSE 0)
               = IF m = 1 THEN Prior[s] ELSE 0
  BY <1>1, SubmitAssumption
<1>3. \A s \in Keys, m \in 1 .. MaxMonth : Used[s][m] = IF m = 1 THEN Prior[s] ELSE 0
  BY <1>2, UsedMeaning
<1>4. Used = [s \in Keys |-> [m \in 1 .. MaxMonth |-> IF m = 1 THEN Prior[s] ELSE 0]]
  BY <1>2 DEF Used, Charged
<1>5. QED
  BY <1>3, <1>4

\* QuotaInv holds in every reachable state.
LEMMA QuotaInvariant == SafeSpec => []QuotaInv
<1>1. Init => QuotaInv
  <2> SUFFICES ASSUME Init, NEW s \in Keys, NEW m \in 1 .. MaxMonth
               PROVE  /\ IsFiniteSet(Holders(s, m))
                      /\ Cardinality(Holders(s, m)) + PriorIn(s, m) <= Quota(s) + overruns
    BY DEF QuotaInv
  <2>1. Holders(s, m) = {}
    BY DEF Init, Holders, Charged, OnTheWay, ResultsOf, BeforeStamp
  <2>2. IsFiniteSet(Holders(s, m)) /\ Cardinality(Holders(s, m)) = 0
    BY <2>1, FS_EmptySet
  <2>3. PriorIn(s, m) <= Quota(s) /\ PriorIn(s, m) \in Nat /\ Quota(s) \in Nat
    BY QuotaPositive, PriorWithinQuota, SubmitAssumption DEF PriorIn
  <2>4. QED
    BY <2>2, <2>3 DEF Init, LockInit
<1>2. QED
  BY <1>1, QuotaInvStep, WorkingInvariant, CommittedInvariant, SubmitTypeCorrect, PTL
     DEF SafeSpec

\* No session exceeds its monthly quota, for any number of concurrent requests
\* on any number of processes, by more than one result for each lock that
\* outlived its TTL.
THEOREM QuotaRespectedHolds == SafeSpec => []QuotaRespected
<1>1. SubmitTypeOK /\ Committed /\ QuotaInv => QuotaRespected
  <2> SUFFICES ASSUME SubmitTypeOK, Committed, QuotaInv, NEW s \in Keys, NEW m \in 1 .. MaxMonth
               PROVE  Used[s][m] <= Quota(s) + overruns
    BY DEF QuotaRespected
  <2>1. /\ IsFiniteSet(Holders(s, m)) /\ Cardinality(Holders(s, m)) \in Nat
        /\ Cardinality(Holders(s, m)) + PriorIn(s, m) <= Quota(s) + overruns
    BY FS_CardinalityType DEF QuotaInv
  <2>2. /\ Cardinality(Charged(s, m)) \in Nat
        /\ Cardinality(Charged(s, m)) <= Cardinality(Holders(s, m))
    BY <2>1, FS_Subset, FS_CardinalityType DEF Holders
  <2>3. /\ Used[s][m] = Cardinality(Charged(s, m)) + PriorIn(s, m)
        /\ PriorIn(s, m) \in Nat /\ Quota(s) \in Nat /\ overruns \in Nat
    BY UsedMeaning, QuotaPositive, SubmitAssumption DEF PriorIn, SubmitTypeOK, LockTypeOK
  <2>4. QED
    BY <2>1, <2>2, <2>3
<1>2. QED
  BY <1>1, QuotaInvariant, CommittedInvariant, SubmitTypeCorrect, PTL

\* While no lock has overrun, a request about to commit has room in its month.
LEMMA RoomToCommit ==
    ASSUME SubmitTypeOK, Committed, QuotaInv, overruns = 0,
           NEW r \in Requests, pc[r] = "commit"
    PROVE  Used[Session(r)][stamp[r]] < Quota(Session(r))
<1> DEFINE s == Session(r)
           m == stamp[r]
<1>1. s \in Keys /\ m \in 1 .. MaxMonth
  BY LockAssumption DEF Committed, Session, SubmitTypeOK
<1>2. r \in Holders(s, m) /\ r \notin Charged(s, m)
  BY DEF Holders, OnTheWay, Charged, ResultsOf, Committed, AfterCommit
<1> HIDE DEF s, m
<1>3. IsFiniteSet(Charged(s, m)) /\ Cardinality(Charged(s, m)) \in Nat
  BY <1>1, ChargedFinite
<1>4. /\ IsFiniteSet(Charged(s, m) \union {r})
      /\ Cardinality(Charged(s, m) \union {r}) = Cardinality(Charged(s, m)) + 1
  BY <1>2, <1>3, FS_AddElement
<1>5. /\ IsFiniteSet(Holders(s, m)) /\ Cardinality(Holders(s, m)) \in Nat
      /\ Cardinality(Holders(s, m)) + PriorIn(s, m) <= Quota(s)
  <2>1. Cardinality(Holders(s, m)) + PriorIn(s, m) <= Quota(s) + 0
    BY <1>1 DEF QuotaInv
  <2>2. Quota(s) \in Nat /\ IsFiniteSet(Holders(s, m))
    BY <1>1, QuotaPositive DEF QuotaInv
  <2>3. QED
    BY <2>1, <2>2, FS_CardinalityType
<1>6. Cardinality(Charged(s, m) \union {r}) <= Cardinality(Holders(s, m))
  <2>1. (Charged(s, m) \union {r}) \subseteq Holders(s, m)
    BY <1>2 DEF Holders
  <2>2. QED
    BY <1>5, <2>1, FS_Subset
<1>7. /\ Used[s][m] = Cardinality(Charged(s, m)) + PriorIn(s, m)
      /\ PriorIn(s, m) \in Nat /\ Quota(s) \in Nat
  BY <1>1, UsedMeaning, QuotaPositive, SubmitAssumption DEF PriorIn
<1>8. Used[s][m] < Quota(s)
  BY <1>3, <1>4, <1>5, <1>6, <1>7
<1>9. QED
  BY <1>8 DEF s, m

-----------------------------------------------------------------------------
(***************************************************************************)
(* The refinement: a commit charges the ledger, the turn of the month is   *)
(* the ledger's, every other step leaves it alone.                         *)
(***************************************************************************)
LEMMA LedgerStep ==
    ASSUME MaxOverruns = 0, SubmitTypeOK, Committed, QuotaInv, [Next]_vars
    PROVE  [Ledger!Next]_<<Used, month>>
<1> USE LockAssumption DEF SubmitTypeOK, LockTypeOK
<1>1. ASSUME NEW r \in Requests, Commit(r)
      PROVE  Ledger!Charge(Session(r), stamp[r])
  <2>1. pc[r] = "commit" /\ month' = month
    BY <1>1 DEF Commit
  <2>2. /\ stamp[r] \in 1 .. month
        /\ Used' = [Used EXCEPT ![Session(r)][stamp[r]] = @ + 1]
    BY <1>1, UsedByCommit
  <2>3. Used[Session(r)][stamp[r]] < Quota(Session(r))
    BY <2>1, RoomToCommit
  <2>4. QED
    BY <2>1, <2>2, <2>3 DEF Ledger!Charge
<1>2. ASSUME NextMonth
      PROVE  Ledger!NextMonth
  <2>1. Used' = Used
    BY <1>2, UsedUnchanged DEF NextMonth
  <2>2. QED
    BY <1>2, <2>1, SubmitAssumption DEF NextMonth, Ledger!NextMonth
<1>3. ASSUME UNCHANGED <<results, month>>, \A q \in results : stamp'[q] = stamp[q]
      PROVE  UNCHANGED <<Used, month>>
  BY <1>3, UsedUnchanged
<1>4. ASSUME NEW r \in Requests, CheckReferral(r)
      PROVE  UNCHANGED <<Used, month>>
  <2>1. r \notin results
    BY <1>4 DEF CheckReferral, Committed, AfterCommit
  <2>2. QED
    BY <1>3, <1>4, <2>1 DEF CheckReferral
<1>5. ASSUME NEW r \in Requests,
             \/ Arrive(r) \/ CheckIdempotency(r) \/ Acquire(r) \/ CheckQuota(r)
             \/ ValidateAnswers(r) \/ CheckBudget(r) \/ AcquireSlot(r) \/ Generate(r)
             \/ Consume(r) \/ EnqueuePDF(r) \/ SaveIdempotency(r) \/ Release(r)
             \/ \E step \in {"quota", "validate", "commit"} : FailAt(r, step)
      PROVE  UNCHANGED <<Used, month>>
  <2>1. UNCHANGED <<results, stamp, month>>
    BY <1>5 DEF Arrive, CheckIdempotency, Acquire, CheckQuota, ValidateAnswers, CheckBudget,
                AcquireSlot, Generate, Consume, EnqueuePDF, SaveIdempotency, Release, FailAt
  <2>2. QED
    BY <1>3, <2>1
<1>6. CASE \/ \E k \in Keys : ExpireLock(k)
           \/ \E k \in IdemKeys : ExpireCache(k)
           \/ \E p \in Procs : CrashProcess(p)
           \/ UNCHANGED vars
  <2>1. UNCHANGED <<results, stamp, month>>
    BY <1>6 DEF ExpireLock, ExpireCache, CrashProcess, vars, submitVars
  <2>2. QED
    BY <1>3, <2>1
<1>7. \A r \in Requests : Session(r) \in Keys /\ (stamp[r] \in 1 .. month => stamp[r] \in 1 .. MaxMonth)
  BY DEF Session
<1>8. ASSUME NEW r \in Requests, Commit(r)
      PROVE  Ledger!Next
  <2>1. stamp[r] \in 1 .. month
    BY <1>8, UsedByCommit
  <2>2. QED
    BY <1>1, <1>7, <1>8, <2>1 DEF Ledger!Next
<1>9. QED
  BY <1>2, <1>4, <1>5, <1>6, <1>8 DEF Next, Proceed, Ledger!Next

\* As long as no lock outlives its TTL, the submit pipeline implements the
\* quota ledger.
THEOREM SubmitImplementsLedger ==
    ASSUME MaxOverruns = 0
    PROVE  SafeSpec => ImplementsLedger
<1>1. Init => Ledger!Init
  BY UsedInit DEF Init, Ledger!Init
<1>2. SubmitTypeOK /\ Committed /\ QuotaInv /\ [Next]_vars => [Ledger!Next]_<<Used, month>>
  BY LedgerStep
<1>3. QED
  BY <1>1, <1>2, QuotaInvariant, CommittedInvariant, SubmitTypeCorrect, PTL
     DEF SafeSpec, ImplementsLedger, Ledger!Spec
=============================================================================
